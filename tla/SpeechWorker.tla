---------------------------- MODULE SpeechWorker ----------------------------
(***************************************************************************)
(* One TTS worker process: TTSLitAPI of src/litserver/litapi.py, driving   *)
(* the ParlerTTSEngine of src/litserver/parler/engine.py through the       *)
(* stream_playable of src/litserver/base.py.                               *)
(*                                                                         *)
(* LitServe, which is external, hands a worker one request after the other *)
(* and pulls its generators: predict checks the voice, chunk_text (see     *)
(* Chunker) cuts the text up, and every clause is spoken when it is pulled. *)
(*                                                                         *)
(* The audio the model makes of the clause it speaks as number i of a      *)
(* request is a piece of 0 to MaxSamples samples <<r, i>>; the pause       *)
(* between clauses is one sample of silence.                               *)
(*                                                                         *)
(*   loaded   whether the engine holds a model                             *)
(*   job      the request being served, None if there is none              *)
(*   stage    how far it is: "splitting", "flushing" or "speaking"         *)
(*   said     what the model was given to speak for each request           *)
(*   parts    the audio that speak_stream yielded for it                   *)
(*   lines    the audio of the lines sent for it                           *)
(*   outcome  how it ended: "ok", a status of an error, None before that   *)
(***************************************************************************)
EXTENDS Chunker

CONSTANTS
  Requests,
  Texts,       \* what may be asked for; TtsRequest lets no blank text pass
  LongestText, \* and none of more than max_length characters
  Voices,      \* the engine's voices
  Unknown,     \* a voice it does not have
  MaxSamples,  \* the longest piece of audio: the bound of the model
  None

Asked == [text : Texts, voice : Voices \cup {Unknown}]

ASSUME WorkerAssumption ==
  /\ Texts \subseteq Seq(Char)
  /\ \A t \in Texts : \E i \in 1..Len(t) : t[i] \notin White
  /\ LongestText \in Nat /\ \A t \in Texts : Len(t) <= LongestText
  /\ Unknown \notin Voices
  /\ MaxSamples \in Nat
  /\ None \notin Requests \cup Nat \cup {"ok", "422", "500"}

VARIABLES asked, loaded, job, stage, said, parts, lines, outcome

workerVars == <<asked, loaded, job, stage, said, parts, lines, outcome>>
vars == <<workerVars, chunkerVars>>

Init ==
  /\ asked \in [Requests -> Asked]
  /\ loaded = FALSE /\ job = None /\ stage = "waiting"
  /\ said = [r \in Requests |-> <<>>]
  /\ parts = [r \in Requests |-> <<>>]
  /\ lines = [r \in Requests |-> <<>>]
  /\ outcome = [r \in Requests |-> None]
  /\ ChunkerInit

Gap == <<"silence">>
Silent(a) == a = <<>>

\* BaseTTSEngine.join, by which speak() is defined.
Join(as) == FlattenSeq([i \in 1..Len(as) |-> IF i = 1 THEN as[i] ELSE Gap \o as[i]])

End(r, code) ==
  /\ outcome' = [outcome EXCEPT ![r] = code]
  /\ job' = None /\ stage' = "waiting"

-----------------------------------------------------------------------------
\* setup: the checkpoint is loaded, and warmed up; a warmup that fails is
\* logged and forgotten.
Setup ==
  /\ ~loaded
  /\ loaded' = TRUE
  /\ UNCHANGED <<asked, job, stage, said, parts, lines, outcome, chunkerVars>>

\* decode_request, and predict up to its check of the voice.
Take(r) ==
  /\ loaded /\ job = None /\ outcome[r] = None
  /\ asked[r].voice \in Voices
  /\ job' = r /\ stage' = "splitting"
  /\ buffer' = asked[r].text /\ fed' = asked[r].text
  /\ chunks' = <<>> /\ pc' = "feed" /\ feeds' = 1
  /\ UNCHANGED <<asked, loaded, said, parts, lines, outcome>>

Reject(r) ==
  /\ loaded /\ job = None /\ outcome[r] = None
  /\ asked[r].voice \notin Voices
  /\ End(r, "422")
  /\ UNCHANGED <<asked, loaded, said, parts, lines, chunkerVars>>

\* chunk_text is feed(text) + flush(), of a chunker of its own.
Split ==
  /\ stage \in {"splitting", "flushing"} /\ Runs
  /\ UNCHANGED workerVars

SplitRest ==
  /\ stage = "splitting" /\ Flush
  /\ stage' = "flushing"
  /\ UNCHANGED <<asked, loaded, job, said, parts, lines, outcome>>

SplitDone ==
  /\ stage = "flushing" /\ pc = "idle"
  /\ stage' = "speaking"
  /\ UNCHANGED <<asked, loaded, job, said, parts, lines, outcome, chunkerVars>>

\* The next clause of job, for as long as there is one.
Clause == chunks[Len(said[job]) + 1]
HasClause == stage = "speaking" /\ Len(said[job]) < Len(chunks)

Generate == said' = [said EXCEPT ![job] = Append(@, Clause)]

\* synthesize speaks the clause, stream_playable puts the pause in front of it
\* unless it is the first, and it is sent as a line.
SpeakGapAfterSound(n) ==  \* a bug to be caught: no pause before silence
  LET a == [i \in 1..n |-> <<job, Len(said[job]) + 1>>]
  IN  /\ HasClause
      /\ Generate
      /\ parts' = [parts EXCEPT ![job] = Append(@, a)]
      /\ lines' = [lines EXCEPT ![job] =
                     Append(@, IF Silent(FlattenSeq(@)) THEN a ELSE Gap \o a)]
      /\ UNCHANGED <<asked, loaded, job, stage, outcome, chunkerVars>>

Speak(n) ==
  LET a == [i \in 1..n |-> <<job, Len(said[job]) + 1>>]
  IN  /\ HasClause
      /\ Generate
      /\ parts' = [parts EXCEPT ![job] = Append(@, a)]
      /\ lines' = [lines EXCEPT ![job] =
                     Append(@, IF said[job] = <<>> THEN a ELSE Gap \o a)]
      /\ UNCHANGED <<asked, loaded, job, stage, outcome, chunkerVars>>

RaisesSkipping ==  \* a bug to be caught: a clause that fails is left out
  /\ HasClause
  /\ Generate
  /\ UNCHANGED <<asked, loaded, job, stage, parts, lines, outcome, chunkerVars>>

\* The model or a tokenizer raises: a ValueError is made a 422, anything else
\* is LitServe's 500.  Lines that were sent stay sent.
Raises ==
  /\ HasClause
  /\ Generate
  /\ \E code \in {"422", "500"} : End(job, code)
  /\ UNCHANGED <<asked, loaded, parts, lines, chunkerVars>>

\* The generators are exhausted.
Finish ==
  /\ stage = "speaking" /\ ~HasClause
  /\ End(job, "ok")
  /\ UNCHANGED <<asked, loaded, said, parts, lines, chunkerVars>>

Serve ==
  \/ Setup
  \/ \E r \in Requests : Take(r) \/ Reject(r)
  \/ Split \/ SplitRest \/ SplitDone
  \/ \E n \in 0..MaxSamples : Speak(n)
  \/ Raises \/ Finish

AllServed == (\A r \in Requests : outcome[r] # None) /\ UNCHANGED vars

Next == Serve \/ AllServed

Spec == Init /\ [][Next]_vars

-----------------------------------------------------------------------------
(***************************************************************************)
(* Chunker, engine and API together are the source of takes the gateway    *)
(* relies on: a clause cut is a line sent, in one stream per request, and  *)
(* a stream that ends well is not one line short.                          *)
(***************************************************************************)
Source == INSTANCE TakeSource WITH
  MaxLines <- LongestText,  \* a clause has a character at least
  left <- [r \in Requests |->
             IF job = r /\ stage = "speaking" THEN Len(chunks) - Len(said[r]) ELSE None],
  sent <- [r \in Requests |-> Len(lines[r])],
  ended <- [r \in Requests |->
              IF outcome[r] \in {None, "ok"} THEN outcome[r] ELSE "error"]

ServesTakes == Source!Spec

(***************************************************************************)
(* "A caller that simply concatenates the stream gets a buffer identical   *)
(* to speak()": whatever has been sent so far is what speak() would make   *)
(* of the clauses spoken so far, also where a clause came out empty.       *)
(***************************************************************************)
StreamIsSpeech == \A r \in Requests : FlattenSeq(lines[r]) = Join(parts[r])

(***************************************************************************)
(* A request that ends well has been spoken from its first character to    *)
(* its last, in order, and carries audio of every clause: cutting a text   *)
(* up and speaking it piece by piece leaves nothing out.                   *)
(***************************************************************************)
AllIsSpoken ==
  \A r \in Requests : outcome[r] = "ok" =>
    /\ Visible(FlattenSeq(said[r])) = Visible(asked[r].text)
    /\ Len(lines[r]) = Len(said[r]) /\ Len(lines[r]) > 0
=============================================================================
