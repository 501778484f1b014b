----------------------------- MODULE SpeechRoute -----------------------------
(***************************************************************************)
(* POST /v1/audio/speech of the gateway: src/api/v1/tts/router.py, with    *)
(* the stream of src/api/client.py it reads and the cache it fills.        *)
(*                                                                         *)
(* Requests run on one event loop, so what a handler does between two      *)
(* awaits is one action, and the actions of different requests interleave. *)
(* The model worker behind LitServe, the network and the client are the    *)
(* environment: they fail, go silent and go away as they like.             *)
(*                                                                         *)
(* The worker makes a new recording, a take, for every request it serves:  *)
(* "generation samples, so the same text synthesized twice is already two  *)
(* slightly different recordings".  Part i of the take made for request r  *)
(* is <<r, i>>.  A Reply is what was collected of a take: how many parts   *)
(* of it, and how many the worker meant to send.                           *)
(*                                                                         *)
(*   cache    the module-level speech_cache, see SpeechLRU                 *)
(*   asked    key, tag and streaming mode of a request, None before it     *)
(*   phase    where its handler, or the response it left behind, is        *)
(*   reply    the entry it replays, or what it has collected so far        *)
(*   status   the status line its client got, None before that             *)
(*   body     the parts its client got                                     *)
(*   fault    what went wrong with the worker for it, None if nothing did  *)
(*   ended    whether the client was told that the body is complete        *)
(***************************************************************************)
EXTENDS SpeechLRU

CONSTANTS
  Requests,
  MaxParts,        \* the longest take, in parts; a part counts as one byte
  CleanTruncation  \* can a take that broke off look like one that ended?

Asked == [key : Keys, tagged : BOOLEAN, stream : BOOLEAN]

Reply == [key : Keys, take : Requests, parts : 1..MaxParts, of : 1..MaxParts]

Phases == {"new", "opening", "collecting", "sending", "replaying", "done"}
Statuses == {"200", "422", "500", "502", "503", "504"}
Faults == {"unreachable", "timeout", "rejected", "empty", "malformed", "broken"}

ASSUME RouteAssumption ==
  /\ MaxParts \in Nat \ {0}
  /\ CleanTruncation \in BOOLEAN
  /\ Speech = Reply
  /\ NBytes = [s \in Reply |-> s.parts]
  /\ None \notin Reply \cup Asked \cup Faults

VARIABLES cache, asked, phase, reply, status, body, fault, ended

vars == <<cache, asked, phase, reply, status, body, fault, ended>>

Init ==
  /\ cache = Cold
  /\ asked = [r \in Requests |-> None]
  /\ phase = [r \in Requests |-> "new"]
  /\ reply = [r \in Requests |-> None]
  /\ status = [r \in Requests |-> None]
  /\ body = [r \in Requests |-> <<>>]
  /\ fault = [r \in Requests |-> None]
  /\ ended = [r \in Requests |-> FALSE]

Goto(r, p) == phase' = [phase EXCEPT ![r] = p]
Answer(r, code) == status' = [status EXCEPT ![r] = code]
Fault(r, f) == fault' = [fault EXCEPT ![r] = f]
Complete(r) == ended' = [ended EXCEPT ![r] = TRUE]

\* Every part of a reply, in order.
PartsOf(s) == [i \in 1..s.parts |-> <<s.take, i>>]

-----------------------------------------------------------------------------
\* _validate refuses before the cache or the worker is involved.
Refuse(r) ==
  /\ phase[r] = "new"
  /\ \E code \in {"503", "422"} : Answer(r, code)
  /\ Goto(r, "done")
  /\ UNCHANGED <<cache, asked, reply, body, fault, ended>>

\* The handler up to its first await: a hit is answered from the entry it
\* found, a miss asks the worker.
Handle(r, a) ==
  LET hit == cache.held[a.key]
  IN  /\ phase[r] = "new"
      /\ asked' = [asked EXCEPT ![r] = a]
      /\ cache' = AfterGet(cache, a.key)
      /\ reply' = [reply EXCEPT ![r] = hit]
      /\ IF hit = None
         THEN Goto(r, "opening") /\ UNCHANGED <<status, body, ended>>
         ELSE /\ Answer(r, "200")
              /\ IF a.stream
                 THEN Goto(r, "replaying") /\ UNCHANGED <<body, ended>>
                 ELSE /\ Goto(r, "done")
                      /\ body' = [body EXCEPT ![r] = PartsOf(hit)]
                      /\ Complete(r)
      /\ UNCHANGED fault

\* A request that gets no audio at all is answered with an error.
Fails(r, f, code) ==
  /\ phase[r] = "opening"
  /\ Fault(r, f) /\ Answer(r, code) /\ Goto(r, "done")
  /\ UNCHANGED <<cache, asked, reply, body, ended>>

\* httpx raises while the stream is opened or its first line is awaited.
\* Nothing on this route catches that, so the framework answers 500.
Unreachable(r) == Fails(r, "unreachable", "500")
TimesOutOpening(r) == Fails(r, "timeout", "500")

\* LitServe answers with a status of its own, which is passed on.
WorkerRejects(r) == \E code \in {"422", "500", "503", "504"} : Fails(r, "rejected", code)

\* The stream ends before its first chunk.
NoAudio(r) == Fails(r, "empty", "502")

\* The first chunk of a take of n parts arrives.  A streaming caller gets its
\* status line now; a buffered one when the take is complete.
FirstChunk(r, n) ==
  /\ phase[r] = "opening"
  /\ reply' = [reply EXCEPT ![r] =
                 [key |-> asked[r].key, take |-> r, parts |-> 1, of |-> n]]
  /\ IF asked[r].stream
     THEN Goto(r, "sending") /\ Answer(r, "200")
     ELSE Goto(r, "collecting") /\ UNCHANGED status
  /\ UNCHANGED <<cache, asked, body, fault, ended>>

\* A bug to be caught: a replay looks its entry up again.
DeliverFromCache(r) ==
  LET now == cache.held[asked[r].key]
      s == IF phase[r] = "replaying" /\ now # None THEN now ELSE reply[r]
  IN  /\ phase[r] \in {"sending", "replaying"}
      /\ Len(body[r]) < reply[r].parts
      /\ body' = [body EXCEPT ![r] = Append(@, <<s.take, Len(@) + 1>>)]
      /\ UNCHANGED <<cache, asked, phase, reply, status, fault, ended>>

\* A part that was yielded reaches the client.
Deliver(r) ==
  /\ phase[r] \in {"sending", "replaying"}
  /\ Len(body[r]) < reply[r].parts
  /\ body' = [body EXCEPT ![r] = Append(@, <<reply[r].take, Len(@) + 1>>)]
  /\ UNCHANGED <<cache, asked, phase, reply, status, fault, ended>>

\* The worker's next line is awaited: by a buffered request at any time, by a
\* streaming one when the client has taken every part so far.
Awaiting(r) ==
  \/ phase[r] = "collecting"
  \/ phase[r] = "sending" /\ Len(body[r]) = reply[r].parts

\* A bug to be caught: a line is counted twice.
NextChunkTwice(r) ==
  /\ Awaiting(r)
  /\ reply[r].parts < reply[r].of
  /\ reply' = [reply EXCEPT ![r].parts = @ + 2]
  /\ UNCHANGED <<cache, asked, phase, status, body, fault, ended>>

NextChunk(r) ==
  /\ Awaiting(r)
  /\ reply[r].parts < reply[r].of
  /\ reply' = [reply EXCEPT ![r].parts = @ + 1]
  /\ UNCHANGED <<cache, asked, phase, status, body, fault, ended>>

\* A bug to be caught: a buffered caller is given what there is.
BreaksOffPartly(r, f, code) ==
  /\ Fault(r, f)
  /\ IF phase[r] = "collecting"
     THEN Answer(r, "200") /\ body' = [body EXCEPT ![r] = PartsOf(reply[r])]
     ELSE UNCHANGED <<status, body>>
  /\ Goto(r, "done")
  /\ UNCHANGED <<cache, asked, reply, ended>>

\* Something is raised in the middle of a take.  A buffered caller gets an
\* error; a streaming one, already carrying a 200, a body that breaks off.
BreaksOff(r, f, code) ==
  /\ Fault(r, f)
  /\ IF phase[r] = "collecting" THEN Answer(r, code) ELSE UNCHANGED status
  /\ Goto(r, "done")
  /\ UNCHANGED <<cache, asked, reply, body, ended>>

\* _pcm finds a payload it cannot decode.  The first one is decoded before
\* anything is sent, but after a streaming caller's status line.
FirstMalformed(r) ==
  Fails(r, "malformed", IF asked[r].stream THEN "200" ELSE "502")

Malformed(r) ==
  /\ Awaiting(r)
  /\ reply[r].parts < reply[r].of
  /\ BreaksOff(r, "malformed", "502")

\* The connection to the worker breaks (or carries a line that is not JSON),
\* or is silent for too long.
TimesOutStreaming(r) ==  \* a bug to be caught: only streams have a timeout
  phase[r] = "sending" /\ Awaiting(r) /\ BreaksOff(r, "timeout", "500")

ConnectionLost(r) == Awaiting(r) /\ BreaksOff(r, "broken", "500")
TimesOut(r) == Awaiting(r) /\ BreaksOff(r, "timeout", "500")

\* A bug to be caught: a reply is stored whether or not it was tagged.
ExhaustedUntagged(r) ==
  /\ Awaiting(r)
  /\ reply[r].parts = reply[r].of \/ CleanTruncation
  /\ cache' = AfterPut(cache, asked[r].key, reply[r])
  /\ IF phase[r] = "collecting"
     THEN Answer(r, "200") /\ body' = [body EXCEPT ![r] = PartsOf(reply[r])]
     ELSE UNCHANGED <<status, body>>
  /\ Complete(r)
  /\ Goto(r, "done")
  /\ UNCHANGED <<asked, reply, fault>>

\* The worker's stream is exhausted: a tagged reply is stored, and only then
\* is the body complete.
Exhausted(r) ==
  /\ Awaiting(r)
  /\ reply[r].parts = reply[r].of \/ CleanTruncation
  /\ cache' = IF asked[r].tagged
              THEN AfterPut(cache, asked[r].key, reply[r])
              ELSE cache
  /\ IF phase[r] = "collecting"
     THEN Answer(r, "200") /\ body' = [body EXCEPT ![r] = PartsOf(reply[r])]
     ELSE UNCHANGED <<status, body>>
  /\ Complete(r)
  /\ Goto(r, "done")
  /\ UNCHANGED <<asked, reply, fault>>

\* _replay has yielded every part of the entry.
Replayed(r) ==
  /\ phase[r] = "replaying"
  /\ Len(body[r]) = reply[r].parts
  /\ Complete(r)
  /\ Goto(r, "done")
  /\ UNCHANGED <<cache, asked, reply, status, body, fault>>

\* A bug to be caught: what was collected is stored in a finally.
HangUpStores(r) ==
  /\ phase[r] \in {"sending", "replaying"}
  /\ cache' = IF phase[r] = "sending" /\ asked[r].tagged
              THEN AfterPut(cache, asked[r].key, reply[r])
              ELSE cache
  /\ Goto(r, "done")
  /\ UNCHANGED <<asked, reply, status, body, fault, ended>>

\* The client of a streaming response goes away: the generator is closed
\* where it stands.  A buffered handler does not notice its client leaving.
HangUp(r) ==
  /\ phase[r] \in {"sending", "replaying"}
  /\ Goto(r, "done")
  /\ UNCHANGED <<cache, asked, reply, status, body, fault, ended>>

-----------------------------------------------------------------------------
Opens(r) ==
  \/ Unreachable(r) \/ TimesOutOpening(r) \/ WorkerRejects(r) \/ NoAudio(r)
  \/ FirstMalformed(r)
  \/ \E n \in 1..MaxParts : FirstChunk(r, n)

Continues(r) ==
  \/ NextChunk(r) \/ Malformed(r) \/ ConnectionLost(r) \/ TimesOut(r)
  \/ Exhausted(r)

Consumes(r) == Deliver(r) \/ HangUp(r)

AllDone == (\A r \in Requests : phase[r] = "done") /\ UNCHANGED vars

Next ==
  \/ \E r \in Requests :
       \/ Refuse(r)
       \/ \E a \in Asked : Handle(r, a)
       \/ Opens(r) \/ Continues(r) \/ Consumes(r) \/ Replayed(r)
  \/ AllDone

Spec == Init /\ [][Next]_vars

-----------------------------------------------------------------------------
(***************************************************************************)
(* Every variable stays in its range.                                      *)
(***************************************************************************)
TypeOK ==
  /\ cache \in Cache
  /\ asked \in [Requests -> Asked \cup {None}]
  /\ phase \in [Requests -> Phases]
  /\ reply \in [Requests -> Speech \cup {None}]
  /\ status \in [Requests -> Statuses \cup {None}]
  /\ body \in [Requests -> Seq(Requests \X (1..MaxParts))]
  /\ fault \in [Requests -> Faults \cup {None}]
  /\ ended \in [Requests -> BOOLEAN]

(***************************************************************************)
(* Only whole takes are cached: a client that hung up, a worker that       *)
(* failed, a payload that did not decode never leave a truncated reply for *)
(* everyone who asks for the same text next.                               *)
(***************************************************************************)
CachedAreWhole ==
  \A k \in Keys : cache.held[k] # None => cache.held[k].parts = cache.held[k].of

(***************************************************************************)
(* What is cached under a key was spoken for that key, for a caller who    *)
(* tagged it as worth keeping.                                             *)
(***************************************************************************)
CachedWereTagged ==
  \A k \in Keys : cache.held[k] # None =>
    LET s == cache.held[k]
    IN  s.key = k /\ asked[s.take].tagged /\ asked[s.take].key = k

(***************************************************************************)
(* A body the client may take for complete is, from its first part to its  *)
(* last, one whole take of the text the client asked for: a replay is not  *)
(* disturbed by the entry being evicted or replaced while it is sent.      *)
(***************************************************************************)
CompleteBodiesAreOneTake ==
  \A r \in Requests : ended[r] =>
    /\ status[r] = "200"
    /\ reply[r].key = asked[r].key
    /\ body[r] = [i \in 1..reply[r].of |-> <<reply[r].take, i>>]

(***************************************************************************)
(* The inductive invariant behind the three above: what each stage of a    *)
(* request knows.  Faithful is the assumption about the transport that     *)
(* keeps truncated takes out of the cache.                                 *)
(***************************************************************************)
Faithful == ~CleanTruncation

\* The body of r is a prefix of the reply it is made from.
Prefix(r) ==
  /\ Len(body[r]) <= reply[r].parts
  /\ body[r] = [i \in 1..Len(body[r]) |-> <<reply[r].take, i>>]

Whole(s) == s.parts = s.of

StageOf(r) ==
  /\ phase[r] = "new" => asked[r] = None /\ body[r] = <<>> /\ ~ended[r]
  /\ phase[r] \in {"opening", "collecting", "sending", "replaying"} =>
       asked[r] \in Asked /\ ~ended[r]
  /\ phase[r] \in {"opening", "collecting"} => body[r] = <<>>
  /\ phase[r] = "opening" => reply[r] = None
  /\ phase[r] \in {"collecting", "sending"} =>
       /\ reply[r] \in Reply /\ reply[r].parts <= reply[r].of
       /\ reply[r].take = r /\ reply[r].key = asked[r].key
  /\ phase[r] = "replaying" =>
       reply[r] \in Reply /\ Whole(reply[r]) /\ reply[r].key = asked[r].key
  /\ phase[r] \in {"sending", "replaying"} => status[r] = "200" /\ Prefix(r)

RouteInv ==
  /\ Distinct(cache.order)
  /\ \A r \in Requests : StageOf(r)
  /\ CachedAreWhole /\ CachedWereTagged /\ CompleteBodiesAreOneTake
  /\ \A k \in Keys : cache.held[k] # None => asked[cache.held[k].take] \in Asked

(***************************************************************************)
(* Failures are told.  A worker that fails before its first chunk costs    *)
(* the caller an error status, in both modes, and never a 200 that breaks  *)
(* off; and a buffered caller gets exactly one of a complete 200 and an    *)
(* error without a body, at whatever line its take broke off.              *)
(***************************************************************************)
FailuresAreTold ==
  \A r \in Requests :
    /\ fault[r] \in {"unreachable", "timeout", "rejected", "empty"} /\ reply[r] = None =>
         status[r] \in Statuses \ {"200"}
    /\ (phase[r] = "done" /\ asked[r] # None /\ ~asked[r].stream) =>
         /\ status[r] = "200" <=> ended[r]
         /\ ~ended[r] => fault[r] # None /\ body[r] = <<>>

(***************************************************************************)
(* Every request is over in the end, whatever the worker does or does not  *)
(* (see SpeechService, for the clocks this rests on).                      *)
(***************************************************************************)
RequestsEnd ==
  \A r \in Requests : phase[r] \notin {"new", "done"} ~> phase[r] = "done"

=============================================================================
