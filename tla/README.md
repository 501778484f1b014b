# Verification of the EC Speech Service

TLA+ models, TLC runs and TLAPS proofs for the Bengali speech service in this
repository: the FastAPI gateway (`main.py`, `src/api`) and the model server it
forwards to (`run_litserve.py`, `src/litserver`, `src/utils`).

`PROJECT.json` lists components, runs, mutants, findings, hazards and theorems,
and maps every definition that models code to the lines it models.

## 1. The system

The **gateway** is one process with one event loop. It loads no model: every
request is forwarded over HTTP to **LitServe**, the process that holds the
models, through `src/api/client.py`. What the gateway keeps itself is what is
hard to get right: a cache of synthesized replies that all requests share, and a
trace of every ASR conversation on disk, written by threads.

A **LitServe worker** serves one request at a time. The TTS worker cuts a text
into clauses and streams each one's audio as a line of JSON as soon as it is
spoken; the ASR worker decodes the clips of a request, transcribes them in
batches and, if configured, rewrites spelled-out numbers as digits.

| Component | State | Operations | Hard because |
|---|---|---|---|
| Speech cache `tts/cache.py` | ordered dict, running byte total, counters, one lock | `get`, `put`, `clear`, `stats`, `sizing` | threads; a total kept beside the dict; eviction at the cap |
| Speech route `tts/router.py` | per request: reply collected so far, response generator; the module's cache | hit or miss, buffered or streamed, replay | awaits between the miss and the store; clients that hang up; workers that fail at any point |
| Client `api/client.py` | none | `transcribe`, `synthesize_stream`, `forward_to_litserve` | timeouts, connection errors, who translates them |
| ASR routes `asr/router.py` | per request | `/asr`, `/v1/audio/transcriptions` | the answer waits for the trace |
| Trace store `asr/trace.py` | files; lock; bounded map from conversation to file; last pruned day | `save_trace` with find, create, append, prune | threads, crash between create and replace, disk faults, midnight, pruning outside the lock |
| TTS worker API `litserver/litapi.py` | engine, request being served | `predict`, `encode_response` | errors in the middle of a stream; checks inside generators |
| TTS engines `litserver/base.py`, `parler/engine.py` | the model | `synthesize`, `speak_stream`, `stream_playable`, `join` | the stream and the whole buffer must agree |
| Text chunker `parler/chunking.py` | a buffer | `feed`, `flush`, `clear` | boundaries at and around the limit |
| ASR worker API and Zipformer engine `litapi.py`, `zipformer/engine.py` | open streams of a batch; the stream of a live session | `decode_request`, `transcribe`, `encode_response`; `accept`, `is_endpoint`, `reset`, `finish` | streams that finish at different times; one bad clip of several; a decoder that lags when a turn ends |
| Audio decoding `utils/audio.py` | a temporary file | `decode_base64_audio` | failure between creation and removal |
| Number rewriting `utils/itn.py` | none | `bengali_numerals_to_digits` | runs, scales, decimal points, blanks |
| LitServe server `litserver/server.py` | queue, workers, timeout (external) | queueing, serving, the 504 | two timeouts, one on each side of a connection |
| Benchmark `scripts/benchmark.py` | a semaphore, a task per file | `run_benchmark`, `call_endpoint`, `main` | concurrent requests that fail one by one; clocks |
| Gateway application, configuration, schemas, layouts, logging, data download | configuration | | not modelled, see section 8 |

Interactions: the route calls the cache from the event loop (`/health` reads its
counters); the handlers of ASR await `save_trace` in a thread of the pool; the
gateway reads the worker's stream line by line, so the worker's generators run
only as fast as they are pulled; the two APIs of LitServe share a device but no
state of this program.

What makes each component correct: of the cache, that its total is exact, its
cap holds, its eviction order is the order of use and its methods are atomic; of
the speech route, that no truncated reply is cached or passed off as complete
and every failure is told; of the trace store, that a turn which was saved stays,
with its own audio, in one file of its own conversation, and that tracing never
costs a caller the answer; of the TTS worker, that all of the text is spoken, in
bounded prompts, and streamed as it would be spoken whole; of gateway and server
together, that overload is told by the server's 504 and that a slow reply is not
cut off; of the ASR worker, that each clip gets its own, complete transcript or
the request fails; of a live session, that each word is in one turn; of the
number rewriting, that a number is read as it is spelled and other words survive;
of the benchmark, that every answer is reported for its own file and the
latencies are those of the stated load.

## 2. Modules

| Module | Models | State and actions |
|---|---|---|
| `SpeechLRU` | the data and pure operations of the cache | `AfterGet`, `AfterPut`, `Cold` on a record of order, content and counters |
| `SpeechCache` | what the class promises | one atomic action per method; the abstract specification |
| `SpeechCacheThreads` | `SpeechCache` of `cache.py`, statement by statement | threads with a `pc`, the lock, dict, total and counters; refines `SpeechCache` (`Linearizable`) |
| `SpeechRoute` | `POST /v1/audio/speech` with its cache | per request a phase, the reply it collects or replays, what the client got; uses the cache atomically, which `Linearizable` justifies |
| `TakeSource` | what a TTS worker promises LitServe | lines left and sent, how a stream ended; an abstract specification |
| `ModelServer` | LitServe with its TTS workers, external | place of a request, queue with waiting times, what is on the wire; `INSTANCE`s `TakeSource` for what workers send |
| `SpeechService` | route and server with time between them | EXTENDS `SpeechRoute`, `INSTANCE`s `ModelServer`; an action is one of either or one of each, and a tick |
| `TraceLog` | what the traces are to a reader | a log per path, midnight; the abstract specification of `TraceStore` |
| `TraceStore` | ASR routes and `trace.py` | disk, process memory and requests; one action per disk access; refines `TraceLog` (`ImplementsTraceLog`) |
| `Chunker` | `IncrementalTextChunker` | buffer and clauses; one action per turn of the loop of `_extract` |
| `SpeechWorker` | the TTS worker | EXTENDS `Chunker`, whose actions it uses for `chunk_text`; setup, take or reject, split, speak, raise, finish; refines `TakeSource` (`ServesTakes`) |
| `Recognizer` | streams of sherpa-onnx, external | what a stream heard, how far it is decoded, where it was reset |
| `Transcriber` | the ASR worker | decoding through the temporary file, batches of streams of `Recognizer`, the answer |
| `LiveSession` | `ZipformerSession` | one stream of `Recognizer`, the running method, the turns taken |
| `Numerals` | `itn.py` | position in the transcript and output; one action per turn of the outer loop |
| `Benchmark` | `scripts/benchmark.py` | a stage per file, the semaphore with its waiters, a clock, answers and records |
| `MC*` | | values of constants and symmetry for TLC; `MCAsrEngine` joins `Transcriber` and `LiveSession` |
| `SpeechCacheProofs`, `SpeechServiceProofs` (with the route's), `SpeechWorkerProofs` (with the chunker's), `AsrEngineProofs`, `TraceStoreProofs`, `BenchmarkProofs`, `NumeralsProofs` | | lemmas, theorems and proofs |
| `SequenceFacts` | | lemmas that several of them cite: `FlattenSeq`, queues in which nothing is twice, sorting, counting |

Definitions that begin with "a bug to be caught" model no code. Each is a
plausible error in the definition that follows it, and the property named for
it in `PROJECT.json` fails when it is put in that definition's place.

### How the models correspond to the code

*Cache.* A method's statements between taking and releasing the lock are the
actions `Lookup`, `PopExisting`, `Insert`, `EvictOne`, `FinishPut` and `Wipe`.
`put` refuses too long a reply before the lock. The one
statement outside the lock that changes state is `rejections += 1`, taken to be
atomic. `stats` and `sizing` only read. `recent` and the answers `got` are
history the properties need.

*Speech route.* What a handler does between two awaits is one action. The worker
makes a new take for every request, so parts are pairs of a take and a number
and two recordings can be told apart. A buffered handler does not notice that
its client has left, so only streaming phases have `HangUp`. The cache is
enabled here; `SpeechCacheThreads` starts in both ways. One part counts as one
byte.

*Gateway and server.* `SpeechService` reuses the actions of `SpeechRoute` as they
are, and says when: a first or next chunk when a line is read, `ConnectionLost`
when the worker's stream broke off, `Fails` when a status is read, a timeout when
the gateway has been reading for `Deadline` ticks. `TakeSource` stands for the
worker, which `SpeechWorker` shows it to be; the worker may be silent for ever.
The network is slow (`Transit`) but loses nothing here, and sends no malformed
line: `SpeechRoute` alone has those faults. A tick does not pass while a message is
at its latest. When LitServe notices that a request has been in its queue for too
long is not of this repository, and every worker may be busy: here it notices at the
timeout, at any time later, or never. `TimeAssumption` has the ten seconds exceed a
round trip.

*Traces.* Names are a day, a base (time and first sentence) and a suffix, a turn
carries one clip, and `uuid` ids differ from callers' ids. `rename` is atomic
and the temporary `.json.tmp` is invisible to every reader, so it is not a file of
the model. A crash is of the process, not a power failure: what was written
stays. The unlink of a claim whose write failed is taken to succeed. There is
one gateway process. `NextDay` requires that a request lasts less than a day.
Where several files of a conversation are found on disk any may be picked (the
code takes the first by name, and names are abstract). For `TraceLog` a file is
gone at the midnight that expires it, whenever it is unlinked, and a turn counts
as written when its save succeeded. A file a
conversation is known to have, but that cannot be read or was pruned, is followed
by a second one: `misreads` counts how often that happened.

*Chunker and TTS worker.* A character is what the code makes of it: strong or
soft mark, white space, a blank to cut at, or a letter. The constructor rejects
a `max_chars` below 16, and `ChunkerAssumption` says the same. Samples are
tagged with request and clause; a gap is one sample of silence. A model that
raises is a `ValueError`, and a 422, or anything else, and LitServe's 500.

*ASR worker and live session.* A clip is its kind (what base64, libsndfile and
ffmpeg make of it) and whether speech is heard. A stream is a sequence of frames,
each a word or silence; the decoder can step when `Window` frames lie ahead of it
and is then done with `Shift` of them, so it lags. `RecognizerAssumption` has the
second of padding reach past that lag (`Pad >= Window - 1`), which is what the
code pads for. Silence after speech is an endpoint. A caller of a session takes
the transcript and resets when, and only when, an endpoint is reported. Every exception of the decoder becomes a `ValueError`, so a full disk is
a 400 as well. `os.unlink` is taken to succeed.

*Numbers.* The tables are constants: `Small`, `Scales` and `Decimal` as the code has
them, and in `Compounds` the words `_expand` takes apart. `NumeralsAssumption` says
that no word is in two of the tables, which is true of the code's, and that a scale
is one of its four. The run has a word for each way the code treats words: units,
tens, a zero, the scale of hundreds that multiplies, larger scales that close, the
decimal point, compounds in one word. What the output must be is said without the
code's position: `Runs` are the longest stretches of numerals, a reading
(`Readings`) writes each of them as one number or keeps it, and `Composed` is the
text that gives. `Spelling` is how a number is said, built from the number down,
where `Read` goes through the words from left to right.

*Benchmark.* A worker runs from one await to the next: up to the permit, and from
the answer to its record. asyncio starts all of them before it looks at a socket
(`Answer` waits for that) and in no particular order, as `tqdm`'s `gather` makes a
set of them; a released permit goes to the first that waits. Times are ticks of
one clock. A response is a transcript, an error (or no answer in time), or
something that is not of the schema; `jiwer` may raise on a reference without
words, which depends on its version.

## 3. Runs

| Run | What it asks and shows |
|---|---|
| `speech_cache` | two threads, two keys, three calls, a cap of two bytes: accounting, cap, what is evicted and in which order; that the class implements the atomic cache; that every call returns |
| `speech_route` | three requests for two texts, takes of up to two parts, a cache that holds two bytes: nothing truncated is cached or taken for complete, failures are told, buffered replies are whole or nothing |
| `speech_service` | two requests for one worker, a queue timeout of two ticks and a margin of three, LitServe noticing as late as it likes: overload is told by the server's 504 as long as the margin allows, a stream is given up only when its worker has been silent for long, every request ends whatever the worker does |
| `trace_store` | three requests of two conversations over three days with a retention of one, room to remember one conversation, failing reads and writes, one crash, pruning outside the lock: no saved turn is lost, every turn has its own audio, one file per conversation and folder, no folder in use is pruned, and the files are the log of `TraceLog` |
| `trace_live` | every caller is answered as LitServe decided, whatever the disk does |
| `trace_midnight` | finding, section 7 |
| `chunker` | up to three deltas around both limits, flush and clear at any time: nothing is lost, clauses are bounded, sentences end them, nothing that could be spoken waits; every call returns |
| `speech_worker` | two requests for every choice of four texts and two voices, empty audio, a model that raises: the stream is the whole buffer cut up, a request that ends well was spoken entirely, and the worker is a `TakeSource` |
| `asr_engine` | up to three clips of every kind, batches of two, clips of up to three frames, failing readers and writes: each clip has its own, complete transcript, or the request is refused; temporary files go. And a live session of up to eight frames, fed by up to two: no word is lost or heard twice, wherever the endpoints fall |
| `numerals` | every transcript of up to four words of eight, and spellings of numbers of up to a hundred and one crores, with and without compounds, alone, among other words and with a fraction: each run is written as the number it spells or kept whole, and what is about it survives |
| `numerals_mangled` | finding, section 7 |
| `benchmark` | three files, two permits, every subset of them in the archive, one label without words or without a transcription: every answer is recorded, latencies add up to no more than the load that is stated, percentiles are percentiles, the run ends |

### Bounds, and why they are enough

* Cache: a cap of two bytes with replies of one, two and three gives an entry
  that shares the cache, one that evicts all others, and one that is refused;
  two keys are an entry that is stored and one that goes for it, or the same
  key replaced; three calls of two threads interleave a call with two others.
  The proofs lift the bounds for every property of this run but liveness.
* Route: a third request is needed for "evicted while replayed and re-stored";
  two parts for a reply that breaks in the middle; two texts for eviction. The
  proofs lift these as well, but for liveness.
* Service: a second request waits while the first is served, until it is just
  short of the timeout, for the whole of it, or for longer than the margin allows; a
  timeout of two ticks has a time before, at and between its ends; a margin of three
  is the least above a round trip, so LitServe is in time at the timeout and not a
  tick later. With `Margin = 2`, `TimeAssumption` fails and TLC finds `OverloadIsTold`
  violated.
* Traces: two turns of one conversation and one of another are needed for a
  mapping to be forgotten and found again. Three days are
  what pruning with a retention of one needs for a folder to age past it while
  a request is in flight. `MaxSuffix` is at least the number of requests, so a
  free name always exists.
* Chunker: letters come in words of 1, 7, 15 and 16, one below and at the limit
  of 16 and the soft limit of 8, with every kind of mark or none behind them, and in
  deltas of several sentences; three deltas make buffers beyond the limit.
* ASR engine: three clips and batches of two make a full and a partial batch;
  clips of different lengths let streams finish at different times. A window of
  three and a shift of two leave a decoder that is one or two frames behind;
  eight frames have room for three turns.
* Benchmark: three files for two permits leave one that waits, is handed a
  permit, and finishes in any order with the others.
* Numerals: four words reach every pair of adjacent words of the vocabulary
  inside a run and at either end. `MCNumbers` are the combinations of no, two or a
  hundred and one crores, no or eighty lakhs, no, one or 209 thousands and a rest
  that is nothing, a unit, a ten, hundreds or both: below, at and above what is
  kept, and below, at and above a hundred as the count of a scale. The proof
  lifts these bounds.

Deadlock is checked in all runs but the chunker's, whose environment may stop
feeding (and runs into `MaxFeeds`). A model that ends has an explicit stuttering
step for it (`AllDone`, `Over`, `Done`, `AllServed`).

## 4. Fairness

Only weak fairness is assumed, and each of it is a fact about the code:

* cache: a thread inside a method runs on. `threading.Lock` is not fair, so the
  calls are bounded, and a waiter gets the lock once the others' calls are over;
* speech service (`ServiceFairSpec`): as long as time can pass or something is due,
  some of it happens: a tick, a message that arrives, `httpx` raising when its time
  is up, the event loop resuming what is ready, a client that takes the next part or
  goes away. One condition for all of it is enough, as nothing due can be put off for
  ever while time passes. **Nothing** is assumed of the workers, nor that LitServe
  ever notices its timeout;
* traces: `httpx` gives up, a thread that was started runs on, the event loop
  resumes. The lock is only waited for by finitely many requests;
* chunker: a call runs on; nothing is assumed about callers;
* ASR worker: the process runs on, and the recognizer and the readers answer
  each call in the end;
* benchmark: the event loop runs what is ready, and a posted request is answered
  or given up by `httpx` (`--timeout`). The TTS worker's run asks for no liveness: its only loop
  of its own is the chunker's.

## 5. What is proved

All proofs are checked by TLAPS for every value of the constants allowed by the
named assumptions.

**Cache** (`SpeechCacheProofs`, lemmas on queues in `SequenceFacts`). The theorems
`CacheTypeCorrect`, `TotalIsExact`, `CapHolds` and `NewEntrySpared` hold for
any finite sets of keys, threads and replies, any lengths and any cap. None of
the four is inductive alone. That the total is exact needs that a `put` between
its `pop` and its insertion finds the key absent; that needs that nobody else is
in a critical section, which is `LockOwner`; that `EvictOne` never pops the new
entry needs that the entry is last in the order, that the order lists exactly
the keys held, each once (`DictInv`), and that a single entry fits the cap, so a
total above the cap means that another entry is there. `CacheInv` is the
conjunction, and the proof has one step per action. The lemmas say how the sum
of lengths changes when an entry is added, replaced or removed.

`EvictionIsByLastUse` needs a second invariant on top: every key held is also in
the history `recent` (`Used`), and the two orders agree on the keys held
(`ColdestFirst`). Removing, appending, moving to the end and dropping the first
each change "x comes before y" in a known way (`BeforeRemove`, `BeforeAppend`,
`BeforeMove`, `BeforeTail`), and the actions of the class are made of these.

`CacheIsLinearizable` shows that the locked code
implements `SpeechCache`. The refinement mapping `Promised` is the cache as it
is while nobody is storing, and otherwise what the storing thread's loop will
leave of it. A `put` takes effect where it drops the entry it replaces; from
there on each of its steps leaves the promise alone. For the eviction loop that
is the lemma `ShrunkStep`: popping the coldest entry of a cache that does not fit
leaves one fewer to be popped (`ExcessStep`, by a bijection), and the same rest
(`OnlyAfterEviction`). A rejection is counted outside the lock, possibly in the
middle of another thread's `put`, and `RejectionCounted` says that the two
commute. `Admitted` adds that no call gets past the check of a disabled cache.

**Speech route** (`SpeechServiceProofs`). `RouteTypeCorrect`,
`OnlyWholeTakesAreCached`, `OnlyTaggedTextsAreCached`,
`CompleteBodiesAreWhole` and `NoFailureIsSilent` hold under `Faithful`, the assumption that the transport
reports a stream that broke off (`CleanTruncation = FALSE`). It cannot be
dropped: lines carry no end marker, so with `CleanTruncation = TRUE` in
`SpeechRoute.cfg` TLC finds, within seconds, a truncated body that its client
takes for complete, and the cache keeps what was collected of it. The invariant `RouteInv`
adds what each phase of a request knows (`StageOf`): what is collected is a
prefix of the request's own take for its own text; what is replayed is whole, and
is the request's copy, so that evicting the entry cannot disturb it; what was
sent is a prefix of it. `NoFailureIsSilent` adds `Told`: a fault ends its request,
a buffered caller is never in a streaming phase nor the other way round, and what
`FailuresAreTold` says of each request.

**Gateway and server** (`SpeechServiceProofs`). `ServiceImplementsRoute` says that a
step of the service is a step of the route or none, so the theorems above hold of
it too. `NoOneIsKeptWaiting` and `SlowRepliesArrive` hold for any number of requests
and workers and any timeouts, under `TimeAssumption` (the margin exceeds a round
trip) and `Faithful`. The first assumes nothing of when LitServe notices that a
request is to be given up: it says how late that may be. `Patience` is the queue
timeout and all of the margin but a round trip, and a request that no worker took
and that stayed in the queue for less is told the 504. That is what a margin can do;
with `Patience` a tick longer TLC finds the gateway first. Neither is inductive. What the gateway has been waiting for is bounded
by where the request is (`WaitOf`): its time on the way, that and its time in the
queue, that and the way back of the 504, each of which a tick extends by one on both
sides; the sum never reaches `Deadline`. `ServiceInv` says what is on the wire from
each place (`WireOf`): nothing before an answer, a 504 at most for a request that
expired, and after a take's last message no line. So a gateway that waits with
nothing on the wire waits for a worker that serves it, and its silence is no longer
than the worker's. The queue itself is not in the invariant: a worker starts only what
it has not had, whatever the queue holds.

**Chunker** (`SpeechWorkerProofs`, lemmas in `SequenceFacts`). `ClausesAlwaysFit`, `SentencesAlwaysEnd` and
`PendingStaysShort` hold for any alphabet with any marks and blanks in it, any
limit the constructor takes, and any sequence of calls and deltas. The searches
of the code (`_find_boundary`, `strip`, `rfind`) pick a least or greatest index;
that one exists is `Least`, from the well-foundedness of `<` on the naturals.
On it rest what the operators return: `StripIs` (a part of its argument without
white space at either end), `HardSplitIs` (a cut between one and the limit), and
with them `EmitClause`: a buffer cut within the limit, with no end of a sentence
before the cut, leaves one more clause that fits (or none, if only white space was
cut off). What remains when the loop is left is short and without a boundary, as
the loop would have gone on otherwise, so `StripClause` covers what `flush` makes
a clause of it. The step after which `PendingIsShort` could fail is `Return`.

`NothingGoesMissing` is about sequences of sequences, for which the induction
theorems of the library cannot be used. A least counterexample can: were two
joins of the same clauses to differ, they would at a least index (`JoinsAgree`),
and were `FlattenSeq` not to distribute over concatenation, it would not for a
shortest sequence, which is another one and a last clause (`FlattenConcat`). So
what is visible of two texts is what is visible of each (`VisibleConcat`),
stripping takes nothing visible away (`VisibleStrip`), and a step moves what it
cuts off from the buffer to the clauses (`EmitTells`). `NothingIsLost` is inductive
on top of the invariant above.

**TTS worker** (`SpeechWorkerProofs`). `StreamsAreSpeech`, `EverythingIsSpoken` and
`WorkerServesTakes` hold for any number of requests and voices, texts up to any
longest one that are not blank (what `TtsRequest` lets pass), and pieces of audio of
any length. The stream is what `speak()` makes because joining one piece more adds
that piece, with its pause, at the end (`JoinAppend`), and because "the first" is
the same piece to `join`, which counts pieces, and to `stream_playable`, which
counts what was spoken: `CountsMatch` keeps lines, parts and clauses in step until
something raises. That everything was spoken needs that what was said are the first
clauses (`StageIs`), and that with the buffer empty the clauses hold the whole text,
which is `NothingIsLost`. The worker is a `TakeSource` since a text that is not
blank has a clause (`ClausesAreThere`, by `VisibleSome`) and a clause costs a
character at least, so there are no more than the text is long (`FewClauses`).

**ASR worker** (`AsrEngineProofs`). `NoPartialAnswers` and `TemporaryFilesGo`
hold for requests of any number of clips, any batch size (also the degenerate
ones), any recognizer, readers that fail and a disk that is full at any time.
`Progress` says that the clips decoded so far are audio, that the current one is
if nothing was raised for it, and that a transcript is made only after the last
was decoded. `OneFile` says that the only file there can be is the current
clip's, and that `tmp_path` names it from the moment the write has succeeded,
which is what the `finally` needs.

`ClipsAreTranscribed` and `NoWordIsLost` are about what the recognizer heard.
Both rest on the padding: a stream that ends in `tail_padding_seconds` of silence
and can be stepped no further has only silence left undecoded (`Flushed`), so its
result is the same as if all of it were. This uses `RecognizerAssumption`, that
the padding is no shorter than what the decoder keeps back, which is what the
source says the padding is for. Words are told apart by where they were said, so
`WordsJoin` (the words up to a reset and those after it are the words) makes the
turns of a session add up. `Transcribed` says of a request that the first `start`
clips have their transcripts, each at its place, and that the open streams are of
those that follow (`OpenBatch`): `BatchIs` gives the slice of the loop,
`CollectAppends` what a batch adds. The theorem assumes a batch size of at least
one, without which it is false (section 7).

**Traces** (`TraceStoreProofs`). `FoldersStay`, `SavedTurnsStay`, `AudioIsThere`,
`ClaimsAreTakenBack`, `FilesAreFound` and `StoreImplementsLog` hold for any number
of requests, conversations, days and crashes, any faults of the disk, any
retention and any bound on the mapping, with sets of requests and names that are
finite. What they assume of the code's surroundings is in the model: `NextDay`
comes only when no request of an earlier day is in flight, a crash keeps the disk.

Pruning runs outside the lock, so the argument is about dates, not about turns:
what is listed to be pruned is past retention when it is listed and stays so
(`SweepsExpired`), a request is of today or of yesterday (`Dates`), and so the
folder of its own day is retained. With that, the invariant `IInv` says of a
retained file that the record a thread has read is still the one on disk
(`WorkIsCurrent`), which is what a lost update would break. It needs that only the
holder of the lock is between reading and replacing (`Mutex`), and that a remembered
path leads to a file of that conversation or to nothing (`HomesAreTheirs`): a claim
of an empty file must not be taken for it. `Shown` is what a reader finds at a path;
`ShownStays` says that no step changes it but a commit and midnight, and
`ShownByCommit` what a commit adds. `SavedTurnsStay` and `StoreImplementsLog` both
follow from these. Three invariants stand on top: a thread about to commit has
written the clip for the next free number (`ClipIsWritten`); no step but a crash
strands a claim (`StrandedNext`), and a crash strands the one of the thread that
holds the lock; while a thread is about to make a file, or to rewrite one, there is
room for it (`FewFiles`), which uses that a request without an id has no file before
it is through (`Through`).

**Benchmark** (`BenchmarkProofs`). `EveryAnswerIsReported` holds for any number of
files, any concurrency, archive and labels, and whatever the endpoint answers.
`Bookkeeping` says that a worker is through once, and has left an answer exactly if
its file is in the archive. When as many are through as there are files, all are (an
injection of `Files` into itself is onto, `OneToOne`), the only way to sort them is
the order of the labels (`GatheredIs`), and leaving out the results that are `None`
keeps the rest in order (`FlattenPicks`, by a shortest counterexample again).

`ReportedLatencies` is about the load. A permit is free or with a worker that has a
request in flight or was handed one it has not yet used: `Queue` counts them, and
with it how many waiters are in the queue, each once. So each second of the batch
has at most `Concurrency` requests in flight, and the pairs of a request and a second
it was in flight in (`InFlight`) are at most that many times the seconds gone by:
this is `LoadInv`, which `Tick` preserves since only it adds pairs. A latency counts
the seconds of its request (`SecondsAreFlights`), so their sum, by one latency at a
time, is at most the number of pairs. That a percentile is one rests on the sorted
order of the good latencies: one exists (`SortingExists`), and whichever is taken,
at least `k` of the values are not above the `k`-th and at most `k - 1` are below it
(`SortedCounts`).

**Inverse text normalization** (`NumeralsProofs`). Both theorems hold for any tables
that satisfy `NumeralsAssumption`, any transcripts and any `min_value`, and
`SpelledNumbers` for any set of numbers with up to 999 of each scale and a rest up to
999 (`NumbersAssumption`); they are not about the words of the run.

The invariant `NumeralsInv` says that no run is under way at the position the code
has reached (`NoneUnderWay`: no stretch of numerals reaches over it), and that what
is out is `Composed` of the parts before it by some `f` that renders runs as
`_render_run` does (`ReadSoFar`). So a numeral at that position begins one of `Runs`
and its greatest end is that run's (`RunHere`); what a kept run or the digits of one
put out is what `Composed` adds for the parts of it (`KeptBetween`,
`FigureBetween`, `ComposedMore`), and a part that is passed is in no run
(`NoRunHere`). At the end `f` is a reading of the whole text (`TextIsRead`). This is
`WordsSurvive`.

`SpelledNumbers` is about what `_parse_int` makes of the words of a run. What it
makes of a list with one token more is what it makes of the list, and then of the
token (`HeardOneMore`, from the uniqueness of the recursive function, by a least
index). `Makes(t, total, current)` says so of a list `t`. A spelling is made from
left to right: a numeral below a hundred adds to what is being counted (`OnesMake`),
a scale multiplies or closes it (`ScaleMakes`), so many of a scale, however they
are said (`CountedMakes`), and from these a number below a thousand
(`BelowThousandMakes`), a group of a larger scale (`GroupMakes`) and all of a number
(`SpellingIs`). What they rest on is that nothing is being counted when a group
begins, and that a total is zero or at least a hundred, which decides whether a
number has a scale in it (`SpellingRendered`). With `FractionRendered` for what
follows a point, every run is read as `ReadAs` asks (`RunIsRead`).

## 6. What is only model-checked

Liveness (`RequestsEnd`, `CallsReturn`, `CallersAreAnswered`, `CallsEnd`,
`RequestEnds`, `RunEnds`), which is out of the prover's reach. Every invariant and
every action property that a passing run checks is stated by a theorem.

## 7. Findings

Each is a run that TLC finds violated, and quotes what the repository says.

1. `trace_midnight`: a conversation that was forgotten (or outlived a restart) is
   looked for only in the folder of the day of its new turn, so after midnight it
   gets a second file, although "a conversation stays in the day folder it
   started in" (`trace.py:34`).
2. `numerals_mangled`: numbers said one after the other are added up, so the
   digits of a telephone number become their sum, although "the failure mode is
   a missed conversion, never mangled text" (`itn.py:10`).

Seen while modelling, without a run of their own; the models behave like the code
in each of them:

* an unreachable or silent worker is a 500 on the speech route: `client.py:82`
  leaves the stream's httpx errors to its caller, who does not handle them
  (`FailuresAreTold` asks for an error, not for which);
* the gateway's timeout covers the wait for the first line as a whole: a request
  that waited in the queue for most of `LITSERVE_TIMEOUT` leaves its worker little
  more than the margin for the first clause before the gateway gives up, and the
  caller gets the 500. `OverloadIsTold` is therefore about requests that no
  worker took;
* the ten seconds are not only for the way there and back. If LitServe notices a
  timeout late, say because it looks only when a worker is free, and later by the
  margin less a round trip, the gateway gives up first and the caller gets the 500
  after all: `client.py:24` says that it must not, and how long LitServe takes is
  not in this repository. `OverloadIsTold` states the bound (`Patience`);
* a scale does not count another one: `_parse_int` closes at every scale above a
  hundred (`itn.py:187-188`), so two thousand crores, "দুই হাজার কোটি", are read as two
  thousand and one crore and written 10002000. Such a count is therefore no
  `Spelling`: up to 999 of a scale are read as they are said, which is what
  `NumbersAreRead` is about;
* a turn is lost, with a warning in the log, when its conversation started in a
  folder that retention is removing at that moment;
* a conversation can get a second file in one day folder although the disk never
  fails: forgotten over midnight, it may be remembered in the folder of the day
  before; when that is pruned, a request still of the newer day finds the
  remembered file gone and makes another one, without looking into its own folder
  for the file that is there (`trace.py:205-214`). It takes five requests, more
  than the run has; the attempt to prove `FilesAreFound` found it, and `misreads`
  counts it like a file that cannot be read;
* the benchmark builds every payload before its semaphore, so all files are in
  memory however small `--concurrency` is, and as all of that happens before the
  event loop looks at a socket, the latencies of the first requests contain the
  encoding of the files after them;
* `--concurrency 0` makes every worker of the benchmark wait for ever
  (`BenchmarkAssumption` excludes it);
* a label without `transcription` is noticed after its request, and costs the run
  all of its results, as does a label of punctuation only where `jiwer` refuses
  an empty reference: predictions are saved last;
* two misses of one text in flight at once both store their take, so later hits
  need not replay one recording;
* a text with "..." in it leaves the clauses "." and "." to be spoken
  (`_find_boundary` cuts at a mark that is the first character);
* a failed write of the temporary file leaves it behind: its name is noted only
  after the write (`audio.py:53`), which `OnlyFailedWritesLeave` excepts;
* `TRANSCRIBE_BATCH_SIZE=0` passes the guard of the loop's stride but not of its
  slice (`zipformer/engine.py:167-168`) and answers 200 without transcripts; the
  model has both expressions, the run a batch size of two;
* the repository's README describes number rewriting as on by default, while
  `config.py` has `ITN_ENABLED` false.

## 8. What is not modelled, and why

* LitServe, httpx, FastAPI, sherpa-onnx, Parler, libsndfile, ffmpeg: external.
  Their outcomes are left open, their internals are not of this repository.
* Real time outside of `SpeechService` and `Benchmark`, where it is counted in
  ticks: everywhere else a timeout may come at any time.
* LitServe's second API, `/predict`, with a queue of its own: to the ASR routes
  its outcomes are those of `TraceStore`.
* WAV headers, base64, JSON, peak normalization, resampling: functions of their
  input without state.
* `main.py`, configuration, schemas, logging, layouts, voices: assembly and
  tables. What schemas refuse bounds the inputs of the models.
* `scripts/download_eval_data.py`: a straight line of I/O; WER and CER, which are
  `jiwer`'s.

## 9. Plan

Done first, because they hold the state that requests share: the cache, the speech
route and the traces; then the workers behind them.

Then what joins them: time and LitServe's queue (`SpeechService`), what a worker
promises (`TakeSource`), what the traces are (`TraceLog`), the live session and
the benchmark.

All of it is done. What could follow is what section 8 lists as not modelled.
