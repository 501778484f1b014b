------------------------------- MODULE Benchmark -------------------------------
(***************************************************************************)
(* scripts/benchmark.py: every labelled file is posted to an ASR endpoint, *)
(* at most --concurrency at a time, and a report is made of the answers.   *)
(*                                                                         *)
(* The workers are tasks of one event loop.  asyncio starts them all, in   *)
(* the order of a set, before it looks at a socket; each reads and encodes *)
(* its file before it asks the semaphore, which hands its permits on in    *)
(* the order they were asked for.                                          *)
(*                                                                         *)
(*   run      "starting", "running", or how it ended                       *)
(*   given    the inputs there are                                         *)
(*   archive  the files in data.tar                                        *)
(*   labels   what the transcription of a file is: "words", only "marks",  *)
(*            or "missing"                                                 *)
(*   stage    where the worker of a file stands                            *)
(*   permits  the value of the semaphore                                   *)
(*   waiters  the workers that wait for it                                 *)
(*   now      the clock                                                    *)
(*   start    when a request was sent                                      *)
(*   answer   what came back, with wall_clock_seconds; or None             *)
(*   done     the workers that are through, in that order                  *)
(*   records  what the report is of                                        *)
(***************************************************************************)
EXTENDS Integers, SequencesExt

CONSTANTS
  Count,        \* the files of ground_truth.json are numbered from 1
  Concurrency,
  MaxTime,      \* bound of the model: time stands still after
  None

ASSUME BenchmarkAssumption ==
  /\ {Count, Concurrency, MaxTime} \subseteq Nat \ {0}
  /\ None \notin Nat \cup [got : {"transcript", "error", "unreadable"}, wall : Int]

VARIABLES run, given, archive, labels, stage, permits, waiters, now, start,
          answer, done, records

inputs == <<given, archive, labels>>
vars == <<run, inputs, stage, permits, waiters, now, start, answer, done, records>>

Files == 1..Count
Outcomes == {"transcript", "error", "unreadable"}
Needed == {"ground_truth.json", "data.tar"}

Init ==
  /\ run = "starting"
  /\ given \in SUBSET Needed
  /\ archive \in SUBSET Files
  /\ labels \in [Files -> {"words", "marks", "missing"}]
  /\ stage = [f \in Files |-> "new"]
  /\ permits = Concurrency
  /\ waiters = <<>>
  /\ now = 0
  /\ start = [f \in Files |-> None]
  /\ answer = [f \in Files |-> None]
  /\ done = <<>>
  /\ records = <<>>

Load ==
  /\ run = "starting"
  /\ run' = IF given = Needed THEN "running" ELSE "refused"
  /\ UNCHANGED <<inputs, stage, permits, waiters, now, start, answer, done, records>>

-----------------------------------------------------------------------------
(***************************************************************************)
(* A worker                                                                *)
(***************************************************************************)
Skip(f) ==
  /\ run = "running" /\ stage[f] = "new" /\ f \notin archive
  /\ stage' = [stage EXCEPT ![f] = "through"]
  /\ done' = Append(done, f)
  /\ UNCHANGED <<run, inputs, permits, waiters, now, start, answer, records>>

CallOnBatchClock(f) ==  \* a bug to be caught: the time in the queue counts
  /\ stage' = [stage EXCEPT ![f] = "posted"]
  /\ start' = [start EXCEPT ![f] = 0]

\* call_endpoint begins, and starts its clock.
Call(f) ==
  /\ stage' = [stage EXCEPT ![f] = "posted"]
  /\ start' = [start EXCEPT ![f] = now]

\* The payload is built; a free permit is taken without a pause.
Prepare(f) ==
  /\ run = "running" /\ stage[f] = "new" /\ f \in archive
  /\ IF permits > 0
     THEN Call(f) /\ permits' = permits - 1 /\ UNCHANGED waiters
     ELSE /\ stage' = [stage EXCEPT ![f] = "waiting"]
          /\ waiters' = Append(waiters, f)
          /\ UNCHANGED <<permits, start>>
  /\ UNCHANGED <<run, inputs, now, answer, done, records>>

\* The loop resumes a worker that was given a permit.
Resume(f) ==
  /\ run = "running" /\ stage[f] = "waiting" /\ f \notin ToSet(waiters)
  /\ Call(f)
  /\ UNCHANGED <<run, inputs, permits, waiters, now, answer, done, records>>

\* A permit goes to the first that waits.
Release ==
  IF waiters = <<>>
  THEN permits' = permits + 1 /\ UNCHANGED waiters
  ELSE waiters' = Tail(waiters) /\ UNCHANGED permits

\* The worker of f is left with an answer, or with an exception that ends the run.
Leave(f, raises) ==
  /\ stage' = [stage EXCEPT ![f] = "through"]
  /\ IF raises
     THEN run' = "aborted" /\ UNCHANGED done
     ELSE done' = Append(done, f) /\ UNCHANGED run

AnswerOrRaise(f, got) ==  \* a bug to be caught: not every failure is caught
  /\ run = "running" /\ stage[f] = "posted"
  /\ \A g \in Files : stage[g] # "new"
  /\ answer' = [answer EXCEPT ![f] = [got |-> got, wall |-> now - start[f]]]
  /\ Release
  /\ Leave(f, got = "unreadable" \/ labels[f] = "missing")
  /\ UNCHANGED <<inputs, now, start, records>>

\* A bug to be caught: a failed call keeps its permit.
AnswerKeeping(f, got) ==
  /\ run = "running" /\ stage[f] = "posted"
  /\ \A g \in Files : stage[g] # "new"
  /\ answer' = [answer EXCEPT ![f] = [got |-> got, wall |-> now - start[f]]]
  /\ IF got = "transcript" THEN Release ELSE UNCHANGED <<permits, waiters>>
  /\ Leave(f, labels[f] = "missing")
  /\ UNCHANGED <<inputs, now, start, records>>

\* A transcript, an error status or no answer in time, or a body that is not of
\* the schema.  A label without a transcription is met only now.
Answer(f, got) ==
  /\ run = "running" /\ stage[f] = "posted"
  /\ \A g \in Files : stage[g] # "new"
  /\ answer' = [answer EXCEPT ![f] = [got |-> got, wall |-> now - start[f]]]
  /\ Release
  /\ Leave(f, labels[f] = "missing")
  /\ UNCHANGED <<inputs, now, start, records>>

Tick ==
  /\ run = "running" /\ now < MaxTime
  /\ now' = now + 1
  /\ UNCHANGED <<run, inputs, stage, permits, waiters, start, answer, done, records>>

-----------------------------------------------------------------------------
(***************************************************************************)
(* The report                                                              *)
(***************************************************************************)
\* gather of tqdm sorts what it took as it came; a worker is through once.
Gathered ==
  CHOOSE s \in [1..Len(done) -> ToSet(done)] :
    \A j, k \in 1..Len(done) : j < k => s[j] < s[k]

\* The results that are not None.
Record(f) == [file |-> f, ok |-> answer[f].got = "transcript", wall |-> answer[f].wall]
Records ==
  FlattenSeq([k \in 1..Len(done) |->
                IF answer[Gathered[k]] = None THEN <<>> ELSE <<Record(Gathered[k])>>])

\* jiwer of some versions raises on a reference of which nothing is left.
Report ==
  /\ run = "running" /\ Len(done) = Count
  /\ records' = Records
  /\ run' \in IF records' = <<>> THEN {"nothing"}
              ELSE IF \E i \in DOMAIN records' : labels[records'[i].file] = "marks"
              THEN {"reported", "aborted"} ELSE {"reported"}
  /\ UNCHANGED <<inputs, stage, permits, waiters, now, start, answer, done>>

\* The latencies of the calls that were answered, sorted.
OkLatencies ==
  LET ok == {i \in DOMAIN records : records[i].ok}
      n == Cardinality(ok)
      sorted == CHOOSE s \in [1..n -> ok] :
                  \A j, k \in 1..n :
                    j < k => s[j] # s[k] /\ records[s[j]].wall <= records[s[k]].wall
  IN  [k \in 1..n |-> records[sorted[k]].wall]

\* pct in percent; indices are from 1 here.
Percentile(data, pct) ==
  LET index == (Len(data) * pct) \div 100
  IN  data[(IF index < Len(data) THEN index ELSE Len(data) - 1) + 1]

Over == run \in {"refused", "nothing", "aborted", "reported"} /\ UNCHANGED vars

Next ==
  \/ Load
  \/ \E f \in Files :
       \/ Skip(f) \/ Prepare(f) \/ Resume(f)
       \/ \E got \in Outcomes : Answer(f, got)
  \/ Tick \/ Report \/ Over

Spec == Init /\ [][Next]_vars

\* The event loop runs what is ready, and httpx gives up an answer in time.
Progress ==
  \/ Load \/ Report
  \/ \E f \in Files :
       \/ Skip(f) \/ Prepare(f) \/ Resume(f)
       \/ \E got \in Outcomes : Answer(f, got)

FairSpec == Spec /\ WF_vars(Progress)

-----------------------------------------------------------------------------
(***************************************************************************)
(* "So one bad response doesn't abort the run": whatever the endpoint      *)
(* answered, each file of the archive is reported once, as what it was;    *)
(* only the labels can cost the run its report.                            *)
(***************************************************************************)
BadAnswersAreReported ==
  /\ run = "reported" =>
       /\ {records[i] : i \in DOMAIN records} = {Record(f) : f \in archive}
       /\ \A i, j \in DOMAIN records : i < j => records[i].file < records[j].file
  /\ run = "aborted" => \E f \in archive : labels[f] # "words"

(***************************************************************************)
(* The latencies are those of a service with at most --concurrency         *)
(* requests in flight: together they fit in that many times the duration   *)
(* of the batch.  And a percentile is one: as many of the requests as it   *)
(* says took no longer, and no more than that were faster.                 *)
(***************************************************************************)
LatenciesAreOfTheLoad ==
  run = "reported" =>
    /\ LET sum[i \in 0..Len(records)] == IF i = 0 THEN 0 ELSE sum[i - 1] + records[i].wall
       IN  sum[Len(records)] <= Concurrency * now
    /\ LET ok == {i \in DOMAIN records : records[i].ok}
       IN  ok # {} => \A pct \in {50, 95, 99} :
             LET value == Percentile(OkLatencies, pct)
             IN  /\ 100 * Cardinality({i \in ok : records[i].wall <= value})
                      >= pct * Cardinality(ok)
                 /\ 100 * Cardinality({i \in ok : records[i].wall < value})
                      <= pct * Cardinality(ok)

(***************************************************************************)
(* Every run ends: no failed call keeps the permit others wait for.        *)
(***************************************************************************)
RunEnds == <>(run \in {"refused", "nothing", "aborted", "reported"})
=============================================================================
