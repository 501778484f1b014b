--------------------------- MODULE BenchmarkProofs ---------------------------
(***************************************************************************)
(* What is proved of the benchmark, for any number of files, any           *)
(* concurrency, archive and labels, and whatever the endpoint answers.     *)
(***************************************************************************)
EXTENDS Benchmark, SequenceFacts

Answers == [got : Outcomes, wall : Int]

(***************************************************************************)
(* A worker that is through has left an answer if its file was there, and  *)
(* each is through once.                                                   *)
(***************************************************************************)
Bookkeeping ==
  /\ archive \subseteq Files
  /\ stage \in [Files -> {"new", "waiting", "posted", "through"}]
  /\ now \in Nat
  /\ start \in [Files -> Nat \cup {None}]
  /\ answer \in [Files -> Answers \cup {None}]
  /\ done \in Seq(Files)
  /\ \A f \in Files : stage[f] \in {"waiting", "posted"} => f \in archive
  /\ \A f \in Files : stage[f] = "posted" => start[f] # None
  /\ \A f \in Files : stage[f] = "through" /\ f \in archive => answer[f] # None
  /\ \A f \in Files : answer[f] # None => f \in archive
  /\ \A j \in 1..Len(done) : stage[done[j]] = "through"
  /\ \A j, k \in 1..Len(done) : j # k => done[j] # done[k]

BenchmarkInv == Bookkeeping /\ BadAnswersAreReported

LEMMA InitInv == Init => BenchmarkInv
<1> SUFFICES ASSUME Init PROVE BenchmarkInv
  OBVIOUS
<1>1. done = <<>> /\ done \in Seq(Files) /\ Len(done) = 0
  BY EmptySeq DEF Init
<1>2. Bookkeeping
  BY <1>1 DEF Init, Bookkeeping
<1>3. BadAnswersAreReported
  BY DEF Init, BadAnswersAreReported
<1> QED
  BY <1>2, <1>3 DEF BenchmarkInv

-----------------------------------------------------------------------------
(***************************************************************************)
(* The steps of the workers.                                               *)
(***************************************************************************)
\* One more worker is through, that was not.
LEMMA OneMoreThrough ==
  ASSUME Bookkeeping, NEW f \in Files, stage[f] # "through",
         stage' = [stage EXCEPT ![f] = "through"],
         done' = Append(done, f) \/ done' = done
  PROVE  /\ stage' \in [Files -> {"new", "waiting", "posted", "through"}]
         /\ done' \in Seq(Files)
         /\ \A j \in 1..Len(done') : stage'[done'[j]] = "through"
         /\ \A j, k \in 1..Len(done') : j # k => done'[j] # done'[k]
<1>1. /\ stage \in [Files -> {"new", "waiting", "posted", "through"}]
      /\ done \in Seq(Files) /\ Len(done) \in Nat
      /\ \A j \in 1..Len(done) : done[j] \in Files /\ stage[done[j]] = "through"
      /\ \A j, k \in 1..Len(done) : j # k => done[j] # done[k]
  BY LenProperties, ElementOfSeq DEF Bookkeeping
<1>2. stage' \in [Files -> {"new", "waiting", "posted", "through"}]
  BY <1>1
<1>3. \A g \in Files : stage[g] = "through" => stage'[g] = "through" /\ g # f
  BY <1>1
<1>4. stage'[f] = "through"
  BY <1>1
<1>5. CASE done' = done
  BY <1>1, <1>2, <1>3, <1>5
<1>6. CASE done' = Append(done, f)
  <2>1. /\ done' \in Seq(Files) /\ Len(done') = Len(done) + 1
        /\ done'[Len(done) + 1] = f
        /\ \A j \in 1..Len(done) : done'[j] = done[j]
    BY <1>1, <1>6, OneMore
  <2>2. \A j \in 1..Len(done') : j \in 1..Len(done) \/ j = Len(done) + 1
    BY <1>1, <2>1
  <2>3. ASSUME NEW j \in 1..Len(done') PROVE stage'[done'[j]] = "through"
    BY <1>1, <1>3, <1>4, <2>1, <2>2
  <2>4. ASSUME NEW j \in 1..Len(done'), NEW k \in 1..Len(done'), j # k
        PROVE  done'[j] # done'[k]
    <3>1. CASE j \in 1..Len(done) /\ k \in 1..Len(done)
      BY <1>1, <2>1, <2>4, <3>1
    <3>2. CASE j \in 1..Len(done) /\ k = Len(done) + 1
      BY <1>1, <1>3, <2>1, <3>2
    <3>3. CASE j = Len(done) + 1 /\ k \in 1..Len(done)
      BY <1>1, <1>3, <2>1, <3>3
    <3> QED
      BY <2>2, <2>4, <3>1, <3>2, <3>3
  <2> QED
    BY <1>2, <2>1, <2>3, <2>4
<1> QED
  BY <1>5, <1>6

\* A worker that posts its request.
LEMMA OnePosted ==
  ASSUME Bookkeeping, NEW f \in archive, stage[f] # "through", Call(f)
  PROVE  /\ stage' \in [Files -> {"new", "waiting", "posted", "through"}]
         /\ start' \in [Files -> Nat \cup {None}]
         /\ \A g \in Files : g # f => stage'[g] = stage[g] /\ start'[g] = start[g]
         /\ stage'[f] = "posted" /\ start'[f] # None /\ f \in Files
<1>1. /\ stage' = [stage EXCEPT ![f] = "posted"]
      /\ start' = [start EXCEPT ![f] = now]
  BY DEF Call
<1>2. /\ stage \in [Files -> {"new", "waiting", "posted", "through"}]
      /\ start \in [Files -> Nat \cup {None}] /\ now \in Nat /\ f \in Files
  BY DEF Bookkeeping
<1>3. now # None
  BY <1>2, BenchmarkAssumption
<1> QED
  BY <1>1, <1>2, <1>3

\* A request that is answered, or not.
LEMMA OneAnswered ==
  ASSUME Bookkeeping, NEW f \in Files, NEW got \in Outcomes, Answer(f, got)
  PROVE  Bookkeeping'
<1>1. /\ run = "running" /\ stage[f] = "posted"
      /\ answer' = [answer EXCEPT ![f] = [got |-> got, wall |-> now - start[f]]]
      /\ stage' = [stage EXCEPT ![f] = "through"]
      /\ done' = Append(done, f) \/ done' = done
      /\ UNCHANGED <<archive, now, start>>
  BY DEF Answer, Leave, inputs
<1>2. /\ stage' \in [Files -> {"new", "waiting", "posted", "through"}]
      /\ done' \in Seq(Files)
      /\ \A j \in 1..Len(done') : stage'[done'[j]] = "through"
      /\ \A j, k \in 1..Len(done') : j # k => done'[j] # done'[k]
  BY <1>1, OneMoreThrough
<1>3. /\ stage \in [Files -> {"new", "waiting", "posted", "through"}]
      /\ start[f] \in Nat /\ now \in Nat /\ f \in archive
      /\ answer \in [Files -> Answers \cup {None}]
  BY <1>1 DEF Bookkeeping
<1>4. PICK a \in Answers : answer' = [answer EXCEPT ![f] = a]
  <2>1. now - start[f] \in Int
    BY <1>3
  <2>2. [got |-> got, wall |-> now - start[f]] \in Answers
    BY <2>1 DEF Answers
  <2> QED
    BY <1>1, <2>2
<1>5. a # None
  BY BenchmarkAssumption DEF Answers, Outcomes
<1>6. /\ answer' \in [Files -> Answers \cup {None}]
      /\ answer'[f] # None
      /\ \A g \in Files : g # f => answer'[g] = answer[g] /\ stage'[g] = stage[g]
      /\ stage'[f] = "through"
  BY <1>1, <1>3, <1>4, <1>5
<1>7. \A g \in Files : stage'[g] = "through" /\ g \in archive' => answer'[g] # None
  BY <1>1, <1>6 DEF Bookkeeping
<1>8. \A g \in Files : answer'[g] # None => g \in archive'
  BY <1>1, <1>3, <1>6 DEF Bookkeeping
<1>9. \A g \in Files : stage'[g] \in {"waiting", "posted"} => g \in archive'
  BY <1>1, <1>6 DEF Bookkeeping
<1>10. \A g \in Files : stage'[g] = "posted" => start'[g] # None
  BY <1>1, <1>6 DEF Bookkeeping
<1>11. archive' \subseteq Files /\ now' \in Nat /\ start' \in [Files -> Nat \cup {None}]
  BY <1>1 DEF Bookkeeping
<1> QED
  BY <1>2, <1>6, <1>7, <1>8, <1>9, <1>10, <1>11 DEF Bookkeeping

LEMMA BookkeepingNext == Bookkeeping /\ [Next]_vars => Bookkeeping'
<1> SUFFICES ASSUME Bookkeeping, [Next]_vars PROVE Bookkeeping'
  OBVIOUS
<1>1. CASE UNCHANGED vars
  BY <1>1 DEF vars, inputs, Bookkeeping
<1>2. CASE Load
  <2>1. UNCHANGED <<archive, stage, now, start, answer, done>>
    BY <1>2 DEF Load, inputs
  <2> QED
    BY <2>1 DEF Bookkeeping
<1>3. ASSUME NEW f \in Files, Skip(f) PROVE Bookkeeping'
  <2>1. /\ stage[f] = "new" /\ f \notin archive
        /\ stage' = [stage EXCEPT ![f] = "through"]
        /\ done' = Append(done, f)
        /\ UNCHANGED <<run, archive, now, start, answer>>
    BY <1>3 DEF Skip, inputs
  <2>2. /\ stage' \in [Files -> {"new", "waiting", "posted", "through"}]
        /\ done' \in Seq(Files)
        /\ \A j \in 1..Len(done') : stage'[done'[j]] = "through"
        /\ \A j, k \in 1..Len(done') : j # k => done'[j] # done'[k]
    BY <2>1, OneMoreThrough
  <2>3. \A g \in Files : g # f => stage'[g] = stage[g]
    BY <2>1 DEF Bookkeeping
  <2>4. stage'[f] = "through"
    BY <2>1 DEF Bookkeeping
  <2> QED
    BY <2>1, <2>2, <2>3, <2>4 DEF Bookkeeping
<1>4. ASSUME NEW f \in Files, Prepare(f) PROVE Bookkeeping'
  <2>1. /\ stage[f] = "new" /\ f \in archive
        /\ UNCHANGED <<run, archive, now, answer, done>>
    BY <1>4 DEF Prepare, inputs
  <2>2. CASE Call(f)
    <3>1. /\ stage' \in [Files -> {"new", "waiting", "posted", "through"}]
          /\ start' \in [Files -> Nat \cup {None}]
          /\ \A g \in Files : g # f => stage'[g] = stage[g] /\ start'[g] = start[g]
          /\ stage'[f] = "posted" /\ start'[f] # None
      BY <2>1, <2>2, OnePosted
    <3>2. \A j \in 1..Len(done) : done[j] \in Files /\ done[j] # f
      BY <2>1, ElementOfSeq DEF Bookkeeping
    <3> QED
      BY <2>1, <3>1, <3>2 DEF Bookkeeping
  <2>3. CASE stage' = [stage EXCEPT ![f] = "waiting"] /\ UNCHANGED start
    <3>1. /\ stage' \in [Files -> {"new", "waiting", "posted", "through"}]
          /\ \A g \in Files : g # f => stage'[g] = stage[g]
          /\ stage'[f] = "waiting"
      BY <2>3 DEF Bookkeeping
    <3>2. \A j \in 1..Len(done) : done[j] \in Files /\ done[j] # f
      BY <2>1, ElementOfSeq DEF Bookkeeping
    <3> QED
      BY <2>1, <2>3, <3>1, <3>2 DEF Bookkeeping
  <2> QED
    BY <1>4, <2>2, <2>3 DEF Prepare
<1>5. ASSUME NEW f \in Files, Resume(f) PROVE Bookkeeping'
  <2>1. /\ stage[f] = "waiting" /\ Call(f)
        /\ UNCHANGED <<run, archive, now, answer, done>>
    BY <1>5 DEF Resume, inputs
  <2>2. f \in archive
    BY <2>1 DEF Bookkeeping
  <2>3. /\ stage' \in [Files -> {"new", "waiting", "posted", "through"}]
        /\ start' \in [Files -> Nat \cup {None}]
        /\ \A g \in Files : g # f => stage'[g] = stage[g] /\ start'[g] = start[g]
        /\ stage'[f] = "posted" /\ start'[f] # None
    BY <2>1, <2>2, OnePosted
  <2>4. \A j \in 1..Len(done) : done[j] \in Files /\ done[j] # f
    BY <2>1, ElementOfSeq DEF Bookkeeping
  <2> QED
    BY <2>1, <2>2, <2>3, <2>4 DEF Bookkeeping
<1>6. ASSUME NEW f \in Files, NEW got \in Outcomes, Answer(f, got) PROVE Bookkeeping'
  BY <1>6, OneAnswered
<1>7. CASE Tick
  <2>1. now' = now + 1 /\ UNCHANGED <<run, archive, stage, start, answer, done>>
    BY <1>7 DEF Tick, inputs
  <2> QED
    BY <2>1 DEF Bookkeeping
<1>8. CASE Report
  <2>1. run = "running" /\ UNCHANGED <<archive, stage, now, start, answer, done>>
    BY <1>8 DEF Report, inputs
  <2> QED
    BY <2>1 DEF Bookkeeping
<1> QED
  BY <1>1, <1>2, <1>3, <1>4, <1>5, <1>6, <1>7, <1>8 DEF Next, Over

-----------------------------------------------------------------------------
(***************************************************************************)
(* The report.  As many workers are through as there are files, and each   *)
(* once: so all are.                                                       *)
(***************************************************************************)
LEMMA OneToOne ==
  ASSUME NEW s \in [Files -> Files], \A j, k \in Files : j # k => s[j] # s[k]
  PROVE  \A f \in Files : \E k \in Files : s[k] = f
<1>1. IsFiniteSet(Files)
  BY FS_Interval, BenchmarkAssumption DEF Files
<1>2. s \in Injection(Files, Files)
  BY DEF Injection, IsInjective
<1>3. s \in Surjection(Files, Files)
  BY <1>1, <1>2, FS_Injection
<1> QED
  BY <1>3 DEF Surjection

LEMMA AllThrough ==
  ASSUME Bookkeeping, Len(done) = Count
  PROVE  ToSet(done) = Files /\ \A f \in Files : stage[f] = "through"
<1>1. /\ done \in [Files -> Files] /\ DOMAIN done = Files
      /\ \A j, k \in Files : j # k => done[j] # done[k]
      /\ \A j \in Files : stage[done[j]] = "through"
  BY LenProperties DEF Bookkeeping, Files
<1>2. \A f \in Files : \E k \in Files : done[k] = f
  BY <1>1, OneToOne
<1>3. ToSet(done) = {done[j] : j \in Files}
  BY <1>1 DEF ToSet
<1>4. ToSet(done) \subseteq Files /\ Files \subseteq ToSet(done)
  BY <1>1, <1>2, <1>3
<1>5. ASSUME NEW f \in Files PROVE stage[f] = "through"
  <2>1. PICK k \in Files : done[k] = f
    BY <1>2
  <2> QED
    BY <1>1, <2>1
<1> QED
  BY <1>4, <1>5

\* Sorted, they are the files in the order of ground_truth.json.
LEMMA GatheredIs ==
  ASSUME Bookkeeping, Len(done) = Count
  PROVE  /\ Gathered \in [Files -> Files]
         /\ \A j, k \in Files : j < k => Gathered[j] < Gathered[k]
         /\ \A f \in Files : \E k \in Files : Gathered[k] = f
<1>1. ToSet(done) = Files /\ 1..Len(done) = Files
  BY AllThrough DEF Files
<1> DEFINE id == [k \in Files |-> k]
<1>2. id \in [Files -> Files] /\ \A j, k \in Files : j < k => id[j] < id[k]
  OBVIOUS
<1>3. Gathered = CHOOSE s \in [Files -> Files] : \A j, k \in Files : j < k => s[j] < s[k]
  BY <1>1 DEF Gathered
<1> HIDE DEF id
<1>4. Gathered \in [Files -> Files] /\ \A j, k \in Files : j < k => Gathered[j] < Gathered[k]
  BY <1>2, <1>3
<1>5. \A j, k \in Files : j # k => Gathered[j] # Gathered[k]
  <2> SUFFICES ASSUME NEW j \in Files, NEW k \in Files, j # k
               PROVE  Gathered[j] # Gathered[k]
    OBVIOUS
  <2>1. j \in Nat /\ k \in Nat /\ Gathered[j] \in Nat /\ Gathered[k] \in Nat
    BY <1>4, BenchmarkAssumption DEF Files
  <2>2. j < k \/ k < j
    BY <2>1
  <2>3. Gathered[j] < Gathered[k] \/ Gathered[k] < Gathered[j]
    BY <1>4, <2>2
  <2> QED
    BY <2>1, <2>3
<1>6. \A f \in Files : \E k \in Files : Gathered[k] = f
  BY <1>4, <1>5, OneToOne
<1> QED
  BY <1>4, <1>6

LEMMA RecordsAre ==
  ASSUME Bookkeeping, Len(done) = Count
  PROVE  /\ Records \in Seq({Record(f) : f \in Files})
         /\ {Records[i] : i \in DOMAIN Records} = {Record(f) : f \in archive}
         /\ \A i, j \in DOMAIN Records : i < j => Records[i].file < Records[j].file
<1> DEFINE g == Gathered
           S == {Record(f) : f \in Files}
           u == [k \in 1..Len(done) |->
                   IF answer[g[k]] = None THEN <<>> ELSE <<Record(g[k])>>]
           r == Records
           n == Len(r)
<1>1. /\ g \in [Files -> Files]
      /\ \A j, k \in Files : j < k => g[j] < g[k]
      /\ \A f \in Files : \E k \in Files : g[k] = f
  BY GatheredIs
<1>2. 1..Len(done) = Files /\ Count \in Nat
  BY BenchmarkAssumption DEF Files
<1>3. r = FlattenSeq(u)
  BY DEF Records
<1>4. \A f \in Files : answer[f] # None <=> f \in archive
  BY AllThrough DEF Bookkeeping
<1> HIDE DEF g, S
<1>5. \A k \in Files : u[k] = IF g[k] \in archive THEN <<Record(g[k])>> ELSE <<>>
  BY <1>1, <1>2, <1>4
<1>6. \A k \in Files : Record(g[k]) \in S
  BY <1>1 DEF S
<1>7. u \in [1..Count -> Seq(S)]
  <2>1. \A e \in S : <<e>> \in Seq(S)
    OBVIOUS
  <2>2. <<>> \in Seq(S)
    BY EmptySeq
  <2>3. \A k \in Files : u[k] \in Seq(S)
    BY <1>5, <1>6, <2>1, <2>2
  <2> QED
    BY <1>2, <2>3 DEF Files
<1> HIDE DEF u
<1>8. u \in Seq(Seq(S)) /\ Len(u) = Count
  BY <1>2, <1>7, SequenceOf
<1>9. AtMostOnes(u, S)
  BY <1>5, <1>6, <1>8 DEF AtMostOnes, Files
<1>10. PICK at : Picks(at, u)
  BY <1>8, <1>9, FlattenPicks
<1> HIDE DEF r
<1>11. r \in Seq(S) /\ DOMAIN r = 1..n
  BY <1>3, <1>8, FlattenTyped, LenProperties
<1>12. /\ at \in [1..n -> Files]
       /\ \A j, k \in 1..n : j < k => at[j] < at[k]
       /\ \A k \in 1..n : u[at[k]] = <<r[k]>>
       /\ \A i \in Files : u[i] # <<>> => \E k \in 1..n : at[k] = i
  BY <1>3, <1>8, <1>10 DEF Picks, Files
<1>13. ASSUME NEW k \in 1..n
       PROVE  g[at[k]] \in archive /\ r[k] = Record(g[at[k]])
  <2>1. at[k] \in Files /\ u[at[k]] = <<r[k]>>
    BY <1>12
  <2>2. u[at[k]] # <<>>
    BY <2>1, OneIsSome
  <2>3. g[at[k]] \in archive /\ u[at[k]] = <<Record(g[at[k]])>>
    BY <1>5, <2>1, <2>2
  <2>4. \A x, y : <<x>> = <<y>> => x = y
    OBVIOUS
  <2> QED
    BY <2>1, <2>3, <2>4
<1>14. ASSUME NEW f \in archive PROVE \E k \in 1..n : r[k] = Record(f)
  <2>1. f \in Files
    BY DEF Bookkeeping
  <2>2. PICK i \in Files : g[i] = f
    BY <1>1, <2>1
  <2>3. u[i] # <<>>
    <3>1. u[i] = <<Record(g[i])>>
      BY <1>5, <2>2
    <3> QED
      BY <3>1, OneIsSome
  <2>4. PICK k \in 1..n : at[k] = i
    BY <1>12, <2>2, <2>3
  <2> QED
    BY <1>13, <2>2, <2>4
<1>15. {r[i] : i \in DOMAIN r} = {Record(f) : f \in archive}
  BY <1>11, <1>13, <1>14
<1>16. ASSUME NEW i \in 1..n, NEW j \in 1..n, i < j PROVE r[i].file < r[j].file
  <2>1. at[i] \in Files /\ at[j] \in Files /\ at[i] < at[j]
    BY <1>12, <1>16
  <2>2. g[at[i]] < g[at[j]]
    BY <1>1, <2>1
  <2>3. r[i].file = g[at[i]] /\ r[j].file = g[at[j]]
    <3>1. \A f : Record(f).file = f
      BY DEF Record
    <3> QED
      BY <1>13, <3>1
  <2> QED
    BY <2>2, <2>3
<1> QED
  BY <1>11, <1>15, <1>16 DEF r, S

LEMMA ReportReports ==
  ASSUME Bookkeeping, Report
  PROVE  BadAnswersAreReported'
<1>1. /\ Len(done) = Count /\ records' = Records
      /\ run' \in {"nothing", "reported", "aborted"}
      /\ run' = "aborted" => \E i \in DOMAIN Records : labels[Records[i].file] = "marks"
      /\ UNCHANGED <<answer, archive, labels>>
  BY DEF Report, inputs
<1>2. /\ {Records[i] : i \in DOMAIN Records} = {Record(f) : f \in archive}
      /\ \A i, j \in DOMAIN Records : i < j => Records[i].file < Records[j].file
  BY <1>1, RecordsAre
<1>3. {Record(f) : f \in archive} = {Record(f) : f \in archive}'
  BY <1>1 DEF Record
<1>4. ASSUME run' = "aborted" PROVE \E f \in archive : labels[f] # "words"
  <2>1. PICK i \in DOMAIN Records : labels[Records[i].file] = "marks"
    BY <1>1, <1>4
  <2>2. PICK f \in archive : Records[i] = Record(f)
    BY <1>2, <2>1
  <2>3. Records[i].file = f
    BY <2>2 DEF Record
  <2> QED
    BY <2>1, <2>3
<1>5. run' = "reported" =>
        /\ {records'[i] : i \in DOMAIN records'} = {Record(f) : f \in archive}'
        /\ \A i, j \in DOMAIN records' : i < j => records'[i].file < records'[j].file
  BY <1>1, <1>2, <1>3
<1> QED
  BY <1>1, <1>4, <1>5 DEF BadAnswersAreReported

LEMMA BenchmarkInvNext == BenchmarkInv /\ [Next]_vars => BenchmarkInv'
<1> SUFFICES ASSUME Bookkeeping, BadAnswersAreReported, [Next]_vars
             PROVE  BadAnswersAreReported'
  BY BookkeepingNext DEF BenchmarkInv
\* While the run goes on, nothing is promised.
<1>1. run' \notin {"reported", "aborted"} => BadAnswersAreReported'
  BY DEF BadAnswersAreReported
<1>2. CASE UNCHANGED vars
  BY <1>2 DEF vars, inputs, BadAnswersAreReported, Record
<1>3. CASE Load \/ Tick \/ \E f \in Files : Skip(f) \/ Prepare(f) \/ Resume(f)
  <2>1. run' \notin {"reported", "aborted"}
    BY <1>3 DEF Load, Tick, Skip, Prepare, Resume
  <2> QED
    BY <1>1, <2>1
<1>4. ASSUME NEW f \in Files, NEW got \in Outcomes, Answer(f, got) PROVE BadAnswersAreReported'
  <2>1. /\ run = "running" /\ stage[f] = "posted" /\ UNCHANGED <<archive, labels>>
        /\ run' = run \/ (run' = "aborted" /\ labels[f] = "missing")
    BY <1>4 DEF Answer, Leave, inputs
  <2>2. f \in archive
    BY <2>1 DEF Bookkeeping
  <2>3. run' # "reported"
    BY <2>1
  <2>4. run' = "aborted" => \E g \in archive' : labels'[g] # "words"
    BY <2>1, <2>2
  <2> QED
    BY <2>3, <2>4 DEF BadAnswersAreReported
<1>5. CASE Report
  BY <1>5, ReportReports
<1> QED
  BY <1>2, <1>3, <1>4, <1>5 DEF Next, Over

(***************************************************************************)
(* call_endpoint of scripts/benchmark.py: one bad answer does not abort    *)
(* the run, and each file of the archive is reported once, in order, as    *)
(* what was answered for it; only a label costs the run its report.        *)
(***************************************************************************)
THEOREM EveryAnswerIsReported == Spec => []BadAnswersAreReported
<1>1. BenchmarkInv => BadAnswersAreReported
  BY DEF BenchmarkInv
<1> QED
  BY <1>1, InitInv, BenchmarkInvNext, PTL DEF Spec

-----------------------------------------------------------------------------
(***************************************************************************)
(* The sum of the latencies, counted second by second.                     *)
(***************************************************************************)
\* The seconds of which the k first of the latencies of r are made.
Seconds(r, k) == {x \in (1..k) \X Nat : x[2] \in 1..r[x[1]].wall}

LEMMA SecondsOneMore ==
  ASSUME NEW r, NEW k \in Nat \ {0}, r[k].wall \in Nat, IsFiniteSet(Seconds(r, k - 1))
  PROVE  /\ IsFiniteSet(Seconds(r, k))
         /\ Cardinality(Seconds(r, k)) = Cardinality(Seconds(r, k - 1)) + r[k].wall
<1> DEFINE w == r[k].wall
           own == {k} \X (1..w)
           old == Seconds(r, k - 1)
<1>1. IsFiniteSet(own) /\ Cardinality(own) = w
  <2> HIDE DEF w
  <2>1. IsFiniteSet({k}) /\ Cardinality({k}) = 1
    BY FS_Singleton
  <2>2. w \in Nat
    BY DEF w
  <2>4. IsFiniteSet(1..w) /\ Cardinality(1..w) = w
    BY <2>2, CountUpTo
  <2>3. IsFiniteSet(own) /\ Cardinality(own) = Cardinality({k}) * Cardinality(1..w)
    BY <2>1, <2>4, FS_Product, Zenon
  <2>5. 1 * w = w
    BY <2>2
  <2> QED
    BY <2>1, <2>3, <2>4, <2>5
<1>2. Seconds(r, k) = old \cup own
  <2>1. \A x \in (1..k) \X Nat : x[1] = k \/ x[1] \in 1..(k - 1)
    OBVIOUS
  <2>2. \A x \in own : x[1] = k /\ x[2] \in 1..w /\ x \in (1..k) \X Nat
    OBVIOUS
  <2>3. \A x \in (1..k) \X Nat : x[1] = k /\ x[2] \in 1..w => x \in own
    OBVIOUS
  <2>4. \A x \in (1..(k - 1)) \X Nat : x \in (1..k) \X Nat
    OBVIOUS
  <2>5. \A x \in (1..k) \X Nat : x[1] \in 1..(k - 1) => x \in (1..(k - 1)) \X Nat
    OBVIOUS
  <2>6. Seconds(r, k) \subseteq old \cup own
    BY <2>1, <2>3, <2>5 DEF Seconds
  <2>7. old \subseteq Seconds(r, k)
    BY <2>4 DEF Seconds
  <2>8. own \subseteq Seconds(r, k)
    BY <2>2 DEF Seconds
  <2> QED
    BY <2>6, <2>7, <2>8
<1>3. old \cap own = {}
  <2>1. \A x \in old : x[1] \in 1..(k - 1)
    BY DEF Seconds
  <2>2. \A x \in own : x[1] = k
    OBVIOUS
  <2> QED
    BY <2>1, <2>2
<1> HIDE DEF own, old
<1>4. Cardinality(old \cap own) = 0
  BY <1>3, FS_EmptySet
<1>5. /\ IsFiniteSet(old \cup own)
      /\ Cardinality(old \cup own) = Cardinality(old) + Cardinality(own) - Cardinality(old \cap own)
  BY <1>1, FS_Union DEF old
<1>6. Cardinality(old) \in Nat
  BY FS_CardinalityType DEF old
<1>7. Cardinality(Seconds(r, k)) = Cardinality(old) + w
  BY <1>1, <1>2, <1>4, <1>5, <1>6
<1> QED
  BY <1>2, <1>5, <1>7 DEF old

LEMMA SecondsCount ==
  ASSUME NEW r, NEW n \in Nat, \A i \in 1..n : r[i].wall \in Nat
  PROVE  \A k \in 0..n : IsFiniteSet(Seconds(r, k)) /\ Cardinality(Seconds(r, k)) \in Nat
<1> DEFINE T == {k \in 0..n : ~IsFiniteSet(Seconds(r, k))}
<1>1. T = {}
  <2> SUFFICES ASSUME T # {} PROVE FALSE
    OBVIOUS
  <2>1. T \in SUBSET Nat
    OBVIOUS
  <2>2. PICK k \in T : \A j \in T : k <= j
    <3> HIDE DEF T
    <3> QED BY <2>1, Least
  <2>3. k \in 0..n /\ ~IsFiniteSet(Seconds(r, k))
    OBVIOUS
  <2>4. CASE k = 0
    <3>1. Seconds(r, 0) = {}
      BY DEF Seconds
    <3> QED
      BY <2>3, <2>4, <3>1, FS_EmptySet
  <2>5. CASE k # 0
    <3>1. k \in Nat \ {0} /\ k \in 1..n /\ k - 1 \in 0..n /\ ~(k <= k - 1)
      BY <2>3, <2>5
    <3>2. IsFiniteSet(Seconds(r, k - 1))
      BY <2>2, <3>1
    <3> QED
      BY <2>3, <3>1, <3>2, SecondsOneMore
  <2> QED
    BY <2>4, <2>5
<1> QED
  BY <1>1, FS_CardinalityType

LEMMA SumIsSeconds ==
  ASSUME NEW r, Len(r) \in Nat, \A i \in 1..Len(r) : r[i].wall \in Nat
  PROVE  LET sum[i \in 0..Len(r)] == IF i = 0 THEN 0 ELSE sum[i - 1] + r[i].wall
         IN  sum[Len(r)] = Cardinality(Seconds(r, Len(r)))
<1> DEFINE n == Len(r)
           g == [i \in 0..n |-> Cardinality(Seconds(r, i))]
           sum == CHOOSE sum : sum = [i \in 0..n |-> IF i = 0 THEN 0 ELSE sum[i - 1] + r[i].wall]
<1>1. \A i \in 0..n : IsFiniteSet(Seconds(r, i)) /\ Cardinality(Seconds(r, i)) \in Nat
  BY SecondsCount
<1>2. Cardinality(Seconds(r, 0)) = 0
  <2>1. Seconds(r, 0) = {}
    BY DEF Seconds
  <2> QED
    BY <2>1, FS_EmptySet
<1>3. ASSUME NEW i \in 1..n
      PROVE  Cardinality(Seconds(r, i)) = Cardinality(Seconds(r, i - 1)) + r[i].wall
  <2>1. i \in Nat \ {0} /\ i - 1 \in 0..n
    OBVIOUS
  <2> QED
    BY <1>1, <2>1, SecondsOneMore
<1>4. g = [i \in 0..n |-> IF i = 0 THEN 0 ELSE g[i - 1] + r[i].wall]
  <2>1. ASSUME NEW i \in 0..n PROVE g[i] = IF i = 0 THEN 0 ELSE g[i - 1] + r[i].wall
    <3>1. CASE i = 0
      BY <1>2, <3>1
    <3>2. CASE i # 0
      <4>1. i \in 1..n /\ i - 1 \in 0..n
        BY <3>2
      <4>2. g[i] = Cardinality(Seconds(r, i)) /\ g[i - 1] = Cardinality(Seconds(r, i - 1))
        BY <4>1
      <4> QED
        BY <1>3, <3>2, <4>1, <4>2
    <3> QED
      BY <3>1, <3>2
  <2> QED
    BY <2>1
<1> HIDE DEF g
<1>5. sum = [i \in 0..n |-> IF i = 0 THEN 0 ELSE sum[i - 1] + r[i].wall]
  BY <1>4
<1> HIDE DEF sum
<1> DEFINE T == {i \in 0..n : sum[i] # g[i]}
<1>6. T = {}
  <2> SUFFICES ASSUME T # {} PROVE FALSE
    OBVIOUS
  <2>1. T \in SUBSET Nat
    OBVIOUS
  <2>2. PICK i \in T : \A j \in T : i <= j
    <3> HIDE DEF T
    <3> QED BY <2>1, Least
  <2>3. i \in 0..n /\ sum[i] # g[i]
    OBVIOUS
  <2>4. i # 0
    BY <1>4, <1>5, <2>3
  <2>5. i - 1 \in 0..n /\ ~(i <= i - 1)
    BY <2>3, <2>4
  <2>6. sum[i - 1] = g[i - 1]
    BY <2>2, <2>5
  <2>7. sum[i] = sum[i - 1] + r[i].wall
    BY <1>5, <2>3, <2>4
  <2>8. g[i] = g[i - 1] + r[i].wall
    BY <1>4, <2>3, <2>4
  <2> QED
    BY <2>3, <2>6, <2>7, <2>8
<1>7. sum[n] = Cardinality(Seconds(r, n))
  <2>1. n \in 0..n
    OBVIOUS
  <2>2. sum[n] = g[n]
    BY <1>6, <2>1
  <2> QED
    BY <2>1, <2>2 DEF g
<1> QED
  BY <1>7 DEF sum

-----------------------------------------------------------------------------
(***************************************************************************)
(* The load.  A permit is free or with a worker that has a request in      *)
(* flight, or is about to: so in no second are more in flight than there   *)
(* are permits.                                                            *)
(***************************************************************************)
Granted(f) == stage[f] = "waiting" /\ f \notin ToSet(waiters)
Holders == {f \in Files : stage[f] = "posted" \/ Granted(f)}

Queue ==
  /\ permits \in Nat /\ waiters \in Seq(Files) /\ NoRepeats(waiters)
  /\ \A f \in ToSet(waiters) : stage[f] = "waiting"
  /\ permits + Cardinality(Holders) = Concurrency

\* The seconds of the batch that a request was in flight.
Flight(f, t) ==
  /\ start[f] # None /\ start[f] < t
  /\ answer[f] # None => t <= start[f] + answer[f].wall
InFlight == {x \in Files \X (1..now) : Flight(x[1], x[2])}

Clocks ==
  \A f \in Files :
    /\ start[f] # None => start[f] <= now /\ stage[f] \in {"posted", "through"}
    /\ start[f] # None /\ stage[f] = "through" => answer[f] # None
    /\ answer[f] # None => /\ stage[f] = "through" /\ start[f] # None
                           /\ answer[f].wall \in Nat
                           /\ start[f] + answer[f].wall <= now

LoadInv == Queue /\ Clocks /\ Cardinality(InFlight) <= Concurrency * now

LEMMA FilesFinite == IsFiniteSet(Files) /\ \A S \in SUBSET Files : IsFiniteSet(S) /\ Cardinality(S) \in Nat
<1>1. IsFiniteSet(Files)
  BY CountUpTo, BenchmarkAssumption DEF Files
<1> QED
  BY <1>1, FS_Subset, FS_CardinalityType

LEMMA InFlightFinite ==
  ASSUME now \in Nat
  PROVE  IsFiniteSet(InFlight) /\ Cardinality(InFlight) \in Nat
<1>1. IsFiniteSet(Files \X (1..now))
  BY FilesFinite, CountUpTo, FS_Product
<1>2. InFlight \in SUBSET (Files \X (1..now))
  BY DEF InFlight
<1> HIDE DEF InFlight
<1> QED
  BY <1>1, <1>2, FS_Subset, FS_CardinalityType

LEMMA LoadInit == Init => LoadInv
<1> SUFFICES ASSUME Init PROVE LoadInv
  OBVIOUS
<1>1. Holders = {}
  BY DEF Init, Holders, Granted
<1>2. Queue
  <2>1. waiters \in Seq(Files) /\ NoRepeats(waiters) /\ ToSet(waiters) = {}
    BY EmptySeq DEF Init, NoRepeats, ToSet
  <2>2. Concurrency \in Nat /\ Cardinality(Holders) = 0
    BY <1>1, FS_EmptySet, BenchmarkAssumption
  <2> QED
    BY <2>1, <2>2 DEF Init, Queue
<1>3. Clocks
  BY DEF Init, Clocks
<1>4. Cardinality(InFlight) <= Concurrency * now
  <2>1. InFlight = {}
    BY DEF Init, InFlight
  <2>2. Cardinality(InFlight) = 0 /\ Concurrency * now = 0
    BY <2>1, FS_EmptySet, BenchmarkAssumption DEF Init
  <2> QED
    BY <2>2
<1> QED
  BY <1>2, <1>3, <1>4 DEF LoadInv

\* A worker that asks for a permit, and is given one or waits.
LEMMA AskPermit ==
  ASSUME Bookkeeping, Queue, NEW f \in Files, Prepare(f)
  PROVE  Queue'
<1>1. /\ stage[f] = "new" /\ stage \in [Files -> {"new", "waiting", "posted", "through"}]
      /\ permits \in Nat /\ waiters \in Seq(Files) /\ NoRepeats(waiters)
      /\ \A g \in ToSet(waiters) : stage[g] = "waiting"
      /\ permits + Cardinality(Holders) = Concurrency
  BY DEF Prepare, Bookkeeping, Queue
<1>2. f \notin ToSet(waiters) /\ f \notin Holders
  BY <1>1 DEF Holders, Granted
<1>3. IsFiniteSet(Holders) /\ Cardinality(Holders) \in Nat
  BY FilesFinite DEF Holders
<1>4. \A g \in Files : g # f => stage'[g] = stage[g]
  BY <1>1 DEF Prepare, Call
<1>5. CASE permits > 0
  <2>1. stage'[f] = "posted" /\ permits' = permits - 1 /\ waiters' = waiters
    BY <1>1, <1>5 DEF Prepare, Call
  <2>2. Holders' = Holders \cup {f}
    BY <1>2, <1>4, <2>1 DEF Holders, Granted
  <2>3. Cardinality(Holders') = Cardinality(Holders) + 1
    BY <1>2, <1>3, <2>2, FS_AddElement
  <2>4. permits' \in Nat /\ permits' + Cardinality(Holders') = Concurrency
    BY <1>1, <1>3, <1>5, <2>1, <2>3
  <2>5. \A g \in ToSet(waiters) : g \in Files /\ g # f
    BY <1>1, <1>2, ElementOfSeq DEF ToSet
  <2> QED
    BY <1>1, <1>4, <2>1, <2>4, <2>5 DEF Queue, NoRepeats
<1>6. CASE ~(permits > 0)
  <2>1. stage'[f] = "waiting" /\ permits' = permits /\ waiters' = Append(waiters, f)
    BY <1>1, <1>6 DEF Prepare
  <2>2. /\ waiters' \in Seq(Files) /\ NoRepeats(waiters')
        /\ ToSet(waiters') = ToSet(waiters) \cup {f}
    BY <1>1, <1>2, <2>1, AppendDistinct
  <2>3. Holders' = Holders
    BY <1>2, <1>4, <2>1, <2>2 DEF Holders, Granted
  <2>4. \A g \in ToSet(waiters) : g \in Files /\ g # f
    BY <1>1, <1>2, ElementOfSeq DEF ToSet
  <2>5. \A g \in ToSet(waiters') : stage'[g] = "waiting"
    BY <1>1, <1>4, <2>1, <2>2, <2>4
  <2> QED
    BY <1>1, <2>1, <2>2, <2>3, <2>5 DEF Queue
<1> QED
  BY <1>5, <1>6

\* A worker that was given a permit goes on with it.
LEMMA UsePermit ==
  ASSUME Bookkeeping, Queue, NEW f \in Files, Resume(f)
  PROVE  Queue'
<1>1. /\ stage[f] = "waiting" /\ f \notin ToSet(waiters)
      /\ stage' = [stage EXCEPT ![f] = "posted"]
      /\ UNCHANGED <<permits, waiters>>
      /\ stage \in [Files -> {"new", "waiting", "posted", "through"}]
      /\ waiters \in Seq(Files)
  BY DEF Resume, Call, Bookkeeping, Queue
<1>2. stage'[f] = "posted" /\ \A g \in Files : g # f => stage'[g] = stage[g]
  BY <1>1
<1>3. Holders' = Holders
  BY <1>1, <1>2 DEF Holders, Granted
<1>4. \A g \in ToSet(waiters) : g \in Files /\ g # f
  BY <1>1, ElementOfSeq DEF ToSet
<1>5. \A g \in ToSet(waiters') : stage'[g] = "waiting"
  BY <1>1, <1>2, <1>4 DEF Queue
<1> QED
  BY <1>1, <1>3, <1>5 DEF Queue, NoRepeats

\* The permit of an answered request is free, or with the first that waited.
LEMMA HandPermitOn ==
  ASSUME Bookkeeping, Queue, NEW f \in Files, NEW got \in Outcomes, Answer(f, got)
  PROVE  Queue'
<1>1. /\ stage[f] = "posted" /\ Release
      /\ stage' = [stage EXCEPT ![f] = "through"]
      /\ stage \in [Files -> {"new", "waiting", "posted", "through"}]
      /\ permits \in Nat /\ waiters \in Seq(Files) /\ NoRepeats(waiters)
      /\ \A g \in ToSet(waiters) : stage[g] = "waiting"
      /\ permits + Cardinality(Holders) = Concurrency
  BY DEF Answer, Leave, Bookkeeping, Queue
<1>2. stage'[f] = "through" /\ \A g \in Files : g # f => stage'[g] = stage[g]
  BY <1>1
<1>3. f \in Holders /\ IsFiniteSet(Holders) /\ Cardinality(Holders) \in Nat
  BY <1>1, FilesFinite DEF Holders
<1>4. \A g \in ToSet(waiters) : g \in Files /\ g # f /\ stage'[g] = "waiting"
  BY <1>1, <1>2, ElementOfSeq DEF ToSet
<1>5. /\ IsFiniteSet(Holders \ {f})
      /\ Cardinality(Holders \ {f}) = Cardinality(Holders) - 1
  BY <1>3, FS_RemoveElement
<1>6. CASE waiters = <<>>
  <2>1. permits' = permits + 1 /\ waiters' = waiters
    BY <1>1, <1>6 DEF Release
  <2>2. Holders' = Holders \ {f}
    BY <1>1, <1>2, <2>1 DEF Holders, Granted
  <2>3. permits' \in Nat /\ permits' + Cardinality(Holders') = Concurrency
    BY <1>1, <1>3, <1>5, <2>1, <2>2
  <2> QED
    BY <1>1, <1>4, <2>1, <2>3 DEF Queue, NoRepeats
<1>7. CASE waiters # <<>>
  <2> DEFINE h == Head(waiters)
  <2>1. permits' = permits /\ waiters' = Tail(waiters)
    BY <1>1, <1>7 DEF Release
  <2>2. /\ waiters' \in Seq(Files) /\ NoRepeats(waiters')
        /\ ToSet(waiters') = ToSet(waiters) \ {h}
    BY <1>1, <1>7, <2>1, TailDistinct
  <2>3. h \in ToSet(waiters)
    BY <1>1, <1>7, HeadTailProperties DEF ToSet
  <2> HIDE DEF h
  <2>4. h \in Files /\ h # f /\ stage'[h] = "waiting" /\ h \notin ToSet(waiters') /\ h \notin Holders
    BY <1>1, <1>4, <2>2, <2>3 DEF Holders, Granted
  <2>5. Holders' = (Holders \ {f}) \cup {h}
    <3>1. ASSUME NEW g \in Files, g # f, g # h PROVE g \in Holders' <=> g \in Holders
      BY <1>2, <2>2, <3>1 DEF Holders, Granted
    <3>2. f \notin Holders' /\ h \in Holders'
      BY <1>2, <2>4 DEF Holders, Granted
    <3>3. Holders \subseteq Files /\ Holders' \subseteq Files
      BY DEF Holders
    <3> QED
      BY <2>4, <3>1, <3>2, <3>3
  <2>6. Cardinality(Holders') = Cardinality(Holders) - 1 + 1
    BY <1>5, <2>4, <2>5, FS_AddElement
  <2>7. permits' + Cardinality(Holders') = Concurrency
    BY <1>1, <1>3, <2>1, <2>6
  <2> QED
    BY <1>1, <1>4, <2>1, <2>2, <2>7 DEF Queue
<1> QED
  BY <1>6, <1>7

\* A request that begins now has taken no time yet.
LEMMA CallTakesNoTime ==
  ASSUME Bookkeeping, Clocks, NEW f \in Files, stage[f] \in {"new", "waiting"}, Call(f),
         UNCHANGED <<now, answer>>
  PROVE  Clocks' /\ InFlight' = InFlight
<1>1. /\ now \in Nat /\ start \in [Files -> Nat \cup {None}]
      /\ stage \in [Files -> {"new", "waiting", "posted", "through"}]
      /\ stage' = [stage EXCEPT ![f] = "posted"] /\ start' = [start EXCEPT ![f] = now]
      /\ now' = now /\ answer' = answer
  BY DEF Bookkeeping, Call
<1>2. start[f] = None /\ answer[f] = None
  BY DEF Clocks
<1>3. /\ start'[f] = now /\ stage'[f] = "posted"
      /\ \A g \in Files : g # f => start'[g] = start[g] /\ stage'[g] = stage[g]
  BY <1>1
<1>4. Clocks'
  <2> SUFFICES ASSUME NEW g \in Files
               PROVE /\ start'[g] # None => start'[g] <= now' /\ stage'[g] \in {"posted", "through"}
                     /\ start'[g] # None /\ stage'[g] = "through" => answer'[g] # None
                     /\ answer'[g] # None => /\ stage'[g] = "through" /\ start'[g] # None
                                             /\ answer'[g].wall \in Nat
                                             /\ start'[g] + answer'[g].wall <= now'
    BY DEF Clocks
  <2>1. CASE g = f
    BY <1>1, <1>2, <1>3, <2>1
  <2>2. CASE g # f
    BY <1>1, <1>3, <2>2 DEF Clocks
  <2> QED
    BY <2>1, <2>2
<1>5. ASSUME NEW g \in Files, NEW t \in 1..now PROVE Flight(g, t)' <=> Flight(g, t)
  <2>1. CASE g = f
    <3>1. ~Flight(g, t)
      BY <1>2, <2>1 DEF Flight
    <3>2. ~(start'[g] < t)
      BY <1>1, <1>3, <2>1
    <3> QED
      BY <3>1, <3>2 DEF Flight
  <2>2. CASE g # f
    BY <1>1, <1>3, <2>2 DEF Flight
  <2> QED
    BY <2>1, <2>2
<1>6. InFlight' = InFlight
  <2>1. \A x \in Files \X (1..now) : Flight(x[1], x[2])' <=> Flight(x[1], x[2])
    BY <1>5
  <2> QED
    BY <1>1, <2>1 DEF InFlight
<1> QED
  BY <1>4, <1>6

\* An answer ends a flight where the clock stands.
LEMMA AnswerEndsFlight ==
  ASSUME Bookkeeping, Clocks, NEW f \in Files, NEW got \in Outcomes, Answer(f, got)
  PROVE  Clocks' /\ InFlight' = InFlight
<1> DEFINE wall == now - start[f]
<1>1. /\ now \in Nat /\ start \in [Files -> Nat \cup {None}]
      /\ answer \in [Files -> Answers \cup {None}]
      /\ stage \in [Files -> {"new", "waiting", "posted", "through"}]
      /\ stage[f] = "posted" /\ start[f] \in Nat
      /\ stage' = [stage EXCEPT ![f] = "through"]
      /\ answer' = [answer EXCEPT ![f] = [got |-> got, wall |-> wall]]
      /\ now' = now /\ start' = start
  BY DEF Bookkeeping, Answer, Leave
<1>2. answer[f] = None /\ start[f] # None /\ start[f] <= now
  BY <1>1 DEF Clocks, Bookkeeping
<1>3. wall \in Nat /\ start[f] + wall = now
  BY <1>1, <1>2
<1>4. answer'[f] # None
  <2>1. [got |-> got, wall |-> wall] \in [got : {"transcript", "error", "unreadable"}, wall : Int]
    BY <1>3 DEF Outcomes
  <2>2. [got |-> got, wall |-> wall] # None
    BY <2>1, BenchmarkAssumption
  <2> QED
    BY <1>1, <2>2
<1> HIDE DEF wall
<1>5. /\ answer'[f].wall = wall /\ stage'[f] = "through"
      /\ \A g \in Files : g # f => answer'[g] = answer[g] /\ stage'[g] = stage[g]
  BY <1>1
<1>6. Clocks'
  <2> SUFFICES ASSUME NEW g \in Files
               PROVE /\ start'[g] # None => start'[g] <= now' /\ stage'[g] \in {"posted", "through"}
                     /\ start'[g] # None /\ stage'[g] = "through" => answer'[g] # None
                     /\ answer'[g] # None => /\ stage'[g] = "through" /\ start'[g] # None
                                             /\ answer'[g].wall \in Nat
                                             /\ start'[g] + answer'[g].wall <= now'
    BY DEF Clocks
  <2>1. CASE g = f
    BY <1>1, <1>2, <1>3, <1>4, <1>5, <2>1
  <2>2. CASE g # f
    BY <1>1, <1>5, <2>2 DEF Clocks
  <2> QED
    BY <2>1, <2>2
<1>7. ASSUME NEW g \in Files, NEW t \in 1..now PROVE Flight(g, t)' <=> Flight(g, t)
  <2>1. CASE g = f
    <3>1. t <= start'[g] + answer'[g].wall
      BY <1>1, <1>3, <1>5, <2>1
    <3> QED
      BY <1>1, <1>2, <2>1, <3>1 DEF Flight
  <2>2. CASE g # f
    BY <1>1, <1>5, <2>2 DEF Flight
  <2> QED
    BY <2>1, <2>2
<1>8. InFlight' = InFlight
  <2>1. \A x \in Files \X (1..now) : Flight(x[1], x[2])' <=> Flight(x[1], x[2])
    BY <1>7
  <2> QED
    BY <1>1, <2>1 DEF InFlight
<1> QED
  BY <1>6, <1>8

\* In a second that passes no more requests are in flight than there are permits.
LEMMA OneSecondMore ==
  ASSUME Bookkeeping, LoadInv, Tick
  PROVE  LoadInv'
<1> DEFINE posted == {f \in Files : stage[f] = "posted"}
           second == posted \X {now + 1}
<1>1. /\ now \in Nat /\ start \in [Files -> Nat \cup {None}]
      /\ now' = now + 1
      /\ UNCHANGED <<stage, permits, waiters, start, answer>>
  BY DEF Bookkeeping, Tick
<1>2. Queue'
  BY <1>1 DEF LoadInv, Queue, Holders, Granted
<1>3. Clocks'
  <2> SUFFICES ASSUME NEW g \in Files
               PROVE /\ start[g] # None => start[g] <= now' /\ stage[g] \in {"posted", "through"}
                     /\ start[g] # None /\ stage[g] = "through" => answer[g] # None
                     /\ answer[g] # None => /\ stage[g] = "through" /\ start[g] # None
                                             /\ answer[g].wall \in Nat
                                             /\ start[g] + answer[g].wall <= now'
    BY <1>1 DEF Clocks
  <2>1. start[g] # None => start[g] \in Nat
    BY <1>1
  <2> QED
    BY <1>1, <2>1 DEF LoadInv, Clocks
<1>4. Cardinality(posted) <= Concurrency /\ IsFiniteSet(posted) /\ Cardinality(posted) \in Nat
  <2>1. posted \in SUBSET Holders /\ posted \in SUBSET Files /\ Holders \in SUBSET Files
    BY DEF Holders
  <2> HIDE DEF posted
  <2>2. Cardinality(posted) <= Cardinality(Holders)
    BY <2>1, FilesFinite, FS_Subset
  <2>3. /\ IsFiniteSet(posted) /\ Cardinality(posted) \in Nat
        /\ Cardinality(Holders) \in Nat
    BY <2>1, FilesFinite
  <2>4. permits \in Nat /\ permits + Cardinality(Holders) = Concurrency
    BY DEF LoadInv, Queue
  <2> QED
    BY <2>2, <2>3, <2>4
<1>5. IsFiniteSet(second) /\ Cardinality(second) = Cardinality(posted)
  <2> HIDE DEF posted
  <2>1. IsFiniteSet({now + 1}) /\ Cardinality({now + 1}) = 1
    BY FS_Singleton
  <2>2. IsFiniteSet(second) /\ Cardinality(second) = Cardinality(posted) * Cardinality({now + 1})
    BY <1>4, <2>1, FS_Product, Zenon
  <2>3. Cardinality(posted) * 1 = Cardinality(posted)
    BY <1>4
  <2> QED
    BY <2>1, <2>2, <2>3
<1>6. InFlight' \subseteq InFlight \cup second
  <2> SUFFICES ASSUME NEW f \in Files, NEW t \in 1..(now + 1), Flight(f, t)
               PROVE  <<f, t>> \in InFlight \cup second
    BY <1>1 DEF InFlight, Flight
  <2>1. CASE t \in 1..now
    BY <2>1 DEF InFlight
  <2>2. CASE t = now + 1
    <3>1. start[f] \in Nat /\ start[f] # None
      BY <1>1 DEF Flight
    <3>2. answer[f] = None
      <4> SUFFICES ASSUME answer[f] # None PROVE FALSE
        OBVIOUS
      <4>1. start[f] + answer[f].wall <= now /\ t <= start[f] + answer[f].wall /\ answer[f].wall \in Nat
        BY DEF Flight, LoadInv, Clocks
      <4> QED
        BY <1>1, <2>2, <3>1, <4>1
    <3>3. stage[f] = "posted"
      BY <3>1, <3>2 DEF LoadInv, Clocks
    <3> QED
      BY <2>2, <3>3
  <2> QED
    BY <1>1, <2>1, <2>2
<1>7. IsFiniteSet(InFlight) /\ Cardinality(InFlight) \in Nat
  BY <1>1, InFlightFinite
<1> HIDE DEF second, posted
<1>8. Cardinality(InFlight \cap second) \in Nat
  BY <1>7, FS_Intersection, FS_CardinalityType
<1>9. /\ IsFiniteSet(InFlight \cup second)
      /\ Cardinality(InFlight \cup second)
           = Cardinality(InFlight) + Cardinality(second) - Cardinality(InFlight \cap second)
  BY <1>5, <1>7, FS_Union
<1>10. Cardinality(InFlight') <= Cardinality(InFlight \cup second)
  BY <1>6, <1>9, FS_Subset
<1>11. Cardinality(InFlight') \in Nat
  BY <1>6, <1>9, FS_Subset, FS_CardinalityType
<1>12. Cardinality(InFlight') <= Concurrency * now'
  <2>1. Cardinality(InFlight) <= Concurrency * now /\ Concurrency \in Nat
    BY BenchmarkAssumption DEF LoadInv
  <2>2. Concurrency * (now + 1) = Concurrency * now + Concurrency /\ Concurrency * now \in Nat
    BY <1>1, <2>1
  <2> QED
    BY <1>1, <1>4, <1>5, <1>7, <1>8, <1>9, <1>10, <1>11, <2>1, <2>2
<1> QED
  BY <1>2, <1>3, <1>12 DEF LoadInv

LEMMA LoadNext == Bookkeeping /\ LoadInv /\ [Next]_vars => LoadInv'
<1> SUFFICES ASSUME Bookkeeping, LoadInv, [Next]_vars PROVE LoadInv'
  OBVIOUS
<1>1. ASSUME UNCHANGED <<stage, permits, waiters, now, start, answer>> PROVE LoadInv'
  BY <1>1 DEF LoadInv, Queue, Holders, Granted, Clocks, InFlight, Flight
<1>2. ASSUME Queue', Clocks', InFlight' = InFlight, now' = now PROVE LoadInv'
  BY <1>2 DEF LoadInv
<1>3. CASE UNCHANGED vars \/ Load \/ Report \/ Over
  <2>1. UNCHANGED <<stage, permits, waiters, now, start, answer>>
    BY <1>3 DEF vars, Load, Report, Over
  <2> QED
    BY <1>1, <2>1
<1>4. ASSUME NEW f \in Files, Skip(f) PROVE LoadInv'
  <2>1. /\ stage[f] = "new" /\ stage' = [stage EXCEPT ![f] = "through"]
        /\ stage \in [Files -> {"new", "waiting", "posted", "through"}]
        /\ UNCHANGED <<permits, waiters, now, start, answer>>
    BY <1>4 DEF Skip, Bookkeeping
  <2>2. stage'[f] = "through" /\ \A g \in Files : g # f => stage'[g] = stage[g]
    BY <2>1
  <2>3. Holders' = Holders
    BY <2>1, <2>2 DEF Holders, Granted
  <2>4. Queue'
    <3>1. \A g \in ToSet(waiters) : g \in Files /\ g # f
      BY <2>1, ElementOfSeq DEF LoadInv, Queue, ToSet
    <3>2. \A g \in ToSet(waiters') : stage'[g] = "waiting"
      BY <2>1, <2>2, <3>1 DEF LoadInv, Queue
    <3> QED
      BY <2>1, <2>3, <3>2 DEF LoadInv, Queue, NoRepeats
  <2>5. start[f] = None /\ answer[f] = None
    BY <2>1 DEF LoadInv, Clocks
  <2>6. Clocks'
    BY <2>1, <2>2, <2>5 DEF LoadInv, Clocks
  <2>7. InFlight' = InFlight
    BY <2>1 DEF InFlight, Flight
  <2> QED
    BY <1>2, <2>1, <2>4, <2>6, <2>7
<1>5. ASSUME NEW f \in Files, Prepare(f) PROVE LoadInv'
  <2>1. Queue'
    BY <1>5, AskPermit DEF LoadInv
  <2>2. stage[f] = "new" /\ UNCHANGED <<now, answer>>
    BY <1>5 DEF Prepare
  <2>3. CASE Call(f)
    <3>1. Clocks' /\ InFlight' = InFlight
      BY <2>2, <2>3, CallTakesNoTime DEF LoadInv
    <3> QED
      BY <1>2, <2>1, <2>2, <3>1
  <2>4. CASE ~Call(f)
    <3>1. stage' = [stage EXCEPT ![f] = "waiting"] /\ UNCHANGED start
      BY <1>5, <2>4 DEF Prepare
    <3>2. /\ stage'[f] = "waiting"
          /\ \A g \in Files : g # f => stage'[g] = stage[g]
      BY <3>1 DEF Bookkeeping
    <3>3. start[f] = None /\ answer[f] = None
      BY <2>2 DEF LoadInv, Clocks
    <3>4. Clocks'
      BY <2>2, <3>1, <3>2, <3>3 DEF LoadInv, Clocks
    <3>5. InFlight' = InFlight
      BY <2>2, <3>1 DEF InFlight, Flight
    <3> QED
      BY <1>2, <2>1, <2>2, <3>4, <3>5
  <2> QED
    BY <2>3, <2>4
<1>6. ASSUME NEW f \in Files, Resume(f) PROVE LoadInv'
  <2>1. Queue'
    BY <1>6, UsePermit DEF LoadInv
  <2>2. stage[f] = "waiting" /\ Call(f) /\ UNCHANGED <<now, answer>>
    BY <1>6 DEF Resume
  <2>3. Clocks' /\ InFlight' = InFlight
    BY <2>2, CallTakesNoTime DEF LoadInv
  <2> QED
    BY <1>2, <2>1, <2>2, <2>3
<1>7. ASSUME NEW f \in Files, NEW got \in Outcomes, Answer(f, got) PROVE LoadInv'
  <2>1. Queue'
    BY <1>7, HandPermitOn DEF LoadInv
  <2>2. Clocks' /\ InFlight' = InFlight
    BY <1>7, AnswerEndsFlight DEF LoadInv
  <2>3. now' = now
    BY <1>7 DEF Answer
  <2> QED
    BY <1>2, <2>1, <2>2, <2>3
<1>8. CASE Tick
  BY <1>8, OneSecondMore
<1> QED
  BY <1>3, <1>4, <1>5, <1>6, <1>7, <1>8 DEF Next

-----------------------------------------------------------------------------
(***************************************************************************)
(* The latencies of a report.                                              *)
(***************************************************************************)
Reported ==
  run = "reported" => Len(done) = Count /\ records \in Seq({Record(f) : f \in Files})

LEMMA ReportedNext == Bookkeeping /\ Reported /\ [Next]_vars => Reported'
<1> SUFFICES ASSUME Bookkeeping, Reported, [Next]_vars, run' = "reported"
             PROVE  Len(done') = Count /\ records' \in Seq({Record(f) : f \in Files}')
  BY DEF Reported
<1>1. UNCHANGED answer => {Record(f) : f \in Files}' = {Record(f) : f \in Files}
  BY DEF Record
<1>2. CASE run = "reported"
  <2>1. UNCHANGED <<records, answer, done>>
    BY <1>2 DEF Next, vars, Load, Skip, Prepare, Resume, Answer, Tick, Report, Over
  <2> QED
    BY <1>1, <1>2, <2>1 DEF Reported
<1>3. CASE run # "reported"
  <2>1. Report
    BY <1>3 DEF Next, vars, Load, Skip, Prepare, Resume, Answer, Leave, Tick, Over
  <2>2. Len(done) = Count /\ records' = Records /\ UNCHANGED <<answer, done>>
    BY <2>1 DEF Report
  <2> QED
    BY <1>1, <2>2, RecordsAre
<1> QED
  BY <1>2, <1>3

\* What is known of the records of a report.
Sound ==
  /\ Len(records) \in Nat /\ DOMAIN records = 1..Len(records)
  /\ \A i \in 1..Len(records) :
       /\ records[i].file \in Files
       /\ records[i].wall \in Nat /\ start[records[i].file] \in Nat
       /\ answer[records[i].file] # None
       /\ records[i].wall = answer[records[i].file].wall
       /\ start[records[i].file] + records[i].wall <= now
  /\ \A i, j \in 1..Len(records) : i # j => records[i].file # records[j].file

LEMMA ReportIsSound ==
  ASSUME Bookkeeping, BadAnswersAreReported, Clocks, Reported, run = "reported"
  PROVE  Sound
<1>1. /\ Len(records) \in Nat /\ DOMAIN records = 1..Len(records)
  BY LenProperties DEF Reported
<1>2. ASSUME NEW i \in 1..Len(records)
      PROVE  /\ records[i].file \in Files
             /\ records[i].wall \in Nat /\ start[records[i].file] \in Nat
             /\ answer[records[i].file] # None
             /\ records[i].wall = answer[records[i].file].wall
             /\ start[records[i].file] + records[i].wall <= now
  <2>1. PICK f \in archive : records[i] = Record(f)
    BY <1>1 DEF BadAnswersAreReported
  <2>2. f \in Files /\ stage[f] \in {"new", "waiting", "posted", "through"}
    BY DEF Bookkeeping
  <2>3. records[i].file = f /\ records[i].wall = answer[f].wall
    BY <2>1 DEF Record
  <2>4. answer[f] # None
    <3>1. stage[f] = "through"
      BY <2>2, AllThrough DEF Reported
    <3> QED
      BY <3>1 DEF Bookkeeping
  <2> QED
    BY <2>2, <2>3, <2>4 DEF Clocks, Bookkeeping
<1>3. ASSUME NEW i \in 1..Len(records), NEW j \in 1..Len(records), i # j
      PROVE  records[i].file # records[j].file
  <2>1. i < j \/ j < i
    BY <1>1, <1>3
  <2>2. records[i].file < records[j].file \/ records[j].file < records[i].file
    BY <1>1, <2>1 DEF BadAnswersAreReported
  <2>3. records[i].file \in Nat /\ records[j].file \in Nat
    BY <1>2 DEF Files
  <2> QED
    BY <2>2, <2>3
<1> QED
  BY <1>1, <1>2, <1>3 DEF Sound

\* Each second of a latency of the report was one of a flight, and of no other.
LEMMA SecondsAreFlights ==
  ASSUME now \in Nat, Sound
  PROVE  Cardinality(Seconds(records, Len(records))) <= Cardinality(InFlight)
<1> DEFINE n == Len(records)
           S == Seconds(records, n)
           at == [x \in S |-> <<records[x[1]].file, start[records[x[1]].file] + x[2]>>]
<1>1. ASSUME NEW x \in S
      PROVE  /\ x[1] \in 1..n /\ x[2] \in 1..records[x[1]].wall
             /\ x = <<x[1], x[2]>>
             /\ at[x] = <<records[x[1]].file, start[records[x[1]].file] + x[2]>>
  BY DEF Seconds
<1> HIDE DEF S, at
<1>2. ASSUME NEW x \in S PROVE at[x] \in InFlight
  <2> DEFINE f == records[x[1]].file
             t == start[f] + x[2]
  <2>1. /\ f \in Files /\ records[x[1]].wall \in Nat /\ start[f] \in Nat /\ start[f] # None
        /\ records[x[1]].wall = answer[f].wall
        /\ start[f] + records[x[1]].wall <= now
    BY <1>1, BenchmarkAssumption DEF Sound
  <2>2. x[2] \in 1..records[x[1]].wall /\ at[x] = <<f, t>>
    BY <1>1
  <2> HIDE DEF f
  <2>3. t \in 1..now /\ start[f] < t /\ t <= start[f] + answer[f].wall
    BY <2>1, <2>2
  <2>4. Flight(f, t)
    BY <2>1, <2>3 DEF Flight
  <2> HIDE DEF t
  <2>5. <<f, t>> \in InFlight
    BY <2>1, <2>3, <2>4 DEF InFlight
  <2> QED
    BY <2>2, <2>5
<1>3. at \in [S -> InFlight]
  BY <1>2 DEF at
<1>4. ASSUME NEW x \in S, NEW y \in S, at[x] = at[y] PROVE x = y
  <2>1. records[x[1]].file = records[y[1]].file
    BY <1>1, <1>4
  <2>2. start[records[x[1]].file] + x[2] = start[records[y[1]].file] + y[2]
    BY <1>1, <1>4
  <2>3. x[1] = y[1]
    BY <1>1, <2>1 DEF Sound
  <2>4. start[records[x[1]].file] \in Nat /\ x[2] \in Int /\ y[2] \in Int
    BY <1>1 DEF Sound
  <2>5. x[2] = y[2]
    BY <2>2, <2>3, <2>4
  <2> QED
    BY <1>1, <2>3, <2>5
<1>5. at \in Injection(S, InFlight)
  BY <1>3, <1>4 DEF Injection, IsInjective
<1> QED
  BY <1>5, InFlightFinite, FS_Injection DEF S

\* A percentile of a sorted list.
LEMMA PercentileIsOne ==
  ASSUME NEW T, IsFiniteSet(T), T # {}, NEW w, \A i \in T : w[i] \in Nat,
         NEW s, Sorts(s, T, w), NEW pct \in {50, 95, 99},
         NEW data, Len(data) = Cardinality(T),
         \A k \in 1..Cardinality(T) : data[k] = w[s[k]]
  PROVE  /\ 100 * Cardinality(NotAbove(T, w, Percentile(data, pct)))
               >= pct * Cardinality(T)
         /\ 100 * Cardinality(Below(T, w, Percentile(data, pct)))
               <= pct * Cardinality(T)
<1> DEFINE n == Cardinality(T)
           j == ((n * pct) \div 100) + 1
           value == Percentile(data, pct)
           low == Cardinality(NotAbove(T, w, value))
           less == Cardinality(Below(T, w, value))
<1>1. n \in Nat /\ n > 0
  BY FS_CardinalityType, FS_EmptySet
<1> HIDE DEF n
<1>2. j \in 1..n /\ 100 * j > pct * n /\ 100 * (j - 1) <= pct * n
  <2>1. CASE pct = 50
    BY <1>1, <2>1
  <2>2. CASE pct = 95
    BY <1>1, <2>2
  <2>3. CASE pct = 99
    BY <1>1, <2>3
  <2> QED
    BY <2>1, <2>2, <2>3
<1>3. value = w[s[j]]
  <2>1. (n * pct) \div 100 < n
    BY <1>1, <1>2
  <2>2. value = data[j]
    BY <2>1 DEF Percentile, n
  <2> HIDE DEF j
  <2> QED
    BY <1>2, <2>2 DEF n
<1> HIDE DEF j, value
<1>4. low \in Nat /\ low >= j /\ less \in Nat /\ less <= j - 1
  BY <1>2, <1>3, SortedCounts DEF n
<1> HIDE DEF low, less
<1>5. 100 * low >= pct * n /\ 100 * less <= pct * n
  <2>1. CASE pct = 50
    BY <1>1, <1>2, <1>4, <2>1
  <2>2. CASE pct = 95
    BY <1>1, <1>2, <1>4, <2>2
  <2>3. CASE pct = 99
    BY <1>1, <1>2, <1>4, <2>3
  <2> QED
    BY <2>1, <2>2, <2>3
<1> QED
  BY <1>5 DEF low, less, n, value

\* What the report sorts.
LEMMA LatenciesAreSorted ==
  ASSUME now \in Nat, Sound
  PROVE  LET ok == {i \in DOMAIN records : records[i].ok}
             w == [i \in DOMAIN records |-> records[i].wall]
         IN  /\ IsFiniteSet(ok) /\ \A i \in ok : w[i] \in Nat /\ w[i] = records[i].wall
             /\ Len(OkLatencies) = Cardinality(ok)
             /\ \E s : /\ Sorts(s, ok, w)
                      /\ \A k \in 1..Cardinality(ok) : OkLatencies[k] = w[s[k]]
<1> DEFINE ok == {i \in DOMAIN records : records[i].ok}
           w == [i \in DOMAIN records |-> records[i].wall]
           n == Cardinality(ok)
           sorted == CHOOSE s \in [1..n -> ok] :
                       \A j, k \in 1..n :
                         j < k => s[j] # s[k] /\ records[s[j]].wall <= records[s[k]].wall
<1>1. DOMAIN records = 1..Len(records) /\ Len(records) \in Nat
  BY DEF Sound
<1>2. ok \in SUBSET (DOMAIN records)
  OBVIOUS
<1>3. IsFiniteSet(ok) /\ n \in Nat
  BY <1>1, <1>2, CountUpTo, FS_Subset, FS_CardinalityType
<1>4. \A i \in DOMAIN records : w[i] = records[i].wall /\ w[i] \in 0..now
  <2> SUFFICES ASSUME NEW i \in DOMAIN records
               PROVE  w[i] = records[i].wall /\ w[i] \in 0..now
    OBVIOUS
  <2>1. /\ records[i].wall \in Nat /\ start[records[i].file] \in Nat
        /\ start[records[i].file] + records[i].wall <= now
    BY <1>1 DEF Sound
  <2> QED
    BY <2>1
<1> HIDE DEF ok, w
<1>5. PICK t : Sorts(t, ok, w)
  BY <1>2, <1>3, <1>4, SortingExists
<1>6. \A s \in [1..n -> ok] : \A k \in 1..n : w[s[k]] = records[s[k]].wall
  BY <1>2, <1>4
<1> HIDE DEF n
<1>7. \A s : Sorts(s, ok, w) <=>
         /\ s \in [1..n -> ok]
         /\ \A j, k \in 1..n : j < k => s[j] # s[k] /\ records[s[j]].wall <= records[s[k]].wall
  BY <1>6 DEF Sorts, n
<1>8. Sorts(sorted, ok, w)
  <2>1. sorted \in [1..n -> ok] /\ \A j, k \in 1..n :
           j < k => sorted[j] # sorted[k] /\ records[sorted[j]].wall <= records[sorted[k]].wall
    BY <1>5, <1>7
  <2> HIDE DEF sorted
  <2> QED
    BY <1>7, <2>1
<1>9. OkLatencies = [k \in 1..n |-> records[sorted[k]].wall]
  BY DEF OkLatencies, n, ok
<1> HIDE DEF sorted
<1>10. sorted \in [1..n -> ok]
  BY <1>7, <1>8
<1>11. \A k \in 1..n : OkLatencies[k] = w[sorted[k]]
  BY <1>6, <1>9, <1>10
<1>12. Len(OkLatencies) = n
  <2>1. \A k \in 1..n : records[sorted[k]].wall \in Nat
    BY <1>2, <1>4, <1>10
  <2>2. OkLatencies \in [1..n -> Nat]
    BY <1>9, <2>1
  <2> QED
    BY <1>3, <2>2, SequenceOf DEF n
<1>13. /\ Sorts(sorted, ok, w)
       /\ \A k \in 1..Cardinality(ok) : OkLatencies[k] = w[sorted[k]]
  BY <1>8, <1>11 DEF n
<1>14. \E s : /\ Sorts(s, ok, w)
             /\ \A k \in 1..Cardinality(ok) : OkLatencies[k] = w[s[k]]
  BY <1>13
<1>15. \A i \in ok : w[i] \in Nat /\ w[i] = records[i].wall
  BY <1>2, <1>4
<1>16. Len(OkLatencies) = Cardinality(ok)
  BY <1>12 DEF n
<1> QED
  BY <1>3, <1>14, <1>15, <1>16 DEF ok, w

LEMMA ReportOfTheLoad ==
  ASSUME Bookkeeping, BadAnswersAreReported, LoadInv, Reported
  PROVE  LatenciesAreOfTheLoad
<1> SUFFICES ASSUME run = "reported" PROVE LatenciesAreOfTheLoad
  BY DEF LatenciesAreOfTheLoad
<1>1. Sound /\ now \in Nat
  BY ReportIsSound DEF LoadInv, Bookkeeping
<1>2. LET sum[i \in 0..Len(records)] == IF i = 0 THEN 0 ELSE sum[i - 1] + records[i].wall
      IN  sum[Len(records)] <= Concurrency * now
  <2> DEFINE c == Cardinality(Seconds(records, Len(records)))
  <2>1. LET sum[i \in 0..Len(records)] == IF i = 0 THEN 0 ELSE sum[i - 1] + records[i].wall
        IN  sum[Len(records)] = c
    BY <1>1, SumIsSeconds DEF Sound
  <2>2. c <= Cardinality(InFlight) /\ Cardinality(InFlight) \in Nat
    BY <1>1, SecondsAreFlights, InFlightFinite
  <2>3. Cardinality(InFlight) <= Concurrency * now /\ Concurrency * now \in Nat
    BY <1>1, BenchmarkAssumption DEF LoadInv
  <2>4. c \in Nat
    <3>1. Len(records) \in 0..Len(records)
      BY <1>1 DEF Sound
    <3> QED
      BY <1>1, <3>1, SecondsCount DEF Sound
  <2>5. c <= Concurrency * now
    <3> HIDE DEF c
    <3> QED BY <2>2, <2>3, <2>4
  <2> QED
    BY <2>1, <2>5
<1> DEFINE ok == {i \in DOMAIN records : records[i].ok}
           w == [i \in DOMAIN records |-> records[i].wall]
<1>3. /\ IsFiniteSet(ok) /\ \A i \in ok : w[i] \in Nat /\ w[i] = records[i].wall
      /\ Len(OkLatencies) = Cardinality(ok)
      /\ \E s : /\ Sorts(s, ok, w)
               /\ \A k \in 1..Cardinality(ok) : OkLatencies[k] = w[s[k]]
  BY <1>1, LatenciesAreSorted
<1> HIDE DEF ok, w
<1>4. ASSUME ok # {}, NEW pct \in {50, 95, 99}
      PROVE  LET value == Percentile(OkLatencies, pct)
             IN  /\ 100 * Cardinality({i \in ok : records[i].wall <= value})
                      >= pct * Cardinality(ok)
                 /\ 100 * Cardinality({i \in ok : records[i].wall < value})
                      <= pct * Cardinality(ok)
  <2> DEFINE value == Percentile(OkLatencies, pct)
  <2>1. PICK s : /\ Sorts(s, ok, w)
                 /\ \A k \in 1..Cardinality(ok) : OkLatencies[k] = w[s[k]]
    BY <1>3
  <2>2. /\ 100 * Cardinality(NotAbove(ok, w, value)) >= pct * Cardinality(ok)
        /\ 100 * Cardinality(Below(ok, w, value)) <= pct * Cardinality(ok)
    BY <1>3, <1>4, <2>1, PercentileIsOne
  <2> HIDE DEF value
  <2>3. /\ NotAbove(ok, w, value) = {i \in ok : records[i].wall <= value}
        /\ Below(ok, w, value) = {i \in ok : records[i].wall < value}
    BY <1>3 DEF NotAbove, Below
  <2> QED
    BY <2>2, <2>3 DEF value
<1> QED
  BY <1>2, <1>4 DEF LatenciesAreOfTheLoad, ok

(***************************************************************************)
(* run_batch and percentile of scripts/benchmark.py: the latencies of a    *)
(* report are those of a service with at most --concurrency requests in    *)
(* flight, and a percentile is one of them.                                *)
(***************************************************************************)
THEOREM ReportedLatencies == Spec => []LatenciesAreOfTheLoad
<1> DEFINE LInv == BenchmarkInv /\ LoadInv /\ Reported
<1>1. Init => LInv
  <2>1. Init => Reported
    BY DEF Init, Reported
  <2> QED
    BY <2>1, InitInv, LoadInit
<1>2. LInv /\ [Next]_vars => LInv'
  BY BenchmarkInvNext, LoadNext, ReportedNext DEF BenchmarkInv
<1>3. LInv => LatenciesAreOfTheLoad
  BY ReportOfTheLoad DEF BenchmarkInv
<1> QED
  BY <1>1, <1>2, <1>3, PTL DEF Spec
=============================================================================
