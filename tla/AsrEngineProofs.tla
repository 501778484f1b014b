--------------------------- MODULE AsrEngineProofs ---------------------------
(***************************************************************************)
(* What is proved of the ASR worker: of its requests, of any number of     *)
(* clips, in batches of any size, with a disk that is full at any time; of *)
(* its live sessions, of any length; both for any recognizer.              *)
(***************************************************************************)
EXTENDS Transcriber, LiveSession, SequenceFacts

(***************************************************************************)
(* The streams of the recognizer, and the words of them.                   *)
(***************************************************************************)
Frame == {"word", "silence"}
Streams == [heard : Seq(Frame), done : Nat, from : Nat]

\* What Words puts together.
Pieces(s, m, n) ==
  [i \in 1..(n - m) |-> IF s.heard[m + i] = "word" THEN <<m + i>> ELSE <<>>]

\* A second of silence was the last thing the stream was fed.
Padded(s) ==
  /\ Pad <= Len(s.heard)
  /\ \A i \in 1..Len(s.heard) : i > Len(s.heard) - Pad => s.heard[i] = "silence"

LEMMA PiecesAre ==
  ASSUME NEW s, NEW m \in Nat, NEW n \in Nat, m <= n
  PROVE  /\ Pieces(s, m, n) \in Seq(Seq(Nat))
         /\ Len(Pieces(s, m, n)) = n - m
         /\ \A i \in 1..(n - m) :
              Pieces(s, m, n)[i] = IF s.heard[m + i] = "word" THEN <<m + i>> ELSE <<>>
         /\ Words(s, m, n) = FlattenSeq(Pieces(s, m, n))
<1> DEFINE p == Pieces(s, m, n)
<1>1. n - m \in Nat
  OBVIOUS
<1>2. \A i \in 1..(n - m) : m + i \in Nat
  OBVIOUS
<1>3. \A k \in Nat : <<k>> \in Seq(Nat)
  OBVIOUS
<1>4. <<>> \in Seq(Nat)
  OBVIOUS
<1>5. p \in [1..(n - m) -> Seq(Nat)]
  BY <1>2, <1>3, <1>4 DEF Pieces
<1>6. \A i \in 1..(n - m) : p[i] = IF s.heard[m + i] = "word" THEN <<m + i>> ELSE <<>>
  BY DEF Pieces
<1>7. Words(s, m, n) = FlattenSeq(p)
  BY DEF Words, Pieces
<1> HIDE DEF p
<1>8. p \in Seq(Seq(Nat))
  BY <1>1, <1>5, SeqDef
<1>9. Len(p) \in Nat /\ DOMAIN p = 1..Len(p) /\ DOMAIN p = 1..(n - m)
  BY <1>5, <1>8, LenProperties
<1>10. Len(p) = n - m
  BY <1>1, <1>9
<1> QED
  BY <1>6, <1>7, <1>8, <1>10 DEF p

LEMMA WordsTyped ==
  ASSUME NEW s, NEW m \in Nat, NEW n \in Nat, m <= n
  PROVE  Words(s, m, n) \in Seq(Nat)
BY PiecesAre, FlattenTyped

\* What was said up to k and what was said after is what was said.
LEMMA WordsJoin ==
  ASSUME NEW s, NEW m \in Nat, NEW k \in Nat, NEW n \in Nat, m <= k, k <= n
  PROVE  Words(s, m, n) = Words(s, m, k) \o Words(s, k, n)
<1> DEFINE p == Pieces(s, m, k)
           q == Pieces(s, k, n)
           r == Pieces(s, m, n)
<1>1. /\ p \in Seq(Seq(Nat)) /\ Len(p) = k - m
      /\ \A i \in 1..(k - m) : p[i] = IF s.heard[m + i] = "word" THEN <<m + i>> ELSE <<>>
      /\ Words(s, m, k) = FlattenSeq(p)
  BY PiecesAre
<1>2. /\ q \in Seq(Seq(Nat)) /\ Len(q) = n - k
      /\ \A i \in 1..(n - k) : q[i] = IF s.heard[k + i] = "word" THEN <<k + i>> ELSE <<>>
      /\ Words(s, k, n) = FlattenSeq(q)
  BY PiecesAre
<1>3. m <= n
  OBVIOUS
<1>4. /\ r \in Seq(Seq(Nat)) /\ Len(r) = n - m
      /\ \A i \in 1..(n - m) : r[i] = IF s.heard[m + i] = "word" THEN <<m + i>> ELSE <<>>
      /\ Words(s, m, n) = FlattenSeq(r)
  BY <1>3, PiecesAre
<1> HIDE DEF p, q, r
<1>5. p \o q \in Seq(Seq(Nat)) /\ Len(p \o q) = (k - m) + (n - k)
  <2>1. p \in Seq(Seq(Nat)) /\ q \in Seq(Seq(Nat)) /\ Len(p) = k - m /\ Len(q) = n - k
    BY <1>1, <1>2
  <2> QED
    BY ONLY <2>1, ConcatProperties
<1>6. \A i \in 1..Len(r) : (p \o q)[i] = r[i]
  <2> SUFFICES ASSUME NEW i \in 1..Len(r) PROVE (p \o q)[i] = r[i]
    OBVIOUS
  <2>1. i \in 1..(n - m)
    BY <1>4
  <2>2. CASE i <= k - m
    <3>1. i \in 1..(k - m) /\ i \in 1..Len(p) + Len(q) /\ i <= Len(p)
      BY <1>1, <1>2, <2>1, <2>2
    <3>2. (p \o q)[i] = p[i]
      BY <1>1, <1>2, <3>1, ConcatProperties
    <3> QED
      BY <1>1, <1>4, <2>1, <3>1, <3>2
  <2>3. CASE ~(i <= k - m)
    <3>1. i - (k - m) \in 1..(n - k) /\ k + (i - (k - m)) = m + i
      BY <2>1, <2>3
    <3>2. i \in 1..Len(p) + Len(q) /\ ~(i <= Len(p))
      BY <1>1, <1>2, <2>1, <2>3
    <3>3. (p \o q)[i] = q[i - Len(p)]
      BY <1>1, <1>2, <3>2, ConcatProperties
    <3>4. q[i - (k - m)] = IF s.heard[k + (i - (k - m))] = "word"
                             THEN <<k + (i - (k - m))>> ELSE <<>>
      BY <1>2, <3>1
    <3>5. r[i] = IF s.heard[m + i] = "word" THEN <<m + i>> ELSE <<>>
      BY <1>4, <2>1
    <3>6. q[i - (k - m)] = IF s.heard[m + i] = "word" THEN <<m + i>> ELSE <<>>
      BY <3>1, <3>4
    <3> QED
      BY <1>1, <3>3, <3>5, <3>6
  <2> QED
    BY <2>2, <2>3
<1>7. Len(r) = Len(p \o q)
  BY <1>4, <1>5
<1>8. r = p \o q
  BY <1>4, <1>5, <1>6, <1>7, SeqEqual
<1> QED
  BY <1>1, <1>2, <1>4, <1>8, FlattenConcat

\* Nothing is heard in silence.
LEMMA WordsSilent ==
  ASSUME NEW s, NEW m \in Nat, NEW n \in Nat, m <= n,
         \A j \in Nat : m < j /\ j <= n => s.heard[j] = "silence"
  PROVE  Words(s, m, n) = <<>>
<1> DEFINE p == Pieces(s, m, n)
<1>1. /\ p \in Seq(Seq(Nat)) /\ Len(p) = n - m
      /\ \A i \in 1..(n - m) : p[i] = IF s.heard[m + i] = "word" THEN <<m + i>> ELSE <<>>
      /\ Words(s, m, n) = FlattenSeq(p)
  BY PiecesAre
<1> HIDE DEF p
<1>2. \A i \in 1..Len(p) : p[i] = <<>>
  <2> SUFFICES ASSUME NEW i \in 1..Len(p) PROVE p[i] = <<>>
    OBVIOUS
  <2>1. i \in 1..(n - m) /\ m + i \in Nat /\ m < m + i /\ m + i <= n
    BY <1>1
  <2>2. s.heard[m + i] = "silence"
    BY <2>1
  <2> QED
    BY <1>1, <2>1, <2>2
<1> QED
  BY <1>1, <1>2, FlattenEmpties

\* What was said stays said, whatever the stream is fed afterwards.
Alike(s, t, n) == \A j \in Nat : 1 <= j /\ j <= n => s.heard[j] = t.heard[j]

LEMMA WordsSame ==
  ASSUME NEW s, NEW t, NEW m \in Nat, NEW n \in Nat, m <= n, Alike(s, t, n)
  PROVE  Words(s, m, n) = Words(t, m, n)
<1>1. \A i \in 1..(n - m) : s.heard[m + i] = t.heard[m + i]
  BY DEF Alike
<1>2. Pieces(s, m, n) = Pieces(t, m, n)
  BY <1>1 DEF Pieces
<1>3. Words(s, m, n) = FlattenSeq(Pieces(s, m, n)) /\ Words(t, m, n) = FlattenSeq(Pieces(t, m, n))
  BY DEF Words, Pieces
<1> QED
  BY <1>2, <1>3

LEMMA WordsOfNone == ASSUME NEW s, NEW m \in Nat PROVE Words(s, m, m) = <<>>
<1>1. m <= m /\ \A j \in Nat : m < j /\ j <= m => s.heard[j] = "silence"
  OBVIOUS
<1> QED
  BY <1>1, WordsSilent

-----------------------------------------------------------------------------
(***************************************************************************)
(* What the recognizer's operations do to a stream.                        *)
(***************************************************************************)
Stream(s) == s \in Streams /\ s.from <= s.done /\ s.done <= Len(s.heard)

LEMMA StreamFacts ==
  ASSUME NEW s, Stream(s)
  PROVE  /\ s.heard \in Seq(Frame) /\ Len(s.heard) \in Nat
         /\ s.done \in Nat /\ s.from \in Nat
         /\ s.from <= s.done /\ s.done <= Len(s.heard)
         /\ 0 <= s.from /\ 0 <= s.done
<1>1. s.heard \in Seq(Frame) /\ s.done \in Nat /\ s.from \in Nat
  BY DEF Stream, Streams
<1>2. Len(s.heard) \in Nat
  BY <1>1, LenProperties
<1> QED
  BY <1>1, <1>2 DEF Stream

LEMMA OpenedIs ==
  /\ Stream(Opened) /\ Opened.heard = <<>> /\ Opened.done = 0 /\ Opened.from = 0
  /\ Len(Opened.heard) = 0
<1>1. Opened.heard = <<>> /\ Opened.done = 0 /\ Opened.from = 0
  BY DEF Opened
<1>2. <<>> \in Seq(Frame) /\ Len(<<>>) = 0
  BY EmptySeq
<1>3. Opened \in Streams
  BY <1>2 DEF Opened, Streams
<1> QED
  BY <1>1, <1>2, <1>3 DEF Stream

LEMMA SilenceIs ==
  /\ Silence \in Seq(Frame) /\ Len(Silence) = Pad /\ Pad \in Nat
  /\ \A i \in 1..Pad : Silence[i] = "silence"
<1>1. Pad \in Nat
  BY RecognizerAssumption
<1>2. Silence \in [1..Pad -> Frame] /\ \A i \in 1..Pad : Silence[i] = "silence"
  BY DEF Silence, Frame
<1>3. \A n \in Nat : Silence \in [1..n -> Frame] => Silence \in Seq(Frame) /\ Len(Silence) = n
  BY SequenceOf
<1> QED
  BY <1>1, <1>2, <1>3

\* t is s after it was fed frames.
Longer(t, s, frames) ==
  /\ Stream(t) /\ t.done = s.done /\ t.from = s.from
  /\ Len(t.heard) = Len(s.heard) + Len(frames)
  /\ \A i \in 1..Len(s.heard) : t.heard[i] = s.heard[i]
  /\ \A i \in 1..Len(frames) : t.heard[Len(s.heard) + i] = frames[i]

LEMMA Fed ==
  ASSUME NEW s, Stream(s), NEW frames \in Seq(Frame)
  PROVE  Longer(AcceptWaveform(s, frames), s, frames)
<1> DEFINE t == AcceptWaveform(s, frames)
           h == s.heard
           g == t.heard
<1>1. /\ h \in Seq(Frame) /\ Len(h) \in Nat /\ s.done \in Nat /\ s.from \in Nat
      /\ s.from <= s.done /\ s.done <= Len(h)
  BY StreamFacts
<1>2. t = [heard |-> h \o frames, done |-> s.done, from |-> s.from]
  <2>1. s \in Streams
    BY DEF Stream
  <2>2. \A x : [s EXCEPT !.heard = x] = [heard |-> x, done |-> s.done, from |-> s.from]
    BY <2>1 DEF Streams
  <2> QED
    BY <2>2 DEF AcceptWaveform
<1>3. g = h \o frames /\ t.done = s.done /\ t.from = s.from
  BY <1>2
<1>4. Len(frames) \in Nat
  BY LenProperties
<1>5. t \in Streams
  <2>1. h \o frames \in Seq(Frame)
    <3> HIDE DEF h
    <3> QED BY <1>1, ConcatProperties
  <2> QED
    BY <1>1, <1>2, <2>1 DEF Streams
<1> HIDE DEF h, g, t
<1>6. /\ h \o frames \in Seq(Frame)
      /\ Len(h \o frames) = Len(h) + Len(frames)
      /\ \A i \in 1..Len(h) + Len(frames) :
           (h \o frames)[i] = IF i <= Len(h) THEN h[i] ELSE frames[i - Len(h)]
  BY <1>1, ConcatProperties
<1>7. \A i \in 1..Len(h) : g[i] = h[i]
  BY <1>1, <1>3, <1>4, <1>6
<1>8. \A i \in 1..Len(frames) : g[Len(h) + i] = frames[i]
  <2> SUFFICES ASSUME NEW i \in 1..Len(frames) PROVE g[Len(h) + i] = frames[i]
    OBVIOUS
  <2>1. /\ Len(h) + i \in 1..Len(h) + Len(frames) /\ ~(Len(h) + i <= Len(h))
        /\ Len(h) + i - Len(h) = i
    BY <1>1, <1>4
  <2> QED
    BY <1>3, <1>6, <2>1
<1>9. Len(g) = Len(h) + Len(frames)
  BY <1>3, <1>6
<1>10. s.done <= Len(g)
  BY <1>1, <1>4, <1>9
<1> QED
  BY <1>1, <1>3, <1>5, <1>7, <1>8, <1>9, <1>10 DEF h, g, t, Stream, Longer

\* A stream that was fed silence last is padded, whatever it was fed before.
LEMMA FedSilence ==
  ASSUME NEW s, Stream(s), NEW t, t = AcceptWaveform(s, Silence)
  PROVE  Padded(t)
<1>1. Silence \in Seq(Frame) /\ Len(Silence) = Pad /\ Pad \in Nat
  BY SilenceIs
<1>2. /\ Len(t.heard) = Len(s.heard) + Pad
      /\ \A i \in 1..Pad : t.heard[Len(s.heard) + i] = Silence[i]
  <2>1. /\ Len(t.heard) = Len(s.heard) + Len(Silence)
        /\ \A i \in 1..Len(Silence) : t.heard[Len(s.heard) + i] = Silence[i]
    BY <1>1, Fed DEF Longer
  <2> QED
    BY <1>1, <2>1
<1>3. Len(s.heard) \in Nat
  BY StreamFacts
<1>4. Pad <= Len(t.heard)
  BY <1>1, <1>2, <1>3
<1>5. ASSUME NEW i \in 1..Len(t.heard), i > Len(t.heard) - Pad
      PROVE  t.heard[i] = "silence"
  <2>1. i - Len(s.heard) \in 1..Pad /\ Len(s.heard) + (i - Len(s.heard)) = i
    BY <1>1, <1>2, <1>3, <1>5
  <2>2. t.heard[Len(s.heard) + (i - Len(s.heard))] = Silence[i - Len(s.heard)]
    BY <1>2, <2>1
  <2>3. Silence[i - Len(s.heard)] = "silence"
    BY <2>1, SilenceIs
  <2> QED
    BY <2>1, <2>2, <2>3
<1> QED
  BY <1>4, <1>5 DEF Padded

LEMMA Decoding ==
  ASSUME NEW s, Stream(s), IsReady(s), NEW t, t = DecodeStream(s)
  PROVE  Stream(t) /\ t.heard = s.heard /\ t.from = s.from
<1>1. /\ Len(s.heard) \in Nat /\ s.done \in Nat /\ s.from \in Nat
      /\ s.from <= s.done /\ s.done <= Len(s.heard)
  BY StreamFacts
<1>2. Window \in Nat /\ Shift \in Nat /\ Shift <= Window
  BY RecognizerAssumption
<1>3. Len(s.heard) - s.done >= Window
  BY DEF IsReady
<1>4. t = [heard |-> s.heard, done |-> s.done + Shift, from |-> s.from]
  BY DEF DecodeStream, Stream, Streams
<1>5. t.heard = s.heard /\ t.done = s.done + Shift /\ t.from = s.from
  BY <1>4
<1>6. s.done + Shift \in Nat /\ s.from <= s.done + Shift /\ s.done + Shift <= Len(s.heard)
  BY <1>1, <1>2, <1>3
<1>7. t \in Streams
  BY <1>4, <1>6 DEF Stream, Streams
<1> QED
  BY <1>5, <1>6, <1>7 DEF Stream

(***************************************************************************)
(* What padding is for: when a padded stream can be stepped no further,    *)
(* all that is not decoded of it is of the silence it was padded with.     *)
(***************************************************************************)
LEMMA Flushed ==
  ASSUME NEW s, Stream(s), Padded(s), ~IsReady(s), NEW m \in Nat, m <= s.done
  PROVE  Words(s, m, s.done) = Words(s, m, Len(s.heard))
<1> DEFINE n == Len(s.heard)
           d == s.done
<1>1. n \in Nat /\ d \in Nat /\ d <= n
  BY StreamFacts
<1>2. Window \in Nat /\ Pad \in Nat /\ Pad >= Window - 1
  BY RecognizerAssumption
<1>3. ~(n - d >= Window)
  BY DEF IsReady
<1> HIDE DEF n, d
<1>4. \A j \in Nat : d < j /\ j <= n => j \in 1..n /\ j > n - Pad
  BY <1>1, <1>2, <1>3
<1>5. \A j \in Nat : d < j /\ j <= n => s.heard[j] = "silence"
  BY <1>4 DEF n, Padded
<1>6. Words(s, d, n) = <<>>
  BY <1>1, <1>5, WordsSilent
<1>7. m <= d
  BY DEF d
<1>8. Words(s, m, n) = Words(s, m, d) \o Words(s, d, n)
  BY <1>1, <1>7, WordsJoin
<1>9. Words(s, m, d) \in Seq(Nat)
  BY <1>1, <1>7, WordsTyped
<1>10. Words(s, m, d) \o <<>> = Words(s, m, d)
  BY <1>9, ConcatEmptySeq
<1> QED
  BY <1>6, <1>8, <1>10 DEF n, d

-----------------------------------------------------------------------------
(***************************************************************************)
(* A live session: what the turns taken so far hold is what was said up to *)
(* the last reset, and a session that finishes is padded.                  *)
(***************************************************************************)
SessionInv ==
  /\ Stream(live)
  /\ call \in {"none", "accept", "finish", "over"}
  /\ turns \in Seq(Seq(Nat))
  /\ call # "over" => FlattenSeq(turns) = Words(live, 0, live.from)
  /\ call = "finish" => Padded(live)
  /\ NothingSaidIsLost

LEMMA SessionInitInv == SessionInit => SessionInv
<1> SUFFICES ASSUME SessionInit PROVE SessionInv
  OBVIOUS
<1>1. live = Opened /\ call = "none" /\ turns = <<>>
  BY DEF SessionInit
<1>2. Stream(live) /\ live.from = 0
  BY <1>1, OpenedIs
<1>3. turns \in Seq(Seq(Nat)) /\ FlattenSeq(turns) = <<>>
  BY <1>1, EmptySeq, FlattenNone
<1>4. Words(live, 0, live.from) = <<>>
  BY <1>2, WordsOfNone
<1> QED
  BY <1>1, <1>2, <1>3, <1>4 DEF SessionInv, NothingSaidIsLost

\* One more turn is taken, of what was decoded since the last reset.
LEMMA TakeTurn ==
  ASSUME NEW s, Stream(s), NEW u \in Seq(Seq(Nat)), FlattenSeq(u) = Words(s, 0, s.from)
  PROVE  /\ Append(u, GetResult(s)) \in Seq(Seq(Nat))
         /\ FlattenSeq(Append(u, GetResult(s))) = Words(s, 0, s.done)
<1>1. s.from \in Nat /\ s.done \in Nat /\ s.from <= s.done /\ 0 <= s.from
  BY StreamFacts
<1>2. GetResult(s) \in Seq(Nat)
  BY <1>1, WordsTyped DEF GetResult
<1>3. Append(u, GetResult(s)) \in Seq(Seq(Nat))
  BY <1>2, AppendProperties
<1>4. FlattenSeq(Append(u, GetResult(s))) = Words(s, 0, s.from) \o Words(s, s.from, s.done)
  BY <1>2, FlattenAppend DEF GetResult
<1>5. Words(s, 0, s.done) = Words(s, 0, s.from) \o Words(s, s.from, s.done)
  BY <1>1, WordsJoin
<1> QED
  BY <1>3, <1>4, <1>5

\* Feeding a stream takes nothing from what was said before the last reset.
LEMMA FedKeepsWords ==
  ASSUME NEW s, Stream(s), NEW t, NEW f, Longer(t, s, f)
  PROVE  Words(t, 0, t.from) = Words(s, 0, s.from)
<1>1. /\ s.from \in Nat /\ 0 <= s.from /\ Len(s.heard) \in Nat /\ s.from <= Len(s.heard)
  <2>1. /\ s.from \in Nat /\ s.done \in Nat /\ Len(s.heard) \in Nat
        /\ s.from <= s.done /\ s.done <= Len(s.heard)
    BY StreamFacts
  <2> QED
    BY <2>1
<1>2. Alike(t, s, s.from)
  BY <1>1 DEF Longer, Alike
<1>3. Words(t, 0, s.from) = Words(s, 0, s.from)
  BY <1>1, <1>2, WordsSame
<1> QED
  BY <1>3 DEF Longer

LEMMA SessionInvNext == SessionInv /\ [SessionNext]_sessionVars => SessionInv'
<1> SUFFICES ASSUME SessionInv, [SessionNext]_sessionVars PROVE SessionInv'
  OBVIOUS
<1>0. Stream(live) /\ turns \in Seq(Seq(Nat))
  BY DEF SessionInv
<1>1. CASE UNCHANGED sessionVars
  BY <1>1 DEF SessionInv, sessionVars, NothingSaidIsLost
<1>2. ASSUME NEW frames \in Frames, Accept(frames) PROVE SessionInv'
  <2>1. /\ call = "none" /\ call' = "accept" /\ turns' = turns
        /\ live' = AcceptWaveform(live, frames)
    BY <1>2 DEF Accept
  <2>2. frames \in Seq(Frame)
    <3>1. PICK n \in 0..MaxFrames : frames \in [1..n -> Frame]
      BY DEF Frames, Frame
    <3>2. n \in Nat
      BY SessionAssumption
    <3> QED
      BY <3>1, <3>2, SequenceOf
  <2>3. Longer(live', live, frames)
    BY <1>0, <2>1, <2>2, Fed
  <2>4. Words(live', 0, live'.from) = Words(live, 0, live.from)
    BY <1>0, <2>3, FedKeepsWords
  <2>5. FlattenSeq(turns) = Words(live, 0, live.from)
    BY <2>1 DEF SessionInv
  <2>6. Stream(live')
    BY <2>3 DEF Longer
  <2> QED
    BY <1>0, <2>1, <2>4, <2>5, <2>6 DEF SessionInv, NothingSaidIsLost
<1>3. CASE Finish
  <2>1. /\ call = "none" /\ call' = "finish" /\ turns' = turns
        /\ live' = AcceptWaveform(live, Silence)
    BY <1>3 DEF Finish
  <2>2. Longer(live', live, Silence)
    BY <1>0, <2>1, SilenceIs, Fed
  <2>3. Padded(live')
    BY <1>0, <2>1, FedSilence
  <2>4. Words(live', 0, live'.from) = Words(live, 0, live.from)
    BY <1>0, <2>2, FedKeepsWords
  <2>5. FlattenSeq(turns) = Words(live, 0, live.from)
    BY <2>1 DEF SessionInv
  <2>6. Stream(live')
    BY <2>2 DEF Longer
  <2> QED
    BY <1>0, <2>1, <2>3, <2>4, <2>5, <2>6 DEF SessionInv, NothingSaidIsLost
<1>4. CASE Decode
  <2>1. /\ call \in {"accept", "finish"} /\ call' = call /\ turns' = turns
        /\ IsReady(live) /\ live' = DecodeStream(live)
    BY <1>4 DEF Decode
  <2>2. Stream(live') /\ live'.heard = live.heard /\ live'.from = live.from
    BY <1>0, <2>1, Decoding
  <2>3. live.from \in Nat /\ 0 <= live.from
    BY <1>0, StreamFacts
  <2>4. Words(live', 0, live'.from) = Words(live, 0, live.from)
    <3>1. Alike(live', live, live.from)
      BY <2>2 DEF Alike
    <3> QED
      BY <2>2, <2>3, <3>1, WordsSame
  <2>5. FlattenSeq(turns) = Words(live, 0, live.from)
    BY <2>1 DEF SessionInv
  <2>6. call = "finish" => Padded(live')
    BY <2>2 DEF SessionInv, Padded
  <2> QED
    BY <1>0, <2>1, <2>2, <2>4, <2>5, <2>6 DEF SessionInv, NothingSaidIsLost
<1>5. CASE AcceptReturns
  BY <1>5 DEF AcceptReturns, SessionInv, NothingSaidIsLost
<1>6. CASE FinishReturns
  <2>1. /\ call = "finish" /\ ~IsReady(live) /\ call' = "over" /\ live' = live
        /\ turns' = Append(turns, GetResult(live))
    BY <1>6 DEF FinishReturns
  <2>2. FlattenSeq(turns) = Words(live, 0, live.from) /\ Padded(live)
    BY <2>1 DEF SessionInv
  <2>3. turns' \in Seq(Seq(Nat)) /\ FlattenSeq(turns') = Words(live, 0, live.done)
    BY <1>0, <2>1, <2>2, TakeTurn
  <2>4. 0 <= live.done
    BY <1>0, StreamFacts
  <2>5. Words(live, 0, live.done) = Words(live, 0, Len(live.heard))
    BY <1>0, <2>1, <2>2, <2>4, Flushed
  <2> QED
    BY <1>0, <2>1, <2>3, <2>5 DEF SessionInv, NothingSaidIsLost
<1>7. CASE TurnEnds
  <2>1. /\ call = "none" /\ call' = call /\ live' = Reset(live)
        /\ turns' = Append(turns, GetResult(live))
    BY <1>7 DEF TurnEnds
  <2>2. FlattenSeq(turns) = Words(live, 0, live.from)
    BY <2>1 DEF SessionInv
  <2>3. turns' \in Seq(Seq(Nat)) /\ FlattenSeq(turns') = Words(live, 0, live.done)
    BY <1>0, <2>1, <2>2, TakeTurn
  <2>4. live.done \in Nat /\ 0 <= live.done /\ live.done <= Len(live.heard)
    BY <1>0, StreamFacts
  <2>5. Stream(live') /\ live'.heard = live.heard /\ live'.from = live.done
    <3>1. live \in Streams
      BY <1>0 DEF Stream
    <3>2. live' = [heard |-> live.heard, done |-> live.done, from |-> live.done]
      BY <2>1, <3>1 DEF Reset, Streams
    <3>3. live' \in Streams
      BY <3>1, <3>2 DEF Streams
    <3> QED
      BY <2>4, <3>2, <3>3 DEF Stream
  <2>6. Words(live', 0, live'.from) = Words(live, 0, live.done)
    <3>1. Alike(live', live, live.done)
      BY <2>5 DEF Alike
    <3> QED
      BY <2>4, <2>5, <3>1, WordsSame
  <2> QED
    BY <2>1, <2>3, <2>5, <2>6 DEF SessionInv, NothingSaidIsLost
<1> QED
  BY <1>1, <1>2, <1>3, <1>4, <1>5, <1>6, <1>7 DEF SessionNext

(***************************************************************************)
(* ZipformerSession: whatever the caller feeds, wherever the endpoints     *)
(* fall and however far the decoder lags, every word they said is in one   *)
(* of their turns, once and in order, when finish returns.                 *)
(***************************************************************************)
THEOREM NoWordIsLost == SessionSpec => []NothingSaidIsLost
<1>1. SessionInv => NothingSaidIsLost
  BY DEF SessionInv
<1> QED
  BY <1>1, SessionInitInv, SessionInvNext, PTL DEF SessionSpec

-----------------------------------------------------------------------------
Decoder == {"write", "load", "convert", "finally", "check"}

(***************************************************************************)
(* The clips decoded so far are audio, the current one is if nothing was   *)
(* raised for it, and all are before the first batch.                      *)
(***************************************************************************)
Progress ==
  /\ pc \in {"decode", "batch", "recognize", "over"} \cup Decoder
  /\ \E n \in Nat : clips \in [1..n -> Clip]
  /\ audios \in Seq(Nat) /\ Len(audios) <= Len(clips)
  /\ \A i \in 1..Len(audios) : clips[i].kind \in {"wav", "webm"}
  /\ pc \in Decoder => Len(audios) < Len(clips)
  /\ pc \in {"write", "load", "convert"} => failure = None
  /\ pc \in {"finally", "check"} /\ failure = None => Kind \in Convertible
  /\ pc \in {"batch", "recognize"} \/ outcome = "200" => Len(audios) = Len(clips)
  /\ pc # "over" => outcome = None
  /\ pc \notin {"batch", "recognize"} /\ outcome # "200" => results = <<>>

(***************************************************************************)
(* The only temporary file there can be is the current clip's, and from    *)
(* the moment its bytes are written the finally block knows its name.      *)
(***************************************************************************)
OneFile ==
  /\ pc \in {"decode", "batch", "recognize"} => tmp = {}
  /\ pc = "write" => tmp = {This} /\ path = None
  /\ pc \in {"load", "convert"} => tmp = {This} /\ path = This
  /\ pc = "finally" => (tmp = {This} /\ path = This) \/ failure = "disk"
  /\ pc \in {"check", "over"} => tmp = {} \/ failure = "disk"

Inv == Progress /\ OneFile

LEMMA InitInv == Init => Inv
<1> SUFFICES ASSUME Init PROVE Inv
  OBVIOUS
<1>1. PICK n \in 0..MaxClips : clips \in [1..n -> Clip]
  BY DEF Init
<1>2. n \in Nat
  BY TranscriberAssumption
<1>3. clips \in Seq(Clip)
  BY <1>1, <1>2, SeqDef
<1>4. Len(clips) \in Nat
  BY <1>3, LenProperties
<1>5. Progress
  BY <1>1, <1>2, <1>4, TranscriberAssumption DEF Init, Progress, Decoder
<1>6. OneFile
  BY DEF Init, OneFile
<1> QED
  BY <1>5, <1>6 DEF Inv

-----------------------------------------------------------------------------
\* What the invariant says of lengths.
LEMMA Lengths ==
  ASSUME Progress
  PROVE  Len(clips) \in Nat /\ Len(audios) \in Nat /\ This \in Nat /\ This = Len(audios) + 1
<1>1. PICK n \in Nat : clips \in [1..n -> Clip]
  BY DEF Progress
<1>2. clips \in Seq(Clip)
  BY <1>1, SeqDef
<1>3. Len(clips) \in Nat /\ Len(audios) \in Nat
  BY <1>2, LenProperties DEF Progress
<1> QED
  BY <1>3 DEF This

LEMMA ProgressNext == Progress /\ [Next]_vars => Progress'
<1> SUFFICES ASSUME Progress, [Next]_vars PROVE Progress'
  OBVIOUS
<1> USE TranscriberAssumption
<1>0. Len(clips) \in Nat /\ Len(audios) \in Nat /\ This \in Nat /\ This = Len(audios) + 1
  BY Lengths
<1>1. CASE UNCHANGED vars
  BY <1>1 DEF vars, Progress, Kind, This
<1>2. CASE RefusePayload
  BY <1>2 DEF RefusePayload, BadRequest, Progress, recognizing, Decoder
<1>3. CASE CreateFile
  <2>1. /\ pc = "decode" /\ pc' = "write" /\ failure' = None
        /\ This <= Len(clips)
        /\ clips' = clips /\ audios' = audios /\ outcome' = outcome /\ results' = results
    BY ONLY <1>3 DEF CreateFile, recognizing
  <2>2. outcome = None /\ results = <<>>
    BY <2>1 DEF Progress, Decoder
  <2>3. Len(audios) < Len(clips)
    BY <1>0, <2>1
  <2> QED
    BY <2>1, <2>2, <2>3 DEF Progress, Decoder
<1>4. CASE WriteFile \/ WriteFails
  <2>1. /\ pc = "write" /\ UNCHANGED <<clips, audios, outcome, results>>
        /\ \/ pc' = "load" /\ failure' = failure
           \/ pc' = "finally" /\ failure' = "disk"
    BY <1>4 DEF WriteFile, WriteFails, recognizing
  <2>2. outcome = None /\ results = <<>> /\ failure = None /\ Len(audios) < Len(clips)
    BY <2>1 DEF Progress, Decoder
  <2> QED
    BY <2>1, <2>2 DEF Progress, Decoder
<1>5. CASE Load
  BY <1>0, <1>5 DEF Load, Progress, decoding, recognizing, Decoder, Kind, This, Convertible
<1>6. CASE Convert
  BY <1>0, <1>6 DEF Convert, Progress, recognizing, Decoder, Kind, This
<1>7. CASE Finally
  BY <1>0, <1>7 DEF Finally, Progress, recognizing, Decoder, Kind, This
<1>8. CASE Keep
  <2>1. /\ pc = "check" /\ pc' = "decode" /\ failure = None /\ Kind # "no samples"
        /\ audios' = Append(audios, This)
        /\ UNCHANGED <<clips, failure, outcome, results>>
    BY <1>8 DEF Keep, recognizing
  <2>2. audios' \in Seq(Nat) /\ Len(audios') = Len(audios) + 1
    BY <1>0, <2>1, AppendProperties DEF Progress
  <2>3. Len(audios) < Len(clips) /\ Kind \in Convertible
    BY <2>1 DEF Progress, Decoder
  <2>4. clips[This].kind \in {"wav", "webm"}
    BY <2>1, <2>3 DEF Kind, Convertible, Readable
  <2>5. \A i \in 1..Len(audios') : clips'[i].kind \in {"wav", "webm"}
    <3> SUFFICES ASSUME NEW i \in 1..Len(audios')
                 PROVE  clips[i].kind \in {"wav", "webm"}
      BY <2>1
    <3>1. i \in 1..Len(audios) \/ i = This
      BY <1>0, <2>2
    <3> QED
      BY <2>4, <3>1 DEF Progress
  <2>6. Len(audios') <= Len(clips)
    BY <1>0, <2>2, <2>3
  <2>7. outcome = None /\ results = <<>>
    BY <2>1 DEF Progress
  <2> QED
    BY <2>1, <2>2, <2>5, <2>6, <2>7 DEF Progress, Decoder
<1>9. CASE Refuse
  BY <1>0, <1>9 DEF Refuse, BadRequest, Progress, recognizing, Decoder
<1>10. CASE Decoded
  BY <1>0, <1>10 DEF Decoded, Progress, decoding, recognizing, Decoder
<1>11. CASE Open
  BY <1>0, <1>11 DEF Open, Progress, decoding, Decoder
<1>12. CASE DecodeStreams
  BY <1>12 DEF DecodeStreams, Progress, decoding, Decoder
<1>13. CASE Collect
  BY <1>0, <1>13 DEF Collect, Progress, decoding, Decoder
<1>14. CASE Respond
  BY <1>0, <1>14 DEF Respond, Progress, decoding, recognizing, Decoder
<1> QED
  BY <1>1, <1>2, <1>3, <1>4, <1>5, <1>6, <1>7, <1>8, <1>9, <1>10, <1>11, <1>12,
     <1>13, <1>14 DEF Next, Work, Over

LEMMA OneFileNext == Progress /\ OneFile /\ [Next]_vars => OneFile'
<1> SUFFICES ASSUME Progress, OneFile, [Next]_vars PROVE OneFile'
  OBVIOUS
<1> USE TranscriberAssumption
<1>0. This \in Nat
  BY Lengths
<1>1. CASE UNCHANGED vars
  BY <1>1 DEF vars, OneFile, This
<1>2. CASE RefusePayload \/ Refuse
  BY <1>2 DEF RefusePayload, Refuse, BadRequest, OneFile
<1>3. CASE CreateFile
  BY <1>3 DEF CreateFile, OneFile, This
<1>4. CASE WriteFile \/ WriteFails
  BY <1>4 DEF WriteFile, WriteFails, OneFile, This
<1>5. CASE Load
  BY <1>5 DEF Load, OneFile, This, decoding
<1>6. CASE Convert
  BY <1>6 DEF Convert, OneFile, This
<1>7. CASE Finally
  BY <1>0, <1>7 DEF Finally, OneFile
<1>8. CASE Keep
  BY <1>8 DEF Keep, OneFile
<1>9. CASE Decoded
  BY <1>9 DEF Decoded, OneFile, decoding
<1>10. CASE Open \/ DecodeStreams \/ Collect \/ Respond
  BY <1>10 DEF Open, DecodeStreams, Collect, Respond, OneFile, decoding
<1> QED
  BY <1>1, <1>2, <1>3, <1>4, <1>5, <1>6, <1>7, <1>8, <1>9, <1>10 DEF Next, Work, Over

LEMMA InvHolds == Spec => []Inv
<1>1. Inv /\ [Next]_vars => Inv'
  BY ProgressNext, OneFileNext DEF Inv
<1> QED
  BY <1>1, InitInv, PTL DEF Spec

-----------------------------------------------------------------------------
(***************************************************************************)
(* litapi.py's decode_request: one clip that cannot be decoded refuses the *)
(* request, and no transcript is made of any other.                        *)
(***************************************************************************)
THEOREM NoPartialAnswers == Spec => []AllOrNothing
<1>1. Inv => AllOrNothing
  <2> SUFFICES ASSUME Progress PROVE AllOrNothing
    BY DEF Inv
  <2>1. Len(clips) \in Nat
    BY Lengths
  <2>2. CASE outcome = "200"
    BY <2>1, <2>2 DEF Progress, AllOrNothing
  <2>3. CASE outcome # "200"
    BY <2>3, TranscriberAssumption DEF Progress, AllOrNothing
  <2> QED
    BY <2>2, <2>3
<1> QED
  BY <1>1, InvHolds, PTL

(***************************************************************************)
(* decode_base64_audio's finally: no temporary file survives its clip but  *)
(* one that could not be written.                                          *)
(***************************************************************************)
THEOREM TemporaryFilesGo == Spec => []OnlyFailedWritesLeave
<1>1. Inv => OnlyFailedWritesLeave
  BY DEF Inv, Progress, Decoder, OneFile, OnlyFailedWritesLeave, InDecoder
<1> QED
  BY <1>1, InvHolds, PTL

-----------------------------------------------------------------------------
(***************************************************************************)
(* The stream of a clip, from its opening: nothing of it was taken yet,    *)
(* and what comes last is the silence.                                     *)
(***************************************************************************)
Whole(s) == Stream(s) /\ s.from = 0 /\ Padded(s)

LEMMA OpenedWhole ==
  ASSUME NEW n \in Nat
  PROVE  Whole(AcceptWaveform(AcceptWaveform(Opened, Clipped(n)), Silence))
<1> DEFINE s == AcceptWaveform(Opened, Clipped(n))
<1>1. Clipped(n) \in [1..n -> Frame]
  BY DEF Clipped, Frame
<1>2. Clipped(n) \in Seq(Frame)
  BY <1>1, SequenceOf
<1>3. Longer(s, Opened, Clipped(n))
  BY <1>2, OpenedIs, Fed
<1> HIDE DEF s
<1>4. Stream(s) /\ s.from = 0
  BY <1>3, OpenedIs DEF Longer
<1>5. Longer(AcceptWaveform(s, Silence), s, Silence)
  BY <1>4, SilenceIs, Fed
<1>6. Padded(AcceptWaveform(s, Silence))
  BY <1>4, FedSilence
<1> QED
  BY <1>4, <1>5, <1>6 DEF Whole, Longer, s

LEMMA WholeDecoding ==
  ASSUME NEW s, Whole(s), IsReady(s)
  PROVE  Whole(DecodeStream(s))
<1>1. Stream(s) /\ s.from = 0 /\ Padded(s)
  BY DEF Whole
<1>2. Stream(DecodeStream(s)) /\ DecodeStream(s).heard = s.heard /\ DecodeStream(s).from = s.from
  BY <1>1, Decoding
<1> QED
  BY <1>1, <1>2 DEF Whole, Padded

\* What is collected of a stream that can be stepped no further is all of it.
LEMMA WholeHeard ==
  ASSUME NEW s, Whole(s), ~IsReady(s)
  PROVE  GetResult(s) = Words(s, 0, Len(s.heard))
<1>1. Stream(s) /\ s.from = 0 /\ Padded(s)
  BY DEF Whole
<1>2. 0 <= s.done
  BY <1>1, StreamFacts
<1>3. Words(s, 0, s.done) = Words(s, 0, Len(s.heard))
  BY <1>1, <1>2, Flushed
<1> QED
  BY <1>1, <1>3 DEF GetResult

-----------------------------------------------------------------------------
Fewer(m, n) == IF m <= n THEN m ELSE n

Transcript == Nat \X BOOLEAN \X BOOLEAN
FedStream == [clip : Nat, stream : Streams]

\* The batch from start on, each of its clips with a stream of its own.
OpenBatch ==
  /\ start < Len(audios)
  /\ streams \in Seq(FedStream)
  /\ Len(streams) = Fewer(BatchSize, Len(audios) - start)
  /\ \A i \in 1..Len(streams) : streams[i].clip = start + i /\ Whole(streams[i].stream)

(***************************************************************************)
(* The i-th waveform is of the i-th clip; the first start of them are      *)
(* transcribed, each by its place and whole; and the open streams are of   *)
(* those that follow.                                                      *)
(***************************************************************************)
Transcribed ==
  /\ \A i \in 1..Len(audios) : audios[i] = i
  /\ start \in Nat
  /\ pc \notin {"batch", "recognize"} /\ outcome # "200" => start = 0
  /\ results \in Seq(Transcript)
  /\ Len(results) = Fewer(start, Len(audios))
  /\ \A i \in 1..Len(results) : results[i] = <<i, TRUE, clips[i].speech>>
  /\ pc = "recognize" => OpenBatch
  /\ outcome = "200" => start >= Len(audios)

LEMMA InitTranscribed == Init => Transcribed
<1> SUFFICES ASSUME Init PROVE Transcribed
  OBVIOUS
<1>1. /\ pc = "decode" /\ start = 0 /\ audios = <<>> /\ results = <<>> /\ outcome = None
  BY DEF Init
<1>2. Len(audios) = 0 /\ Len(results) = 0 /\ results \in Seq(Transcript)
  BY <1>1, EmptySeq
<1> QED
  BY <1>1, <1>2, TranscriberAssumption DEF Transcribed, Fewer

\* The slice of the loop: the clips from start on, as many as fit a batch.
LEMMA BatchIs ==
  ASSUME BatchSize >= 1, Progress, start \in Nat, start < Len(audios),
         \A i \in 1..Len(audios) : audios[i] = i
  PROVE  /\ Len(Batch) = Fewer(BatchSize, Len(audios) - start) /\ Len(Batch) \in Nat
         /\ \A i \in 1..Len(Batch) : Batch[i] = start + i /\ start + i \in 1..Len(audios)
<1> DEFINE n == Len(audios)
           stop == IF start + BatchSize < n THEN start + BatchSize ELSE n
<1>1. n \in Nat /\ BatchSize \in Nat /\ audios \in Seq(Nat)
  BY Lengths, TranscriberAssumption DEF Progress
<1>2. ~(start + BatchSize < 0)
  BY <1>1
<1>3. Batch = SubSeq(audios, start + 1, stop)
  BY <1>2 DEF Batch
<1>4. /\ stop \in Nat /\ stop <= n /\ start + 1 <= stop /\ start + 1 \in Int /\ stop \in Int
      /\ stop - start = Fewer(BatchSize, n - start)
  BY <1>1 DEF Fewer
<1>5. \A i \in 1..n : audios[i] = i /\ i \in Nat
  BY <1>1
<1> HIDE DEF n, stop
<1>6. \A i \in (start + 1)..stop : audios[i] = i /\ audios[i] \in Nat /\ i \in 1..n
  BY <1>1, <1>4, <1>5
<1>7. /\ Len(Batch) = stop - (start + 1) + 1
      /\ \A i \in 1..stop - (start + 1) + 1 : Batch[i] = audios[start + 1 + i - 1]
  BY <1>3, <1>4, <1>6, SubSeqProperties
<1>8. Len(Batch) = stop - start /\ Len(Batch) \in Nat
  BY <1>4, <1>7
<1>9. ASSUME NEW i \in 1..Len(Batch)
      PROVE  Batch[i] = start + i /\ start + i \in 1..n
  <2>1. /\ i \in 1..stop - (start + 1) + 1 /\ start + 1 + i - 1 = start + i
        /\ start + i \in (start + 1)..stop
    BY <1>4, <1>8
  <2>2. Batch[i] = audios[start + i]
    BY <1>7, <2>1
  <2> QED
    BY <1>6, <2>1, <2>2
<1> QED
  BY <1>4, <1>8, <1>9 DEF n

\* Opening the streams of a batch.
LEMMA OpenOpens ==
  ASSUME BatchSize >= 1, Progress, Transcribed, Open
  PROVE  OpenBatch'
<1>1. /\ pc = "batch" /\ start < Len(audios) /\ start' = start /\ audios' = audios
      /\ \E size \in [1..Len(Batch) -> 0..MaxWords] :
           streams' = [i \in 1..Len(Batch) |->
             [clip |-> Batch[i],
              stream |-> AcceptWaveform(AcceptWaveform(Opened, Clipped(size[i])), Silence)]]
  BY DEF Open, decoding
<1>2. start \in Nat /\ \A i \in 1..Len(audios) : audios[i] = i
  BY DEF Transcribed
<1>3. /\ Len(Batch) = Fewer(BatchSize, Len(audios) - start) /\ Len(Batch) \in Nat
      /\ \A i \in 1..Len(Batch) : Batch[i] = start + i /\ start + i \in 1..Len(audios)
  BY <1>1, <1>2, BatchIs
<1>4. PICK n \in Nat : n = Len(Batch)
  BY <1>3
<1>5. PICK size \in [1..n -> 0..MaxWords] :
        streams' = [i \in 1..n |->
          [clip |-> Batch[i],
           stream |-> AcceptWaveform(AcceptWaveform(Opened, Clipped(size[i])), Silence)]]
  BY <1>1, <1>4
<1>6. ASSUME NEW i \in 1..n
      PROVE  /\ streams'[i] \in FedStream
             /\ streams'[i].clip = start + i /\ Whole(streams'[i].stream)
  <2>1. size[i] \in Nat
    BY TranscriberAssumption
  <2> DEFINE t == AcceptWaveform(AcceptWaveform(Opened, Clipped(size[i])), Silence)
  <2>2. Whole(t)
    BY <2>1, OpenedWhole
  <2>3. streams'[i] = [clip |-> Batch[i], stream |-> t]
    BY <1>5
  <2>4. Batch[i] = start + i /\ start + i \in Nat
    BY <1>2, <1>3, <1>4
  <2> HIDE DEF t
  <2>5. t \in Streams
    BY <2>2 DEF Whole, Stream
  <2> QED
    BY <2>2, <2>3, <2>4, <2>5 DEF FedStream
<1>7. streams' \in [1..n -> FedStream]
  BY <1>5, <1>6
<1>8. streams' \in Seq(FedStream) /\ Len(streams') = n
  BY <1>7, SequenceOf
<1> QED
  BY <1>1, <1>3, <1>4, <1>6, <1>8 DEF OpenBatch

\* A step of decode_streams.
LEMMA DecodeKeeps ==
  ASSUME OpenBatch, DecodeStreams
  PROVE  OpenBatch'
<1>1. /\ start' = start /\ audios' = audios
      /\ streams' = [i \in 1..Len(streams) |->
           IF i \in Ready THEN [streams[i] EXCEPT !.stream = DecodeStream(@)] ELSE streams[i]]
  BY DEF DecodeStreams, decoding
<1>2. streams \in Seq(FedStream) /\ Len(streams) \in Nat
  BY LenProperties DEF OpenBatch
<1>3. PICK n \in Nat : n = Len(streams)
  BY <1>2
<1>4. ASSUME NEW i \in 1..n
      PROVE  /\ streams'[i] \in FedStream
             /\ streams'[i].clip = start + i /\ Whole(streams'[i].stream)
  <2>1. /\ streams[i] \in FedStream
        /\ streams[i].clip = start + i /\ Whole(streams[i].stream)
    BY <1>2, <1>3, ElementOfSeq DEF OpenBatch
  <2>2. CASE i \in Ready
    <3> DEFINE t == DecodeStream(streams[i].stream)
    <3>1. IsReady(streams[i].stream)
      BY <2>2 DEF Ready
    <3>2. Whole(t)
      BY <2>1, <3>1, WholeDecoding
    <3>3. streams'[i] = [streams[i] EXCEPT !.stream = t]
      BY <1>1, <1>3, <2>2
    <3> HIDE DEF t
    <3>4. t \in Streams
      BY <3>2 DEF Whole, Stream
    <3> QED
      BY <2>1, <3>2, <3>3, <3>4 DEF FedStream
  <2>3. CASE i \notin Ready
    BY <1>1, <1>3, <2>1, <2>3
  <2> QED
    BY <2>2, <2>3
<1>5. streams' \in [1..n -> FedStream]
  BY <1>1, <1>3, <1>4
<1>6. streams' \in Seq(FedStream) /\ Len(streams') = n
  BY <1>5, SequenceOf
<1> QED
  BY <1>1, <1>3, <1>4, <1>6 DEF OpenBatch

\* The transcripts of a batch follow those there are, each by its place.
LEMMA CollectAppends ==
  ASSUME BatchSize >= 1, Progress, Transcribed, Collect
  PROVE  /\ results' \in Seq(Transcript)
         /\ start' \in Nat
         /\ Len(results') = Fewer(start', Len(audios))
         /\ \A i \in 1..Len(results') : results'[i] = <<i, TRUE, clips[i].speech>>
<1>1. /\ pc = "recognize" /\ Ready = {} /\ start' = start + Stride
      /\ results' = results \o [i \in 1..Len(streams) |-> Heard(streams[i])]
  BY DEF Collect
<1>2. OpenBatch /\ start \in Nat /\ results \in Seq(Transcript)
  BY <1>1 DEF Transcribed
<1>3. /\ start < Len(audios) /\ Len(audios) = Len(clips) /\ Len(audios) \in Nat
      /\ Len(clips) \in Nat
  BY <1>1, <1>2, Lengths DEF OpenBatch, Progress
<1>4. Stride = BatchSize /\ BatchSize \in Nat
  BY TranscriberAssumption DEF Stride
<1>5. Len(results) = start
  BY <1>2, <1>3 DEF Transcribed, Fewer
<1>6. streams \in Seq(FedStream) /\ Len(streams) \in Nat
  BY <1>2, LenProperties DEF OpenBatch
<1>7. PICK n \in Nat : n = Len(streams) /\ n = Fewer(BatchSize, Len(audios) - start)
  BY <1>2, <1>6 DEF OpenBatch
<1> DEFINE h == [i \in 1..n |-> Heard(streams[i])]
<1>8. ASSUME NEW i \in 1..n
      PROVE  /\ start + i \in 1..Len(clips)
             /\ h[i] = <<start + i, TRUE, clips[start + i].speech>>
             /\ h[i] \in Transcript
  <2>1. streams[i].clip = start + i /\ Whole(streams[i].stream)
    BY <1>2, <1>7 DEF OpenBatch
  <2>2. ~IsReady(streams[i].stream)
    BY <1>1, <1>7 DEF Ready
  <2>3. GetResult(streams[i].stream) = Words(streams[i].stream, 0, Len(streams[i].stream.heard))
    BY <2>1, <2>2, WholeHeard
  <2>4. h[i] = <<start + i, TRUE, clips[start + i].speech>>
    BY <2>1, <2>3 DEF Heard
  <2>5. start + i \in 1..Len(clips) /\ start + i \in Nat
    BY <1>2, <1>3, <1>4, <1>7 DEF Fewer
  <2>6. clips[start + i].speech \in BOOLEAN
    <3>1. PICK k \in Nat : clips \in [1..k -> Clip]
      BY DEF Progress
    <3>2. Len(clips) = k
      BY <3>1, SequenceOf
    <3>3. clips[start + i] \in Clip
      BY <2>5, <3>1, <3>2
    <3> QED
      BY <3>3 DEF Clip
  <2> HIDE DEF h
  <2>7. <<start + i, TRUE, clips[start + i].speech>> \in Transcript
    BY <2>5, <2>6, ZenonT(30) DEF Transcript
  <2> QED
    BY <2>4, <2>5, <2>7
<1>9. results' = results \o h
  BY <1>1, <1>7
<1>10. h \in Seq(Transcript) /\ Len(h) = n
  <2>1. h \in [1..n -> Transcript]
    BY <1>8
  <2> HIDE DEF h
  <2> QED
    BY <2>1, SequenceOf
<1> HIDE DEF h
<1>11. /\ results' \in Seq(Transcript)
       /\ Len(results') = start + n
       /\ \A i \in 1..start + n :
            results'[i] = IF i <= start THEN results[i] ELSE h[i - start]
  <2>1. /\ results \o h \in Seq(Transcript)
        /\ Len(results \o h) = Len(results) + Len(h)
        /\ \A i \in 1..Len(results) + Len(h) :
             (results \o h)[i] = IF i <= Len(results) THEN results[i] ELSE h[i - Len(results)]
    BY <1>2, <1>10, ConcatProperties
  <2> QED
    BY <1>5, <1>9, <1>10, <2>1
<1>12. start' \in Nat /\ start + n = Fewer(start', Len(audios))
  BY <1>1, <1>2, <1>3, <1>4, <1>7 DEF Fewer
<1>13. ASSUME NEW i \in 1..Len(results')
       PROVE  results'[i] = <<i, TRUE, clips[i].speech>>
  <2>1. i \in 1..start + n
    BY <1>11
  <2>2. CASE i <= start
    <3>1. i \in 1..Len(results)
      BY <1>5, <2>1, <2>2
    <3> QED
      BY <1>11, <2>1, <2>2, <3>1 DEF Transcribed
  <2>3. CASE ~(i <= start)
    <3>1. i - start \in 1..n /\ start + (i - start) = i
      BY <1>2, <2>1, <2>3
    <3>2. h[i - start] = <<start + (i - start), TRUE, clips[start + (i - start)].speech>>
      BY <1>8, <3>1
    <3> QED
      BY <1>11, <2>1, <2>3, <3>1, <3>2
  <2> QED
    BY <2>2, <2>3
<1> QED
  BY <1>11, <1>12, <1>13

LEMMA TranscribedNext ==
  ASSUME BatchSize >= 1
  PROVE  Progress /\ Transcribed /\ [Next]_vars => Transcribed'
<1> SUFFICES ASSUME Progress, Transcribed, [Next]_vars PROVE Transcribed'
  OBVIOUS
<1>0. Len(clips) \in Nat /\ Len(audios) \in Nat /\ This = Len(audios) + 1
  BY Lengths
\* A step of the decoder transcribes nothing, and keeps what it decoded.
<1>a. ASSUME clips' = clips, UNCHANGED audios, UNCHANGED recognizing,
             pc \notin {"batch", "recognize"}, pc' # "recognize", pc # "over",
             outcome' # "200"
      PROVE  Transcribed'
  <2>1. outcome # "200" /\ start = 0
    BY <1>a, TranscriberAssumption DEF Progress, Transcribed
  <2> QED
    BY <1>a, <2>1 DEF Transcribed, recognizing
<1>1. CASE UNCHANGED vars
  BY <1>1 DEF vars, Transcribed, OpenBatch
<1>2. CASE \/ RefusePayload \/ CreateFile \/ WriteFile \/ WriteFails \/ Load \/ Convert
           \/ Finally \/ Refuse \/ Decoded
  <2>1. /\ clips' = clips /\ UNCHANGED audios /\ UNCHANGED recognizing
        /\ pc \notin {"batch", "recognize"} /\ pc' # "recognize" /\ pc # "over"
        /\ outcome' = outcome \/ outcome' = "400"
    BY <1>2 DEF RefusePayload, CreateFile, WriteFile, WriteFails, Load, Convert, Finally,
                Refuse, Decoded, BadRequest, decoding
  <2>2. outcome' # "200"
    BY <2>1, TranscriberAssumption DEF Progress
  <2> QED
    BY <1>a, <2>1, <2>2
<1>3. CASE Keep
  <2>1. /\ pc = "check" /\ pc' = "decode" /\ audios' = Append(audios, This)
        /\ clips' = clips /\ outcome' = outcome /\ UNCHANGED recognizing
    BY <1>3 DEF Keep
  <2>2. outcome = None /\ start = 0
    BY <2>1, TranscriberAssumption DEF Progress, Transcribed
  <2>3. /\ Len(audios') = Len(audios) + 1
        /\ \A i \in 1..Len(audios) : audios'[i] = audios[i]
        /\ audios'[Len(audios) + 1] = This
    <3>1. audios \in Seq(Nat) /\ This \in Nat
      BY <1>0 DEF Progress
    <3> QED
      BY <2>1, <3>1, OneMore
  <2>4. \A i \in 1..Len(audios') : audios'[i] = i
    <3> SUFFICES ASSUME NEW i \in 1..Len(audios') PROVE audios'[i] = i
      OBVIOUS
    <3>1. i \in 1..Len(audios) \/ i = Len(audios) + 1
      BY <1>0, <2>3
    <3> QED
      BY <1>0, <2>3, <3>1 DEF Transcribed
  <2>5. Len(results) = Fewer(start, Len(audios'))
    BY <1>0, <2>2, <2>3 DEF Transcribed, Fewer
  <2> QED
    BY <2>1, <2>2, <2>4, <2>5, TranscriberAssumption DEF Transcribed, recognizing
<1>4. CASE Open
  <2>1. OpenBatch'
    BY <1>4, OpenOpens
  <2>2. /\ pc = "batch" /\ pc' = "recognize"
        /\ UNCHANGED <<clips, audios, start, results, outcome>>
    BY <1>4 DEF Open, decoding
  <2> QED
    BY <2>1, <2>2 DEF Transcribed
<1>5. CASE DecodeStreams
  <2>1. /\ pc = "recognize" /\ pc' = pc
        /\ UNCHANGED <<clips, audios, start, results, outcome>>
    BY <1>5 DEF DecodeStreams, decoding
  <2>2. OpenBatch'
    BY <1>5, <2>1, DecodeKeeps DEF Transcribed
  <2> QED
    BY <2>1, <2>2 DEF Transcribed
<1>6. CASE Collect
  <2>1. /\ pc = "recognize" /\ pc' = "batch" /\ UNCHANGED <<clips, audios, outcome>>
    BY <1>6 DEF Collect, decoding
  <2>2. /\ results' \in Seq(Transcript) /\ start' \in Nat
        /\ Len(results') = Fewer(start', Len(audios))
        /\ \A i \in 1..Len(results') : results'[i] = <<i, TRUE, clips[i].speech>>
    BY <1>6, CollectAppends
  <2>3. outcome' # "200"
    BY <2>1, TranscriberAssumption DEF Progress
  <2> QED
    BY <2>1, <2>2, <2>3 DEF Transcribed
<1>7. CASE Respond
  BY <1>7 DEF Respond, Transcribed, decoding, recognizing
<1> QED
  BY <1>1, <1>2, <1>3, <1>4, <1>5, <1>6, <1>7 DEF Next, Work, Over

(***************************************************************************)
(* ZipformerEngine.transcribe, for batches of at least one clip: the i-th  *)
(* transcript of an answer is of the i-th clip of the request, and of all  *)
(* of it, however many batches there were and however long their streams   *)
(* took.                                                                   *)
(***************************************************************************)
THEOREM ClipsAreTranscribed ==
  ASSUME BatchSize >= 1
  PROVE  Spec => []OneTranscriptPerClip
<1>1. Transcribed /\ Progress /\ [Next]_vars => Transcribed' /\ Progress'
  BY TranscribedNext, ProgressNext
<1>2. Init => Transcribed /\ Progress
  BY InitTranscribed, InitInv DEF Inv
<1>3. Transcribed /\ Progress => OneTranscriptPerClip
  <2> SUFFICES ASSUME Transcribed, Progress, outcome = "200"
               PROVE  /\ Len(results) = Len(clips)
                      /\ \A i \in 1..Len(results) : results[i] = <<i, TRUE, clips[i].speech>>
    BY DEF OneTranscriptPerClip
  <2>1. Len(audios) = Len(clips) /\ Len(audios) \in Nat
    BY Lengths DEF Progress
  <2>2. start \in Nat /\ start >= Len(audios) /\ Len(results) = Fewer(start, Len(audios))
    BY DEF Transcribed
  <2>3. Len(results) = Len(clips)
    BY <2>1, <2>2 DEF Fewer
  <2> QED
    BY <2>3 DEF Transcribed
<1> QED
  BY <1>1, <1>2, <1>3, PTL DEF Spec
=============================================================================
