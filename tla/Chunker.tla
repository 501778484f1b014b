------------------------------- MODULE Chunker -------------------------------
(***************************************************************************)
(* IncrementalTextChunker of src/litserver/parler/chunking.py: text arrives *)
(* in deltas and leaves in clauses that are short enough to be spoken.     *)
(*                                                                         *)
(* A character is told from another by what the chunker makes of it only:   *)
(* whether it ends a clause, strongly or softly, whether it is white space, *)
(* and whether a clause that is too long may be cut at it.  A turn of the   *)
(* loop of _extract is one action, so that it can be seen to end.           *)
(*                                                                         *)
(*   buffer   _buffer, what no clause was made of yet                      *)
(*   chunks   the clauses returned since the start or the last clear       *)
(*   pc       "idle" between calls, otherwise the call whose loop runs     *)
(*   fed      all that was fed since the start or the last clear           *)
(*   feeds    in how many deltas                                           *)
(***************************************************************************)
EXTENDS Integers, Sequences, SequencesExt

CONSTANTS
  Char,
  Strong,    \* STRONG_BOUNDARIES
  Soft,      \* SOFT_BOUNDARIES
  White,     \* what str.strip strips
  Blank,     \* the space and the tab of _hard_split
  MaxChars,  \* max_chars
  SoftChars, \* min_soft_chars, as the constructor is given it
  Deltas,    \* what a caller may feed
  MaxFeeds   \* and how often, without a clear: the bound of the model

\* "max_chars must be at least 16"; a newline is both strong and white.
ASSUME ChunkerAssumption ==
  /\ Strong \subseteq Char /\ Soft \subseteq Char
  /\ White \subseteq Char /\ Blank \subseteq White
  /\ MaxChars \in Nat /\ MaxChars >= 16
  /\ SoftChars \in Nat
  /\ Deltas \subseteq Seq(Char)
  /\ MaxFeeds \in Nat

MinSoft == IF SoftChars < MaxChars THEN SoftChars ELSE MaxChars

VARIABLES buffer, chunks, pc, fed, feeds

chunkerVars == <<buffer, chunks, pc, fed, feeds>>

ChunkerInit ==
  /\ buffer = <<>> /\ chunks = <<>> /\ pc = "idle"
  /\ fed = <<>> /\ feeds = 0

\* How many characters str.lstrip takes off, and str.rstrip leaves.
Leading(s) ==
  CHOOSE n \in 0..Len(s) : /\ \A i \in 1..n : s[i] \in White
                           /\ n < Len(s) => s[n + 1] \notin White
Trimmed(s) ==
  CHOOSE n \in 0..Len(s) : /\ \A i \in (n + 1)..Len(s) : s[i] \in White
                           /\ n > 0 => s[n] \notin White

Lstrip(s) == SubSeq(s, Leading(s) + 1, Len(s))
Strip(s) == Lstrip(SubSeq(s, 1, Trimmed(s)))

\* Bugs to be caught: soft boundaries are taken wherever they are; a boundary
\* is looked for in the whole buffer.
LastBoundaries(b) ==
  LET all == {i \in 1..Len(b) : i <= MaxChars /\ b[i] \in Strong \cup Soft}
  IN  {i \in all : \A j \in all : j <= i}

BoundariesAnywhere(b) ==
  {i \in 1..Len(b) : b[i] \in Strong \/ (b[i] \in Soft /\ i >= MinSoft)}

\* Where _find_boundary may cut: it takes the first place.
Boundaries(b) ==
  {i \in 1..Len(b) : /\ i <= MaxChars
                     /\ b[i] \in Strong \/ (b[i] \in Soft /\ i >= MinSoft)}

\* _hard_split: before the last blank that leaves something before it.
HardSplitAtBlanks(b) ==  \* a bug to be caught: ... or at all
  LET blanks == {i \in 2..Len(b) : i <= MaxChars + 1 /\ b[i] \in Blank}
  IN  IF blanks = {} THEN 0
      ELSE (CHOOSE i \in blanks : \A j \in blanks : j <= i) - 1

HardSplit(b) ==
  LET blanks == {i \in 2..Len(b) : i <= MaxChars + 1 /\ b[i] \in Blank}
  IN  IF blanks = {} THEN MaxChars
      ELSE (CHOOSE i \in blanks : \A j \in blanks : j <= i) - 1

Emit(end) ==
  LET chunk == Strip(SubSeq(buffer, 1, end))
  IN  /\ chunks' = IF chunk = <<>> THEN chunks ELSE Append(chunks, chunk)
      /\ buffer' = Lstrip(SubSeq(buffer, end + 1, Len(buffer)))

-----------------------------------------------------------------------------
Feed(delta) ==
  /\ pc = "idle"
  /\ buffer' = buffer \o delta
  /\ fed' = fed \o delta
  /\ feeds' = feeds + 1
  /\ pc' = "feed"
  /\ UNCHANGED chunks

\* flush is _extract(force=True), and then the buffer is cleared.
Flush ==
  /\ pc = "idle"
  /\ pc' = "flush"
  /\ UNCHANGED <<buffer, chunks, fed, feeds>>

\* What clear throws away is nobody's loss: the account starts afresh.
Clear ==
  /\ pc = "idle"
  /\ buffer' = <<>> /\ chunks' = <<>> /\ fed' = <<>> /\ feeds' = 0
  /\ UNCHANGED pc

\* One turn of the loop: a clause is cut off at its boundary, or because it is
\* too long.
CutClause ==
  /\ pc # "idle"
  /\ Boundaries(buffer) # {}
  /\ \E i \in Boundaries(buffer) : (\A j \in Boundaries(buffer) : i <= j) /\ Emit(i)
  /\ UNCHANGED <<pc, fed, feeds>>

CutHard ==
  /\ pc # "idle"
  /\ Boundaries(buffer) = {}
  /\ Len(buffer) >= MaxChars
  /\ Emit(HardSplit(buffer))
  /\ UNCHANGED <<pc, fed, feeds>>

\* Bugs to be caught: the loop stops one character late; flush returns what the
\* loop found and forgets the rest.
ReturnLate ==
  /\ pc # "idle"
  /\ Boundaries(buffer) = {} /\ Len(buffer) <= MaxChars
  /\ IF pc = "flush"
     THEN /\ chunks' = IF Strip(buffer) = <<>> THEN chunks
                       ELSE Append(chunks, Strip(buffer))
          /\ buffer' = <<>>
     ELSE UNCHANGED <<chunks, buffer>>
  /\ pc' = "idle"
  /\ UNCHANGED <<fed, feeds>>

ReturnDropping ==
  /\ pc # "idle"
  /\ Boundaries(buffer) = {} /\ Len(buffer) < MaxChars
  /\ IF pc = "flush" THEN buffer' = <<>> ELSE UNCHANGED buffer
  /\ pc' = "idle"
  /\ UNCHANGED <<chunks, fed, feeds>>

\* The loop is over: feed keeps the rest, flush returns it as the last clause.
Return ==
  /\ pc # "idle"
  /\ Boundaries(buffer) = {} /\ Len(buffer) < MaxChars
  /\ IF pc = "flush"
     THEN /\ chunks' = IF Strip(buffer) = <<>> THEN chunks
                       ELSE Append(chunks, Strip(buffer))
          /\ buffer' = <<>>
     ELSE UNCHANGED <<chunks, buffer>>
  /\ pc' = "idle"
  /\ UNCHANGED <<fed, feeds>>

Runs == CutClause \/ CutHard \/ Return

ChunkerNext ==
  \/ \E delta \in Deltas : feeds < MaxFeeds /\ Feed(delta)
  \/ Flush \/ Clear \/ Runs

ChunkerSpec == ChunkerInit /\ [][ChunkerNext]_chunkerVars

\* A call that has begun runs on.
FairChunker == ChunkerSpec /\ WF_chunkerVars(Runs)

-----------------------------------------------------------------------------
ChunkerTypeOK ==
  /\ buffer \in Seq(Char) /\ fed \in Seq(Char)
  /\ chunks \in Seq(Seq(Char)) /\ feeds \in Nat
  /\ pc \in {"idle", "feed", "flush"}

\* The characters that are to be heard.
Visible(s) ==
  FlattenSeq([i \in 1..Len(s) |-> IF s[i] \in White THEN <<>> ELSE <<s[i]>>])

(***************************************************************************)
(* Cutting text up changes nothing but white space: what was returned and  *)
(* what is still pending is, in order, what was fed.                       *)
(***************************************************************************)
NothingIsLost == Visible(FlattenSeq(chunks)) \o Visible(buffer) = Visible(fed)

(***************************************************************************)
(* "Turn arbitrary text deltas into bounded, speakable clauses": no clause *)
(* is longer than max_chars, empty, or padded with white space.            *)
(***************************************************************************)
ClausesFit ==
  \A i \in 1..Len(chunks) :
    LET c == chunks[i]
    IN  Len(c) \in 1..MaxChars /\ c[1] \notin White /\ c[Len(c)] \notin White

(***************************************************************************)
(* A sentence never runs on into the next: a strong boundary is where a    *)
(* clause ends, so the pause the engine puts between clauses falls there.  *)
(***************************************************************************)
SentencesEnd ==
  \A i \in 1..Len(chunks) : \A j \in 1..(Len(chunks[i]) - 1) :
    chunks[i][j] \notin Strong

(***************************************************************************)
(* Between two calls less than max_chars is pending, and none of it could  *)
(* have been spoken already.                                               *)
(***************************************************************************)
PendingIsShort ==
  pc = "idle" => Len(buffer) < MaxChars /\ Boundaries(buffer) = {}

(***************************************************************************)
(* The loop of _extract ends, so every call returns.                       *)
(***************************************************************************)
CallsEnd == pc # "idle" ~> pc = "idle"

=============================================================================
