-------------------------- MODULE SpeechServiceProofs --------------------------
(***************************************************************************)
(* What is proved of SpeechRoute for every set of requests and texts, every *)
(* length of a take and every cap, as long as the transport is Faithful: a  *)
(* take that breaks off is reported as an error.  And of SpeechService for  *)
(* every number of workers and every timeout, as long as the margin of the  *)
(* gateway's timeout is more than the two ways a request and its answer     *)
(* travel.                                                                  *)
(***************************************************************************)
EXTENDS SpeechService, SequenceFacts

Parts == Requests \X (1..MaxParts)

(***************************************************************************)
(* A body of n parts of one take is a sequence of parts, of length n.       *)
(***************************************************************************)
LEMMA PartsSequence ==
  ASSUME NEW q \in Requests, NEW n \in 0..MaxParts
  PROVE  /\ [i \in 1..n |-> <<q, i>>] \in Seq(Parts)
         /\ Len([i \in 1..n |-> <<q, i>>]) = n
<1> DEFINE b == [i \in 1..n |-> <<q, i>>]
<1>1. MaxParts \in Nat /\ n \in Nat
  BY RouteAssumption
<1>2. b \in [1..n -> Parts]
  BY <1>1 DEF Parts
<1>3. DOMAIN b = 1..n
  OBVIOUS
<1> HIDE DEF b
<1>4. b \in Seq(Parts)
  BY <1>1, <1>2, SeqDef
<1>5. Len(b) \in Nat /\ DOMAIN b = 1..Len(b)
  BY <1>4, LenProperties
<1>6. Len(b) = n
  BY <1>1, <1>3, <1>5
<1> QED
  BY <1>4, <1>6 DEF b

(***************************************************************************)
(* The next part extends such a body by one.                                *)
(***************************************************************************)
LEMMA NextPart ==
  ASSUME NEW q \in Requests, NEW b \in Seq(Parts), Len(b) < MaxParts,
         b = [i \in 1..Len(b) |-> <<q, i>>]
  PROVE  LET c == Append(b, <<q, Len(b) + 1>>)
         IN  /\ c \in Seq(Parts) /\ Len(c) = Len(b) + 1
             /\ c = [i \in 1..Len(c) |-> <<q, i>>]
<1> DEFINE n == Len(b)
           e == <<q, n + 1>>
           c == Append(b, e)
<1>1. MaxParts \in Nat /\ n \in Nat
  BY RouteAssumption, LenProperties
<1>2. e \in Parts
  BY <1>1 DEF Parts
<1>3. \A i \in 1..n : b[i] = <<q, i>>
  OBVIOUS
<1> HIDE DEF n, e
<1>4. /\ c \in Seq(Parts) /\ Len(c) = n + 1
      /\ \A i \in 1..n : c[i] = b[i]
      /\ c[n + 1] = e
  BY <1>1, <1>2, AppendProperties DEF n
<1>5. \A i \in 1..(n + 1) : c[i] = <<q, i>>
  BY <1>1, <1>3, <1>4 DEF e
<1>6. DOMAIN c = 1..(n + 1)
  BY <1>4, LenProperties
<1>7. c = [i \in 1..(n + 1) |-> c[i]]
  BY <1>4, <1>6, LenProperties
<1>8. c = [i \in 1..(n + 1) |-> <<q, i>>]
  BY <1>5, <1>7
<1> QED
  BY <1>4, <1>8 DEF n, e

-----------------------------------------------------------------------------
(***************************************************************************)
(* How many entries an eviction pops is a number, at most all of them: a   *)
(* cache without entries holds no audio.                                   *)
(***************************************************************************)
LEMMA ExcessType ==
  ASSUME NEW q \in Seq(Keys), NEW h
  PROVE  Excess(q, h) \in 0..Len(q)
<1> DEFINE N == {n \in 0..Len(q) : BytesIn(Only(h, Newest(q, n))) > MaxBytes}
<1>1. Len(q) \in Nat
  BY LenProperties
<1>2. Len(q) \notin N
  <2>1. Newest(q, Len(q)) = <<>>
    <3>1. SubSeq(q, Len(q) + 1, Len(q)) = <<>>
      BY <1>1, SubSeqEmpty
    <3> QED
      BY <3>1 DEF Newest
  <2>2. \A k \in Keys : Only(h, Newest(q, Len(q)))[k] = None
    BY <2>1 DEF Only, ToSet
  <2>3. AudioOf(Only(h, Newest(q, Len(q)))) = {}
    BY <2>2 DEF AudioOf
  <2>4. BytesIn(Only(h, Newest(q, Len(q)))) = 0
    BY <2>3, FS_EmptySet DEF BytesIn
  <2> QED
    BY <2>4, SpeechAssumption
<1>3. N \in SUBSET (0..Len(q))
  OBVIOUS
<1> HIDE DEF N
<1> QED
  BY <1>1, <1>2, <1>3, CountBelow DEF Excess, N

(***************************************************************************)
(* A lookup changes neither what is held nor the shape of the cache.       *)
(***************************************************************************)
LEMMA AfterGetProperties ==
  ASSUME NEW c \in Cache, NEW k \in Keys, Distinct(c.order)
  PROVE  /\ AfterGet(c, k) \in Cache /\ Distinct(AfterGet(c, k).order)
         /\ AfterGet(c, k).held = c.held
<1>1. CASE c.held[k] = None
  BY <1>1 DEF AfterGet, Cache
<1>2. CASE c.held[k] # None
  <2>1. MoveToEnd(c.order, k) \in Seq(Keys) /\ Distinct(MoveToEnd(c.order, k))
    <3>1. c.order \in Seq(Keys)
      BY DEF Cache
    <3> QED
      BY <3>1, MoveToEndProperties DEF Distinct, NoRepeats, MoveToEnd
  <2> DEFINE line == MoveToEnd(c.order, k)
  <2>2. AfterGet(c, k) = [c EXCEPT !.order = line, !.hits = c.hits + 1]
    BY <1>2 DEF AfterGet, Cache
  <2>3. line \in Seq(Keys) /\ Distinct(line) /\ c.hits + 1 \in Nat
    BY <2>1 DEF Cache
  <2> HIDE DEF line
  <2>4. /\ AfterGet(c, k) \in Cache /\ AfterGet(c, k).order = line
        /\ AfterGet(c, k).held = c.held
    BY <2>2, <2>3 DEF Cache
  <2> QED
    BY <2>3, <2>4
<1> QED
  BY <1>1, <1>2

(***************************************************************************)
(* A put stores its own reply or nothing under its key, and under every    *)
(* other key what was there before or nothing.                             *)
(***************************************************************************)
LEMMA AfterPutProperties ==
  ASSUME NEW c \in Cache, NEW k \in Keys, NEW s \in Speech, Distinct(c.order)
  PROVE  /\ AfterPut(c, k, s) \in Cache /\ Distinct(AfterPut(c, k, s).order)
         /\ \A x \in Keys :
              LET now == AfterPut(c, k, s).held[x]
              IN  now # None => now = c.held[x] \/ (x = k /\ now = s)
<1>1. CASE NBytes[s] > MaxBytes
  <2>1. AfterPut(c, k, s) = [c EXCEPT !.rejections = c.rejections + 1]
    BY <1>1 DEF AfterPut
  <2>2. /\ AfterPut(c, k, s) \in Cache /\ AfterPut(c, k, s).order = c.order
        /\ AfterPut(c, k, s).held = c.held
    BY <2>1 DEF Cache
  <2> QED
    BY <2>2
<1>2. CASE ~(NBytes[s] > MaxBytes)
  <2> DEFINE line == MoveToEnd(c.order, k)
             stored == [c.held EXCEPT ![k] = s]
             d == [c EXCEPT !.order = line, !.held = stored]
             n == Excess(line, stored)
             rest == Newest(line, n)
  <2>1. line \in Seq(Keys) /\ Distinct(line)
    <3>1. c.order \in Seq(Keys)
      BY DEF Cache
    <3> QED
      BY <3>1, MoveToEndProperties DEF Distinct, NoRepeats, MoveToEnd
  <2>2. /\ d \in Cache /\ d.order = line /\ d.held = stored
        /\ d.evictions \in Nat
    BY <2>1 DEF Cache
  <2>3. AfterPut(c, k, s) = Shrunk(d)
    BY <1>2 DEF AfterPut, Stored
  <2> HIDE DEF line, d
  <2>4. n \in Nat /\ rest \in Seq(Keys) /\ Distinct(rest)
    <3>1. n \in 0..Len(line)
      BY <2>1, ExcessType
    <3>2. Len(line) \in Nat
      BY <2>1, LenProperties
    <3> HIDE DEF n, stored
    <3> QED
      BY <2>1, <3>1, <3>2, SuffixDistinct DEF Distinct, NoRepeats, Newest, rest
  <2>5. Shrunk(d) = [d EXCEPT !.order = rest, !.held = Only(stored, rest),
                              !.evictions = d.evictions + n]
    BY <2>2 DEF Shrunk, Cache
  <2>6. Only(stored, rest) \in [Keys -> Speech \cup {None}]
    BY DEF Only, Cache
  <2>7. \A x \in Keys : Only(stored, rest)[x] # None =>
          Only(stored, rest)[x] = IF x = k THEN s ELSE c.held[x]
    BY DEF Only, Cache
  <2>10. d.evictions + n \in Nat
    BY <2>2, <2>4
  <2> DEFINE kept == Only(stored, rest)
             total == d.evictions + n
  <2> HIDE DEF n, rest, stored, kept, total
  <2>8. /\ Shrunk(d) \in Cache /\ Shrunk(d).order = rest
        /\ Shrunk(d).held = Only(stored, rest)
    <3>1. kept \in [Keys -> Speech \cup {None}] /\ total \in Nat
      BY <2>6, <2>10 DEF kept, total
    <3>2. Shrunk(d) = [d EXCEPT !.order = rest, !.held = kept, !.evictions = total]
      BY <2>5 DEF kept, total
    <3> QED
      BY <2>2, <2>4, <3>1, <3>2 DEF Cache, kept
  <2>9. \A x \in Keys :
          LET now == AfterPut(c, k, s).held[x]
          IN  now # None => now = c.held[x] \/ (x = k /\ now = s)
    BY <2>3, <2>7, <2>8
  <2> QED
    BY <2>3, <2>4, <2>8, <2>9
<1> QED
  BY <1>1, <1>2

-----------------------------------------------------------------------------
\* The parts of RouteInv that speak of one request, and of one text.
BodyOK(r) ==
  ended[r] => /\ status[r] = "200"
              /\ reply[r].key = asked[r].key
              /\ body[r] = [i \in 1..reply[r].of |-> <<reply[r].take, i>>]

EntryOK(k) ==
  LET s == cache.held[k]
  IN  s # None => /\ Whole(s) /\ s.key = k
                  /\ asked[s.take] \in Asked
                  /\ asked[s.take].tagged /\ asked[s.take].key = k

\* The inductive invariant: TypeOK and RouteInv, request by request.
Inv ==
  /\ TypeOK /\ Distinct(cache.order)
  /\ \A r \in Requests : StageOf(r) /\ BodyOK(r)
  /\ \A k \in Keys : EntryOK(k)

(***************************************************************************)
(* It is the one that the runs check.                                      *)
(***************************************************************************)
LEMMA InvByParts == Inv <=> TypeOK /\ RouteInv
BY DEF Inv, RouteInv, BodyOK, EntryOK, Whole, CachedAreWhole, CachedWereTagged,
       CompleteBodiesAreOneTake

(***************************************************************************)
(* Nothing has happened yet.                                               *)
(***************************************************************************)
LEMMA InitInv == Init => Inv
<1> SUFFICES ASSUME Init PROVE Inv
  OBVIOUS
<1>1. cache \in Cache
  BY DEF Init, Cold, Cache
<1>2. TypeOK
  BY <1>1, RouteAssumption DEF Init, TypeOK, Phases, Statuses, Faults
<1>3. Distinct(cache.order) /\ \A k \in Keys : EntryOK(k)
  BY DEF Init, Cold, Distinct, EntryOK
<1>4. \A r \in Requests : StageOf(r) /\ BodyOK(r)
  BY RouteAssumption DEF Init, StageOf, BodyOK
<1> QED
  BY <1>2, <1>3, <1>4 DEF Inv

(***************************************************************************)
(* A step of one request preserves the invariant if it leaves the others   *)
(* alone and preserves what is said of itself and of the cache.            *)
(***************************************************************************)
Untouched(q) ==
  /\ asked'[q] = asked[q] /\ phase'[q] = phase[q] /\ reply'[q] = reply[q]
  /\ status'[q] = status[q] /\ body'[q] = body[q] /\ ended'[q] = ended[q]

LEMMA OneRequest ==
  ASSUME Inv, NEW r \in Requests,
         \A q \in Requests \ {r} : Untouched(q),
         TypeOK', Distinct(cache'.order), \A k \in Keys : EntryOK(k)',
         StageOf(r)', BodyOK(r)'
  PROVE  Inv'
<1>1. \A q \in Requests : StageOf(q)' /\ BodyOK(q)'
  <2> SUFFICES ASSUME NEW q \in Requests, q # r
               PROVE  StageOf(q)' /\ BodyOK(q)'
    OBVIOUS
  <2>1. StageOf(q) /\ BodyOK(q) /\ Untouched(q)
    BY DEF Inv
  <2> QED
    BY <2>1 DEF StageOf, BodyOK, Untouched, Prefix, Whole
<1> QED
  BY <1>1 DEF Inv

(***************************************************************************)
(* Entries stay as they should be when the cache does, and no one who has  *)
(* asked asks again.                                                       *)
(***************************************************************************)
LEMMA CacheUntouched ==
  ASSUME Inv, UNCHANGED <<cache, asked>>
  PROVE  /\ cache' \in Cache /\ Distinct(cache'.order)
         /\ \A k \in Keys : EntryOK(k)'
<1>1. TypeOK /\ Distinct(cache.order) /\ \A k \in Keys : EntryOK(k)
  BY DEF Inv
<1> QED
  BY <1>1 DEF TypeOK, EntryOK, Whole

(***************************************************************************)
(* So a step that leaves the cache alone only has to be right about itself. *)
(***************************************************************************)
LEMMA OwnStep ==
  ASSUME Inv, NEW r \in Requests, UNCHANGED <<cache, asked>>, TypeOK',
         \A q \in Requests \ {r} : Untouched(q),
         StageOf(r)', BodyOK(r)'
  PROVE  Inv'
BY CacheUntouched, OneRequest

-----------------------------------------------------------------------------
LEMMA RefuseInv ==
  ASSUME Inv, NEW r \in Requests, Refuse(r) PROVE Inv'
<1>1. TypeOK /\ StageOf(r) /\ BodyOK(r) /\ phase[r] = "new"
  BY DEF Inv, Refuse
<1>2. PICK code \in {"503", "422"} : status' = [status EXCEPT ![r] = code]
  BY DEF Refuse, Answer
<1>3. /\ phase' = [phase EXCEPT ![r] = "done"]
      /\ UNCHANGED <<cache, asked, reply, body, fault, ended>>
  BY DEF Refuse, Goto
<1>4. TypeOK'
  BY <1>1, <1>2, <1>3 DEF TypeOK, Phases, Statuses
<1>5. \A q \in Requests \ {r} : Untouched(q)
  BY <1>1, <1>2, <1>3 DEF TypeOK, Untouched
<1>6. phase'[r] = "done" /\ ~ended'[r]
  BY <1>1, <1>3 DEF TypeOK, StageOf
<1>7. StageOf(r)' /\ BodyOK(r)'
  BY <1>6 DEF StageOf, BodyOK
<1> QED
  BY <1>3, <1>4, <1>5, <1>7, OwnStep

(***************************************************************************)
(* The ways in which a request ends without a complete body.               *)
(***************************************************************************)
LEMMA StopsInv ==
  ASSUME Inv, NEW r \in Requests, TypeOK', phase'[r] = "done", ~ended[r],
         UNCHANGED <<cache, asked, reply, ended>>,
         \A q \in Requests \ {r} : Untouched(q)
  PROVE  Inv'
<1>1. StageOf(r)' /\ BodyOK(r)'
  BY DEF StageOf, BodyOK
<1> QED
  BY <1>1, OwnStep

LEMMA FailsInv ==
  ASSUME Inv, NEW r \in Requests, NEW f \in Faults, NEW code \in Statuses,
         Fails(r, f, code)
  PROVE  Inv'
<1>1. TypeOK /\ StageOf(r) /\ phase[r] = "opening"
  BY DEF Inv, Fails
<1>2. /\ phase' = [phase EXCEPT ![r] = "done"]
      /\ status' = [status EXCEPT ![r] = code]
      /\ fault' = [fault EXCEPT ![r] = f]
      /\ UNCHANGED <<cache, asked, reply, body, ended>>
  BY DEF Fails, Goto, Fault, Answer
<1>3. TypeOK' /\ phase'[r] = "done"
  BY <1>1, <1>2 DEF TypeOK, Phases
<1>4. \A q \in Requests \ {r} : Untouched(q)
  BY <1>1, <1>2 DEF TypeOK, Untouched
<1>5. ~ended[r]
  BY <1>1 DEF StageOf
<1> QED
  BY <1>2, <1>3, <1>4, <1>5, StopsInv

LEMMA BreaksOffInv ==
  ASSUME Inv, NEW r \in Requests, NEW f \in Faults, NEW code \in Statuses,
         Awaiting(r), BreaksOff(r, f, code)
  PROVE  Inv'
<1>1. TypeOK /\ StageOf(r) /\ phase[r] \in {"collecting", "sending"}
  BY DEF Inv, Awaiting
<1>2. /\ phase' = [phase EXCEPT ![r] = "done"]
      /\ status' = [status EXCEPT ![r] = code] \/ status' = status
      /\ fault' = [fault EXCEPT ![r] = f]
      /\ UNCHANGED <<cache, asked, reply, body, ended>>
  BY DEF BreaksOff, Goto, Fault, Answer
<1>3. TypeOK' /\ phase'[r] = "done"
  <2>1. phase' \in [Requests -> Phases] /\ phase'[r] = "done"
    BY <1>1, <1>2 DEF TypeOK, Phases
  <2>2. status' \in [Requests -> Statuses \cup {None}]
    BY <1>1, <1>2 DEF TypeOK
  <2>3. fault' \in [Requests -> Faults \cup {None}]
    BY <1>1, <1>2 DEF TypeOK
  <2> QED
    BY <1>1, <1>2, <2>1, <2>2, <2>3 DEF TypeOK
<1>4. \A q \in Requests \ {r} : Untouched(q)
  BY <1>1, <1>2 DEF TypeOK, Untouched
<1>5. ~ended[r]
  BY <1>1 DEF StageOf
<1> QED
  BY <1>2, <1>3, <1>4, <1>5, StopsInv

LEMMA HangUpInv ==
  ASSUME Inv, NEW r \in Requests, HangUp(r) PROVE Inv'
<1>1. TypeOK /\ StageOf(r) /\ phase[r] \in {"sending", "replaying"}
  BY DEF Inv, HangUp
<1>2. /\ phase' = [phase EXCEPT ![r] = "done"]
      /\ UNCHANGED <<cache, asked, reply, status, body, fault, ended>>
  BY DEF HangUp, Goto
<1>3. TypeOK' /\ phase'[r] = "done"
  BY <1>1, <1>2 DEF TypeOK, Phases
<1>4. \A q \in Requests \ {r} : Untouched(q)
  BY <1>1, <1>2 DEF TypeOK, Untouched
<1>5. ~ended[r]
  BY <1>1 DEF StageOf
<1> QED
  BY <1>2, <1>3, <1>4, <1>5, StopsInv

-----------------------------------------------------------------------------
LEMMA FirstChunkInv ==
  ASSUME Inv, NEW r \in Requests, NEW n \in 1..MaxParts, FirstChunk(r, n)
  PROVE  Inv'
<1> DEFINE s == [key |-> asked[r].key, take |-> r, parts |-> 1, of |-> n]
<1>1. TypeOK /\ StageOf(r) /\ phase[r] = "opening"
  BY DEF Inv, FirstChunk
<1>2. asked[r] \in Asked /\ ~ended[r] /\ body[r] = <<>>
  BY <1>1 DEF StageOf
<1>3. s \in Reply /\ s.parts <= s.of /\ s.take = r /\ s.key = asked[r].key /\ s.parts = 1
  BY <1>2, RouteAssumption DEF Asked, Reply
<1>4. /\ reply' = [reply EXCEPT ![r] = s]
      /\ UNCHANGED <<cache, asked, body, fault, ended>>
      /\ \/ /\ phase' = [phase EXCEPT ![r] = "sending"]
            /\ status' = [status EXCEPT ![r] = "200"]
         \/ phase' = [phase EXCEPT ![r] = "collecting"] /\ status' = status
  BY DEF FirstChunk, Goto, Answer
<1> HIDE DEF s
<1>5. TypeOK'
  <2>1. s \in Speech
    BY <1>3, RouteAssumption
  <2>2. reply' \in [Requests -> Speech \cup {None}]
    BY <1>1, <1>4, <2>1 DEF TypeOK
  <2>3. phase' \in [Requests -> Phases] /\ status' \in [Requests -> Statuses \cup {None}]
    BY <1>1, <1>4 DEF TypeOK, Phases, Statuses
  <2> QED
    BY <1>1, <1>4, <2>2, <2>3 DEF TypeOK
<1>6. \A q \in Requests \ {r} : Untouched(q)
  BY <1>1, <1>4 DEF TypeOK, Untouched
<1>7. /\ reply'[r] = s /\ phase'[r] \in {"sending", "collecting"}
      /\ phase'[r] = "sending" => status'[r] = "200"
  BY <1>1, <1>4 DEF TypeOK
<1>8. Prefix(r)'
  <2>1. body'[r] = <<>> /\ reply'[r].parts = 1
    BY <1>2, <1>3, <1>4, <1>7
  <2> QED
    BY <2>1 DEF Prefix
<1>9. StageOf(r)' /\ BodyOK(r)'
  BY <1>2, <1>3, <1>4, <1>7, <1>8 DEF StageOf, BodyOK
<1> QED
  BY <1>4, <1>5, <1>6, <1>9, OwnStep

LEMMA NextChunkInv ==
  ASSUME Inv, NEW r \in Requests, NextChunk(r)
  PROVE  Inv'
<1> DEFINE s == [reply[r] EXCEPT !.parts = reply[r].parts + 1]
<1>1. /\ TypeOK /\ StageOf(r) /\ phase[r] \in {"collecting", "sending"}
      /\ reply[r].parts < reply[r].of
  BY DEF Inv, NextChunk, Awaiting
<1>2. /\ asked[r] \in Asked /\ ~ended[r] /\ reply[r] \in Reply
      /\ reply[r].take = r /\ reply[r].key = asked[r].key
      /\ phase[r] = "collecting" => body[r] = <<>>
      /\ phase[r] = "sending" => status[r] = "200" /\ Prefix(r)
  BY <1>1 DEF StageOf
<1>3. /\ reply' = [reply EXCEPT ![r] = s]
      /\ UNCHANGED <<cache, asked, phase, status, body, fault, ended>>
  BY DEF NextChunk
<1>4. /\ s \in Reply /\ s.parts <= s.of /\ s.take = r /\ s.key = asked[r].key
      /\ s.parts = reply[r].parts + 1 /\ reply[r].parts \in Nat
  BY <1>1, <1>2, RouteAssumption DEF Reply
<1> HIDE DEF s
<1>5. TypeOK'
  BY <1>1, <1>3, <1>4, RouteAssumption DEF TypeOK
<1>6. \A q \in Requests \ {r} : Untouched(q)
  BY <1>1, <1>3 DEF TypeOK, Untouched
<1>7. reply'[r] = s
  BY <1>1, <1>3 DEF TypeOK
<1>8. Prefix(r) => Prefix(r)'
  <2>1. Len(body[r]) \in Nat
    BY <1>1, LenProperties DEF TypeOK
  <2>2. body'[r] = body[r] /\ reply'[r].take = reply[r].take
    BY <1>2, <1>3, <1>4, <1>7
  <2>3. Len(body[r]) <= reply[r].parts => Len(body[r]) <= reply'[r].parts
    BY <1>4, <1>7, <2>1
  <2>4. Prefix(r)' <=> /\ Len(body[r]) <= reply'[r].parts
                       /\ body[r] = [i \in 1..Len(body[r]) |-> <<reply[r].take, i>>]
    BY <2>2 DEF Prefix
  <2> QED
    BY <2>3, <2>4 DEF Prefix
<1>9. StageOf(r)' /\ BodyOK(r)'
  BY <1>1, <1>2, <1>3, <1>4, <1>7, <1>8 DEF StageOf, BodyOK
<1> QED
  BY <1>3, <1>5, <1>6, <1>9, OwnStep

LEMMA DeliverInv ==
  ASSUME Inv, NEW r \in Requests, Deliver(r)
  PROVE  Inv'
<1> DEFINE t == reply[r].take
           b == body[r]
           c == Append(b, <<t, Len(b) + 1>>)
<1>1. /\ TypeOK /\ StageOf(r) /\ phase[r] \in {"sending", "replaying"}
      /\ Len(b) < reply[r].parts
  BY DEF Inv, Deliver
<1>2. /\ asked[r] \in Asked /\ ~ended[r] /\ reply[r] \in Reply /\ Prefix(r)
  BY <1>1 DEF StageOf
<1>3. /\ body' = [body EXCEPT ![r] = c]
      /\ UNCHANGED <<cache, asked, phase, reply, status, fault, ended>>
  BY DEF Deliver
<1>4. /\ t \in Requests /\ b \in Seq(Parts) /\ Len(b) \in Nat
      /\ reply[r].parts \in 1..MaxParts /\ MaxParts \in Nat
  BY <1>1, <1>2, RouteAssumption, LenProperties DEF TypeOK, Reply, Parts
<1>5. Len(b) < MaxParts /\ b = [i \in 1..Len(b) |-> <<t, i>>]
  BY <1>1, <1>2, <1>4 DEF Prefix
<1> HIDE DEF b, t
<1>6. /\ c \in Seq(Parts) /\ Len(c) = Len(b) + 1
      /\ c = [i \in 1..Len(c) |-> <<t, i>>]
  BY <1>4, <1>5, NextPart
<1> HIDE DEF c
<1>7. TypeOK'
  BY <1>1, <1>3, <1>6 DEF TypeOK, Parts
<1>8. \A q \in Requests \ {r} : Untouched(q)
  BY <1>1, <1>3 DEF TypeOK, Untouched
<1>9. body'[r] = c
  BY <1>1, <1>3 DEF TypeOK
<1>10. Prefix(r)'
  <2>1. Len(c) <= reply[r].parts
    BY <1>1, <1>4, <1>6
  <2>2. reply'[r].parts = reply[r].parts /\ reply'[r].take = t
    BY <1>3 DEF t
  <2>3. body'[r] = [i \in 1..Len(body'[r]) |-> <<reply'[r].take, i>>]
    BY <1>6, <1>9, <2>2
  <2> QED
    BY <1>9, <2>1, <2>2, <2>3 DEF Prefix
<1>11. StageOf(r)' /\ BodyOK(r)'
  BY <1>1, <1>3, <1>10 DEF StageOf, BodyOK
<1> QED
  BY <1>3, <1>7, <1>8, <1>11, OwnStep

LEMMA ReplayedInv ==
  ASSUME Inv, NEW r \in Requests, Replayed(r)
  PROVE  Inv'
<1>1. /\ TypeOK /\ StageOf(r) /\ phase[r] = "replaying"
      /\ Len(body[r]) = reply[r].parts
  BY DEF Inv, Replayed
<1>2. /\ asked[r] \in Asked /\ reply[r] \in Reply /\ Prefix(r) /\ status[r] = "200"
      /\ Whole(reply[r]) /\ reply[r].key = asked[r].key
  BY <1>1 DEF StageOf
<1>3. /\ phase' = [phase EXCEPT ![r] = "done"]
      /\ ended' = [ended EXCEPT ![r] = TRUE]
      /\ UNCHANGED <<cache, asked, reply, status, body, fault>>
  BY DEF Replayed, Goto, Complete
<1>4. TypeOK' /\ phase'[r] = "done"
  BY <1>1, <1>3 DEF TypeOK, Phases
<1>5. \A q \in Requests \ {r} : Untouched(q)
  BY <1>1, <1>3 DEF TypeOK, Untouched
<1>6. body[r] = [i \in 1..reply[r].of |-> <<reply[r].take, i>>]
  BY <1>1, <1>2 DEF Prefix, Whole
<1>7. StageOf(r)' /\ BodyOK(r)'
  BY <1>2, <1>3, <1>4, <1>6 DEF StageOf, BodyOK
<1> QED
  BY <1>3, <1>4, <1>5, <1>7, OwnStep

(***************************************************************************)
(* The body of a whole take, as a buffered caller gets it.                 *)
(***************************************************************************)
LEMMA WholeBody ==
  ASSUME NEW s \in Reply, Whole(s)
  PROVE  /\ PartsOf(s) \in Seq(Parts)
         /\ PartsOf(s) = [i \in 1..s.of |-> <<s.take, i>>]
<1>1. s.take \in Requests /\ s.parts \in 0..MaxParts /\ s.parts = s.of
  BY RouteAssumption DEF Reply, Whole
<1>2. [i \in 1..s.parts |-> <<s.take, i>>] \in Seq(Parts)
  BY <1>1, PartsSequence
<1> QED
  BY <1>1, <1>2 DEF PartsOf

-----------------------------------------------------------------------------
(***************************************************************************)
(* A lookup hands out what an earlier, tagged request left whole.           *)
(***************************************************************************)
LEMMA HandleInv ==
  ASSUME Inv, NEW r \in Requests, NEW a \in Asked, Handle(r, a)
  PROVE  Inv'
<1> DEFINE hit == cache.held[a.key]
           got == AfterGet(cache, a.key)
<1>1. /\ TypeOK /\ StageOf(r) /\ BodyOK(r) /\ phase[r] = "new"
      /\ Distinct(cache.order) /\ \A k \in Keys : EntryOK(k)
  BY DEF Inv, Handle
<1>2. asked[r] = None /\ body[r] = <<>> /\ ~ended[r] /\ None \notin Asked /\ Speech = Reply
  BY <1>1, RouteAssumption DEF StageOf
<1>3. a.key \in Keys /\ cache \in Cache
  BY <1>1 DEF Asked, TypeOK
<1>4. got \in Cache /\ Distinct(got.order) /\ got.held = cache.held
  BY <1>1, <1>3, AfterGetProperties
<1>5. hit # None => /\ hit \in Reply /\ Whole(hit) /\ hit.key = a.key
  BY <1>1, <1>2, <1>3 DEF EntryOK, Cache
<1>6. /\ asked' = [asked EXCEPT ![r] = a]
      /\ cache' = got
      /\ reply' = [reply EXCEPT ![r] = hit]
      /\ UNCHANGED fault
  BY DEF Handle
<1>7. \/ /\ hit = None /\ phase' = [phase EXCEPT ![r] = "opening"]
         /\ UNCHANGED <<status, body, ended>>
      \/ /\ hit # None /\ status' = [status EXCEPT ![r] = "200"]
         /\ phase' = [phase EXCEPT ![r] = "replaying"]
         /\ UNCHANGED <<body, ended>>
      \/ /\ hit # None /\ status' = [status EXCEPT ![r] = "200"]
         /\ phase' = [phase EXCEPT ![r] = "done"]
         /\ body' = [body EXCEPT ![r] = PartsOf(hit)]
         /\ ended' = [ended EXCEPT ![r] = TRUE]
  BY DEF Handle, Goto, Answer, Complete
<1>8. hit # None => /\ PartsOf(hit) \in Seq(Parts)
                    /\ PartsOf(hit) = [i \in 1..hit.of |-> <<hit.take, i>>]
  BY <1>5, WholeBody
<1>9. hit \in Speech \cup {None}
  BY <1>3 DEF Cache
<1> HIDE DEF hit, got
<1>10. asked'[r] = a /\ reply'[r] = hit
  BY <1>1, <1>6 DEF TypeOK
<1>11. TypeOK'
  <2>1. /\ cache' \in Cache /\ asked' \in [Requests -> Asked \cup {None}]
        /\ reply' \in [Requests -> Speech \cup {None}]
    BY <1>1, <1>4, <1>6, <1>9 DEF TypeOK
  <2>2. phase' \in [Requests -> Phases] /\ status' \in [Requests -> Statuses \cup {None}]
    BY <1>1, <1>7 DEF TypeOK, Phases, Statuses
  <2>3. body' \in [Requests -> Seq(Requests \X (1..MaxParts))]
    <3>1. body \in [Requests -> Seq(Parts)]
      BY <1>1 DEF TypeOK, Parts
    <3>2. \/ body' = body
          \/ body' = [body EXCEPT ![r] = PartsOf(hit)] /\ PartsOf(hit) \in Seq(Parts)
      BY <1>7, <1>8
    <3>3. body' \in [Requests -> Seq(Parts)]
      BY <3>1, <3>2
    <3> QED
      BY <3>3 DEF Parts
  <2>4. fault' \in [Requests -> Faults \cup {None}] /\ ended' \in [Requests -> BOOLEAN]
    BY <1>1, <1>6, <1>7 DEF TypeOK
  <2> QED
    BY <2>1, <2>2, <2>3, <2>4 DEF TypeOK
<1>12. \A q \in Requests \ {r} : Untouched(q)
  BY <1>1, <1>6, <1>7 DEF TypeOK, Untouched
<1>13. \A k \in Keys : EntryOK(k)'
  <2> SUFFICES ASSUME NEW k \in Keys, cache.held[k] # None PROVE EntryOK(k)'
    BY <1>4, <1>6 DEF EntryOK
  <2> DEFINE s == cache.held[k]
  <2>1. s \in Reply /\ s.take \in Requests
    BY <1>2, <1>3 DEF Cache, Reply
  <2>2. EntryOK(k)
    BY <1>1
  <2>3. s.take # r
    BY <1>2, <2>2 DEF EntryOK
  <2>4. asked'[s.take] = asked[s.take] /\ cache'.held[k] = s
    BY <1>1, <1>4, <1>6, <2>1, <2>3 DEF TypeOK
  <2> QED
    BY <2>2, <2>4 DEF EntryOK, Whole
<1>14. CASE hit = None
  <2>1. phase'[r] = "opening" /\ body'[r] = <<>> /\ ~ended'[r]
    BY <1>1, <1>2, <1>7, <1>14 DEF TypeOK
  <2>2. StageOf(r)' /\ BodyOK(r)'
    BY <1>10, <1>14, <2>1 DEF StageOf, BodyOK
  <2> QED
    BY <1>4, <1>6, <1>11, <1>12, <1>13, <2>2, OneRequest
<1>15. CASE hit # None /\ phase'[r] = "replaying"
  <2>1. status'[r] = "200" /\ body'[r] = <<>> /\ ~ended'[r]
    BY <1>1, <1>2, <1>7, <1>15 DEF TypeOK
  <2>2. hit.parts \in Nat
    BY <1>5, <1>15, RouteAssumption DEF Reply
  <2>3. Prefix(r)'
    BY <1>10, <2>1, <2>2 DEF Prefix
  <2>4. StageOf(r)' /\ BodyOK(r)'
    BY <1>5, <1>10, <1>15, <2>1, <2>3 DEF StageOf, BodyOK
  <2> QED
    BY <1>4, <1>6, <1>11, <1>12, <1>13, <2>4, OneRequest
<1>16. CASE hit # None /\ phase'[r] # "replaying"
  <2>1. status'[r] = "200" /\ phase'[r] = "done" /\ body'[r] = PartsOf(hit)
    BY <1>1, <1>7, <1>16 DEF TypeOK
  <2>2. StageOf(r)' /\ BodyOK(r)'
    BY <1>5, <1>8, <1>10, <1>16, <2>1 DEF StageOf, BodyOK
  <2> QED
    BY <1>4, <1>6, <1>11, <1>12, <1>13, <2>2, OneRequest
<1> QED
  BY <1>14, <1>15, <1>16

(***************************************************************************)
(* Only here is an entry stored, and with a faithful transport only when   *)
(* the take is whole.                                                      *)
(***************************************************************************)
LEMMA ExhaustedInv ==
  ASSUME Faithful, Inv, NEW r \in Requests, Exhausted(r)
  PROVE  Inv'
<1> DEFINE s == reply[r]
           k0 == asked[r].key
           put == AfterPut(cache, k0, s)
<1>1. /\ TypeOK /\ StageOf(r) /\ phase[r] \in {"collecting", "sending"}
      /\ Distinct(cache.order) /\ \A k \in Keys : EntryOK(k)
      /\ reply[r].parts = reply[r].of
  BY RouteAssumption DEF Inv, Exhausted, Awaiting, Faithful
<1>2. /\ asked[r] \in Asked /\ s \in Reply /\ Whole(s) /\ s.take = r /\ s.key = k0
      /\ phase[r] = "sending" => status[r] = "200" /\ Prefix(r)
  BY <1>1 DEF StageOf, Whole
<1>3. k0 \in Keys /\ cache \in Cache /\ s \in Speech
  BY <1>1, <1>2, RouteAssumption DEF Asked, TypeOK
<1>4. /\ put \in Cache /\ Distinct(put.order)
      /\ \A x \in Keys : put.held[x] # None =>
           put.held[x] = cache.held[x] \/ (x = k0 /\ put.held[x] = s)
  BY <1>1, <1>3, AfterPutProperties
<1>5. /\ cache' = IF asked[r].tagged THEN put ELSE cache
      /\ phase' = [phase EXCEPT ![r] = "done"]
      /\ ended' = [ended EXCEPT ![r] = TRUE]
      /\ UNCHANGED <<asked, reply, fault>>
  BY DEF Exhausted, Goto, Complete
<1>6. \/ /\ phase[r] = "collecting"
         /\ status' = [status EXCEPT ![r] = "200"]
         /\ body' = [body EXCEPT ![r] = PartsOf(s)]
      \/ phase[r] = "sending" /\ UNCHANGED <<status, body>>
  BY <1>1 DEF Exhausted, Answer
<1>7. /\ PartsOf(s) \in Seq(Parts)
      /\ PartsOf(s) = [i \in 1..s.of |-> <<s.take, i>>]
  BY <1>2, WholeBody
<1>8. phase[r] = "sending" => body[r] = [i \in 1..s.of |-> <<s.take, i>>]
  <2> SUFFICES ASSUME phase[r] = "sending"
               PROVE  body[r] = [i \in 1..s.of |-> <<s.take, i>>]
    OBVIOUS
  <2>1. Len(body[r]) = reply[r].parts
    BY DEF Exhausted, Awaiting
  <2> QED
    BY <1>1, <1>2, <2>1 DEF Prefix
<1> HIDE DEF s, k0, put
<1>9. TypeOK'
  <2>1. cache' \in Cache
    BY <1>3, <1>4, <1>5
  <2>2. phase' \in [Requests -> Phases] /\ status' \in [Requests -> Statuses \cup {None}]
    BY <1>1, <1>5, <1>6 DEF TypeOK, Phases, Statuses
  <2>3. body' \in [Requests -> Seq(Requests \X (1..MaxParts))]
    BY <1>1, <1>6, <1>7 DEF TypeOK, Parts
  <2> QED
    BY <1>1, <1>5, <2>1, <2>2, <2>3 DEF TypeOK
<1>10. \A q \in Requests \ {r} : Untouched(q)
  BY <1>1, <1>5, <1>6 DEF TypeOK, Untouched
<1>11. Distinct(cache'.order)
  BY <1>1, <1>4, <1>5
<1>12. \A k \in Keys : EntryOK(k)'
  <2> SUFFICES ASSUME NEW k \in Keys PROVE EntryOK(k)'
    OBVIOUS
  <2>1. EntryOK(k)
    BY <1>1
  <2>2. CASE cache'.held[k] = cache.held[k]
    BY <1>5, <2>1, <2>2 DEF EntryOK
  <2>3. CASE asked[r].tagged /\ k = k0 /\ cache'.held[k] = s
    BY <1>2, <1>5, <2>3 DEF EntryOK, k0
  <2>4. CASE cache'.held[k] = None
    BY <2>4 DEF EntryOK
  <2> QED
    BY <1>4, <1>5, <2>2, <2>3, <2>4
<1>13. /\ phase'[r] = "done" /\ status'[r] = "200"
       /\ body'[r] = [i \in 1..s.of |-> <<s.take, i>>]
  BY <1>1, <1>2, <1>5, <1>6, <1>7, <1>8 DEF TypeOK
<1>14. reply'[r] = s /\ asked'[r].key = k0
  BY <1>5 DEF s, k0
<1>15. StageOf(r)' /\ BodyOK(r)'
  BY <1>2, <1>13, <1>14 DEF StageOf, BodyOK
<1> QED
  BY <1>9, <1>10, <1>11, <1>12, <1>15, OneRequest

-----------------------------------------------------------------------------
LEMMA NextInv == Faithful /\ Inv /\ [Next]_vars => Inv'
<1> SUFFICES ASSUME Faithful, Inv, [Next]_vars PROVE Inv'
  OBVIOUS
<1>1. CASE UNCHANGED vars
  BY <1>1 DEF vars, Inv, TypeOK, StageOf, BodyOK, EntryOK, Prefix, Whole
<1>2. ASSUME NEW r \in Requests, Refuse(r) PROVE Inv'
  BY <1>2, RefuseInv
<1>3. ASSUME NEW r \in Requests, NEW a \in Asked, Handle(r, a) PROVE Inv'
  BY <1>3, HandleInv
<1>4. ASSUME NEW r \in Requests, Opens(r) PROVE Inv'
  <2>1. ASSUME NEW n \in 1..MaxParts, FirstChunk(r, n) PROVE Inv'
    BY <2>1, FirstChunkInv
  <2>2. ASSUME NEW f \in Faults, NEW code \in Statuses, Fails(r, f, code) PROVE Inv'
    BY <2>2, FailsInv
  <2>3. CASE Unreachable(r) \/ TimesOutOpening(r) \/ NoAudio(r)
    <3>1. /\ "unreachable" \in Faults /\ "timeout" \in Faults /\ "empty" \in Faults
          /\ "500" \in Statuses /\ "502" \in Statuses
      BY DEF Faults, Statuses
    <3> QED
      BY <2>2, <2>3, <3>1 DEF Unreachable, TimesOutOpening, NoAudio
  <2>4. CASE WorkerRejects(r)
    <3>1. PICK code \in {"422", "500", "503", "504"} : Fails(r, "rejected", code)
      BY <2>4 DEF WorkerRejects
    <3>2. "rejected" \in Faults /\ code \in Statuses
      BY DEF Faults, Statuses
    <3> QED
      BY <2>2, <3>1, <3>2
  <2>5. CASE FirstMalformed(r)
    <3>1. PICK code \in {"200", "502"} : Fails(r, "malformed", code)
      BY <2>5 DEF FirstMalformed
    <3>2. "malformed" \in Faults /\ code \in Statuses
      BY DEF Faults, Statuses
    <3> QED
      BY <2>2, <3>1, <3>2
  <2> QED
    BY <1>4, <2>1, <2>3, <2>4, <2>5 DEF Opens
<1>5. ASSUME NEW r \in Requests, Continues(r) PROVE Inv'
  <2>1. CASE NextChunk(r)
    BY <2>1, NextChunkInv
  <2>2. CASE Malformed(r) \/ ConnectionLost(r) \/ TimesOut(r)
    <3>1. /\ "malformed" \in Faults /\ "broken" \in Faults /\ "timeout" \in Faults
          /\ "500" \in Statuses /\ "502" \in Statuses
      BY DEF Faults, Statuses
    <3> QED
      BY <2>2, <3>1, BreaksOffInv DEF Malformed, ConnectionLost, TimesOut
  <2>3. CASE Exhausted(r)
    BY <2>3, ExhaustedInv
  <2> QED
    BY <1>5, <2>1, <2>2, <2>3 DEF Continues
<1>6. ASSUME NEW r \in Requests, Consumes(r) PROVE Inv'
  BY <1>6, DeliverInv, HangUpInv DEF Consumes
<1>7. ASSUME NEW r \in Requests, Replayed(r) PROVE Inv'
  BY <1>7, ReplayedInv
<1>8. CASE AllDone
  BY <1>1, <1>8 DEF AllDone
<1> QED
  BY <1>1, <1>2, <1>3, <1>4, <1>5, <1>6, <1>7, <1>8 DEF Next

LEMMA InvHolds == Faithful /\ Spec => []Inv
<1> SUFFICES ASSUME Faithful PROVE Spec => []Inv
  OBVIOUS
<1>1. Inv /\ [Next]_vars => Inv'
  BY NextInv
<1> QED
  BY <1>1, InitInv, PTL DEF Spec

-----------------------------------------------------------------------------
(***************************************************************************)
(* Every variable of the route stays in its range.                         *)
(***************************************************************************)
THEOREM RouteTypeCorrect == Faithful /\ Spec => []TypeOK
<1>1. Inv => TypeOK
  BY DEF Inv
<1> QED
  BY <1>1, InvHolds, PTL

(***************************************************************************)
(* router.py:246-261 stores a reply once it is exhausted: whatever clients *)
(* workers and the network do, in any order, no truncated take is ever in  *)
(* the cache.                                                              *)
(***************************************************************************)
THEOREM OnlyWholeTakesAreCached == Faithful /\ Spec => []CachedAreWhole
<1>1. Inv => CachedAreWhole
  BY InvByParts DEF RouteInv
<1> QED
  BY <1>1, InvHolds, PTL

(***************************************************************************)
(* router.py:214-261: what is cached under a text was spoken for that text *)
(* and for a caller who tagged it.                                         *)
(***************************************************************************)
THEOREM OnlyTaggedTextsAreCached == Faithful /\ Spec => []CachedWereTagged
<1>1. Inv => CachedWereTagged
  BY InvByParts DEF RouteInv
<1> QED
  BY <1>1, InvHolds, PTL

(***************************************************************************)
(* A body that ends as complete is one whole take of the text asked for,   *)
(* in order, whether it was spoken now or replayed from the cache.         *)
(***************************************************************************)
THEOREM CompleteBodiesAreWhole == Faithful /\ Spec => []CompleteBodiesAreOneTake
<1>1. Inv => CompleteBodiesAreOneTake
  BY InvByParts DEF RouteInv
<1> QED
  BY <1>1, InvHolds, PTL

-----------------------------------------------------------------------------
(***************************************************************************)
(* What the first invariant says nothing of: a fault ends its request, and *)
(* which of the two kinds of caller is in which phase.                     *)
(***************************************************************************)
KindOK(r) ==
  /\ phase[r] # "done" => fault[r] = None
  /\ phase[r] = "collecting" => ~asked[r].stream
  /\ phase[r] \in {"sending", "replaying"} => asked[r].stream

\* FailuresAreTold, request by request.
ErrorOK(r) ==
  fault[r] \in {"unreachable", "timeout", "rejected", "empty"} /\ reply[r] = None =>
    status[r] \in Statuses \ {"200"}

BufferedOK(r) ==
  (phase[r] = "done" /\ asked[r] # None /\ ~asked[r].stream) =>
    /\ status[r] = "200" <=> ended[r]
    /\ ~ended[r] => fault[r] # None /\ body[r] = <<>>

Told == \A r \in Requests : KindOK(r) /\ ErrorOK(r) /\ BufferedOK(r)

LEMMA ToldInit == Init => Told
BY RouteAssumption DEF Init, Told, KindOK, ErrorOK, BufferedOK, Faults

(***************************************************************************)
(* A step of one request leaves the others as they were.                   *)
(***************************************************************************)
LEMMA OneTold ==
  ASSUME Told, NEW r \in Requests,
         \A q \in Requests \ {r} : Untouched(q) /\ fault'[q] = fault[q],
         KindOK(r)', ErrorOK(r)', BufferedOK(r)'
  PROVE  Told'
<1> SUFFICES ASSUME NEW q \in Requests, q # r
             PROVE  KindOK(q)' /\ ErrorOK(q)' /\ BufferedOK(q)'
  BY DEF Told
<1>1. KindOK(q) /\ ErrorOK(q) /\ BufferedOK(q) /\ Untouched(q) /\ fault'[q] = fault[q]
  BY DEF Told
<1> QED
  BY <1>1 DEF KindOK, ErrorOK, BufferedOK, Untouched

LEMMA RefuseTold ==
  ASSUME Inv, Told, NEW r \in Requests, Refuse(r) PROVE Told'
<1>1. TypeOK /\ StageOf(r) /\ KindOK(r) /\ phase[r] = "new"
  BY DEF Inv, Told, Refuse
<1>2. /\ \E code \in {"503", "422"} : status' = [status EXCEPT ![r] = code]
      /\ phase' = [phase EXCEPT ![r] = "done"]
      /\ UNCHANGED <<cache, asked, reply, body, fault, ended>>
  BY DEF Refuse, Goto, Answer
<1>3. \A q \in Requests \ {r} : Untouched(q) /\ fault'[q] = fault[q]
  BY <1>1, <1>2 DEF TypeOK, Untouched
<1>4. phase'[r] = "done" /\ asked'[r] = None /\ fault'[r] = None
  BY <1>1, <1>2 DEF TypeOK, StageOf, KindOK
<1>5. KindOK(r)' /\ ErrorOK(r)' /\ BufferedOK(r)'
  BY <1>4, RouteAssumption DEF KindOK, ErrorOK, BufferedOK, Faults
<1> QED
  BY <1>3, <1>5, OneTold

(***************************************************************************)
(* A hit is over at once, with its body, or is replayed to a stream; a     *)
(* miss is open.                                                           *)
(***************************************************************************)
LEMMA HandleTold ==
  ASSUME Inv, Told, NEW r \in Requests, NEW a \in Asked, Handle(r, a) PROVE Told'
<1>1. TypeOK /\ StageOf(r) /\ KindOK(r) /\ phase[r] = "new"
  BY DEF Inv, Told, Handle
<1>2. /\ asked' = [asked EXCEPT ![r] = a]
      /\ \E hit : reply' = [reply EXCEPT ![r] = hit]
      /\ UNCHANGED fault
  BY DEF Handle
<1>3. \/ /\ phase' = [phase EXCEPT ![r] = "opening"]
         /\ UNCHANGED <<status, body, ended>>
      \/ /\ status' = [status EXCEPT ![r] = "200"] /\ a.stream
         /\ phase' = [phase EXCEPT ![r] = "replaying"]
         /\ UNCHANGED <<body, ended>>
      \/ /\ status' = [status EXCEPT ![r] = "200"] /\ ~a.stream
         /\ phase' = [phase EXCEPT ![r] = "done"]
         /\ \E b : body' = [body EXCEPT ![r] = b]
         /\ ended' = [ended EXCEPT ![r] = TRUE]
  BY DEF Handle, Goto, Answer, Complete
<1>4. \A q \in Requests \ {r} : Untouched(q) /\ fault'[q] = fault[q]
  BY <1>1, <1>2, <1>3 DEF TypeOK, Untouched
<1>5. asked'[r] = a /\ fault'[r] = None
  BY <1>1, <1>2 DEF TypeOK, KindOK
<1>6. \/ phase'[r] = "opening"
      \/ phase'[r] = "replaying" /\ a.stream
      \/ phase'[r] = "done" /\ status'[r] = "200" /\ ended'[r]
  BY <1>1, <1>3 DEF TypeOK
<1>7. KindOK(r)' /\ ErrorOK(r)' /\ BufferedOK(r)'
  BY <1>5, <1>6, RouteAssumption DEF KindOK, ErrorOK, BufferedOK, Faults
<1> QED
  BY <1>4, <1>7, OneTold

(***************************************************************************)
(* Nothing has been sent when there is nothing to send.                    *)
(***************************************************************************)
LEMMA FailsTold ==
  ASSUME Inv, Told, NEW r \in Requests, NEW f \in Faults, NEW code \in Statuses,
         Fails(r, f, code),
         code = "200" => f = "malformed" /\ asked[r].stream
  PROVE  Told'
<1>1. TypeOK /\ StageOf(r) /\ phase[r] = "opening"
  BY DEF Inv, Fails
<1>2. /\ phase' = [phase EXCEPT ![r] = "done"]
      /\ status' = [status EXCEPT ![r] = code]
      /\ fault' = [fault EXCEPT ![r] = f]
      /\ UNCHANGED <<cache, asked, reply, body, ended>>
  BY DEF Fails, Goto, Fault, Answer
<1>3. \A q \in Requests \ {r} : Untouched(q) /\ fault'[q] = fault[q]
  BY <1>1, <1>2 DEF TypeOK, Untouched
<1>4. /\ phase'[r] = "done" /\ status'[r] = code /\ fault'[r] = f
      /\ ~ended'[r] /\ body'[r] = <<>> /\ asked'[r] = asked[r]
  BY <1>1, <1>2 DEF TypeOK, StageOf
<1>5. KindOK(r)' /\ ErrorOK(r)' /\ BufferedOK(r)'
  BY <1>4, RouteAssumption DEF KindOK, ErrorOK, BufferedOK
<1> QED
  BY <1>3, <1>5, OneTold

(***************************************************************************)
(* A buffered caller of a take that breaks off gets an error and nothing   *)
(* else; a streaming one has had its status line.                          *)
(***************************************************************************)
LEMMA BreaksOffTold ==
  ASSUME Inv, Told, NEW r \in Requests, NEW f \in Faults,
         NEW code \in Statuses \ {"200"}, Awaiting(r), BreaksOff(r, f, code)
  PROVE  Told'
<1>1. /\ TypeOK /\ StageOf(r) /\ KindOK(r)
      /\ phase[r] \in {"collecting", "sending"}
  BY DEF Inv, Told, Awaiting
<1>2. /\ phase' = [phase EXCEPT ![r] = "done"]
      /\ fault' = [fault EXCEPT ![r] = f]
      /\ UNCHANGED <<cache, asked, reply, body, ended>>
      /\ \/ phase[r] = "collecting" /\ status' = [status EXCEPT ![r] = code]
         \/ phase[r] = "sending" /\ status' = status
  BY <1>1 DEF BreaksOff, Goto, Fault, Answer
<1>3. \A q \in Requests \ {r} : Untouched(q) /\ fault'[q] = fault[q]
  BY <1>1, <1>2 DEF TypeOK, Untouched
<1>4. /\ phase'[r] = "done" /\ fault'[r] = f /\ reply'[r] # None
      /\ \/ asked'[r].stream
         \/ status'[r] = code /\ ~ended'[r] /\ body'[r] = <<>>
  BY <1>1, <1>2, RouteAssumption DEF TypeOK, StageOf, KindOK
<1>5. KindOK(r)' /\ ErrorOK(r)' /\ BufferedOK(r)'
  BY <1>4, RouteAssumption DEF KindOK, ErrorOK, BufferedOK
<1> QED
  BY <1>3, <1>5, OneTold

(***************************************************************************)
(* A request that goes on, and one that ends well, have no fault; a stream *)
(* that ends early is not a buffered caller's.                             *)
(***************************************************************************)
LEMMA FaultlessTold ==
  ASSUME Inv, Told, NEW r \in Requests, phase[r] # "done", UNCHANGED <<asked, fault>>,
         \A q \in Requests \ {r} : Untouched(q), KindOK(r)', BufferedOK(r)'
  PROVE  Told'
<1>1. fault'[r] = None
  BY DEF Told, KindOK
<1>2. ErrorOK(r)'
  BY <1>1, RouteAssumption DEF ErrorOK, Faults
<1> QED
  BY <1>2, OneTold

LEMMA ContinuesTold ==
  ASSUME Inv, Told, NEW r \in Requests,
         \/ \E n \in 1..MaxParts : FirstChunk(r, n)
         \/ NextChunk(r) \/ Deliver(r)
  PROVE  Told'
<1>1. TypeOK /\ StageOf(r) /\ KindOK(r)
  BY DEF Inv, Told
<1>2. phase[r] # "done" /\ UNCHANGED <<asked, fault>>
  BY DEF FirstChunk, NextChunk, Awaiting, Deliver
<1>3. \A q \in Requests \ {r} : Untouched(q)
  BY <1>1 DEF FirstChunk, NextChunk, Deliver, Goto, Answer, TypeOK, Untouched
<1>4. /\ phase'[r] \in {"collecting", "sending", "replaying"}
      /\ phase'[r] = "collecting" => ~asked[r].stream
      /\ phase'[r] \in {"sending", "replaying"} => asked[r].stream
  BY <1>1 DEF FirstChunk, NextChunk, Awaiting, Deliver, Goto, TypeOK, KindOK
<1>5. KindOK(r)' /\ BufferedOK(r)'
  BY <1>1, <1>2, <1>4 DEF KindOK, BufferedOK
<1> QED
  BY <1>2, <1>3, <1>5, FaultlessTold

LEMMA EndsTold ==
  ASSUME Inv, Told, NEW r \in Requests, Exhausted(r) \/ Replayed(r) \/ HangUp(r)
  PROVE  Told'
<1>1. TypeOK /\ StageOf(r) /\ KindOK(r)
  BY DEF Inv, Told
<1>2. /\ phase[r] \in {"collecting", "sending", "replaying"}
      /\ UNCHANGED <<asked, fault>> /\ phase' = [phase EXCEPT ![r] = "done"]
  BY DEF Exhausted, Replayed, HangUp, Awaiting, Goto
<1>3. \A q \in Requests \ {r} : Untouched(q)
  BY <1>1 DEF Exhausted, Replayed, HangUp, Goto, Answer, Complete, TypeOK, Untouched
<1>4. phase[r] = "collecting" => status'[r] = "200" /\ ended'[r]
  BY <1>1 DEF Exhausted, Replayed, HangUp, Answer, Complete, TypeOK
<1>5. KindOK(r)' /\ BufferedOK(r)'
  BY <1>1, <1>2, <1>4 DEF KindOK, BufferedOK, TypeOK
<1> QED
  BY <1>2, <1>3, <1>5, FaultlessTold

LEMMA ToldNext == Inv /\ Told /\ [Next]_vars => Told'
<1> SUFFICES ASSUME Inv, Told, [Next]_vars PROVE Told'
  OBVIOUS
<1>1. CASE UNCHANGED vars
  BY <1>1 DEF vars, Told, KindOK, ErrorOK, BufferedOK
<1>2. ASSUME NEW r \in Requests, NEW f \in Faults, NEW code \in Statuses \ {"200"},
             Fails(r, f, code)
      PROVE  Told'
  BY <1>2, FailsTold
<1>3. ASSUME NEW r \in Requests, Opens(r) PROVE Told'
  <2>1. /\ "unreachable" \in Faults /\ "timeout" \in Faults /\ "empty" \in Faults
        /\ "rejected" \in Faults /\ "malformed" \in Faults /\ "200" \in Statuses
        /\ {"422", "500", "502", "503", "504"} \subseteq Statuses \ {"200"}
    BY DEF Faults, Statuses
  <2>2. CASE Unreachable(r) \/ TimesOutOpening(r) \/ NoAudio(r)
    BY <1>2, <2>1, <2>2 DEF Unreachable, TimesOutOpening, NoAudio
  <2>3. CASE WorkerRejects(r)
    <3>1. PICK code \in {"422", "500", "503", "504"} : Fails(r, "rejected", code)
      BY <2>3 DEF WorkerRejects
    <3> QED
      BY <1>2, <2>1, <3>1
  <2>4. CASE FirstMalformed(r)
    <3>1. CASE asked[r].stream
      BY <2>1, <2>4, <3>1, FailsTold DEF FirstMalformed
    <3>2. CASE ~asked[r].stream
      BY <1>2, <2>1, <2>4, <3>2 DEF FirstMalformed
    <3> QED
      BY <3>1, <3>2
  <2>5. CASE \E n \in 1..MaxParts : FirstChunk(r, n)
    BY <2>5, ContinuesTold
  <2> QED
    BY <1>3, <2>2, <2>3, <2>4, <2>5 DEF Opens
<1>4. ASSUME NEW r \in Requests, Continues(r) PROVE Told'
  <2>1. CASE Malformed(r) \/ ConnectionLost(r) \/ TimesOut(r)
    <3>1. /\ "malformed" \in Faults /\ "broken" \in Faults /\ "timeout" \in Faults
          /\ "500" \in Statuses \ {"200"} /\ "502" \in Statuses \ {"200"}
      BY DEF Faults, Statuses
    <3> QED
      BY <2>1, <3>1, BreaksOffTold DEF Malformed, ConnectionLost, TimesOut
  <2> QED
    BY <1>4, <2>1, ContinuesTold, EndsTold DEF Continues
<1>5. ASSUME NEW r \in Requests, Consumes(r) \/ Replayed(r) PROVE Told'
  BY <1>5, ContinuesTold, EndsTold DEF Consumes
<1> QED
  BY <1>1, <1>3, <1>4, <1>5, RefuseTold, HandleTold DEF Next, AllDone

(***************************************************************************)
(* router.py:208-261 and client.py: a worker that fails before its first   *)
(* chunk costs its caller an error status, and a buffered caller gets a    *)
(* complete 200 or an error without a body, whenever the take breaks off.  *)
(***************************************************************************)
THEOREM NoFailureIsSilent == Faithful /\ Spec => []FailuresAreTold
<1> SUFFICES ASSUME Faithful PROVE Spec => []FailuresAreTold
  OBVIOUS
<1>1. Inv /\ Told /\ [Next]_vars => Inv' /\ Told'
  BY NextInv, ToldNext
<1>2. Told => FailuresAreTold
  BY DEF Told, ErrorOK, BufferedOK, FailuresAreTold
<1> QED
  BY <1>1, <1>2, InitInv, ToldInit, PTL DEF Spec

-----------------------------------------------------------------------------
(***************************************************************************)
(* The service: the route with the server, and time.                       *)
(***************************************************************************)
Messages == {"line", "end", "cut", "422", "500", "504"}

ServiceTypeOK ==
  /\ place \in [Requests -> Server!Places]
  /\ wire \in [Requests -> Seq(Messages)]
  /\ waited \in [Requests -> 0..Patience]
  /\ of \in [Requests -> 0..MaxParts]
  /\ left \in [Requests -> (0..MaxParts) \cup {None}]
  /\ finished \in [Requests -> {"ok", "error", None}]
  /\ silent \in [Requests -> 0..Deadline]
  /\ late \in [Requests -> 0..Transit]
  /\ quiet \in [Requests -> 0..QueueTimeout]

\* A take that is over has a last message, and it is not a line.
Closed(s) == s # <<>> /\ s[Len(s)] # "line"

\* What is known of a request from where the server has it.
WireOf(r) ==
  /\ place[r] \in {"away", "coming", "queued"} => wire[r] = <<>>
  /\ place[r] = "expired" => wire[r] \in {<<>>, <<"504">>}
  /\ place[r] = "serving" => left[r] # None /\ of[r] \in 1..MaxParts
  /\ place[r] = "served" => finished[r] # None /\ of[r] \in 1..MaxParts
  /\ place[r] = "served" /\ Listening(r) => Closed(wire[r])
  /\ phase[r] \in {"collecting", "sending"} =>
       /\ place[r] \in {"serving", "served"}
       /\ wire[r] = <<>> => quiet[r] = QueueTimeout \/ silent[r] <= quiet[r]

ServiceInv == ServiceTypeOK /\ \A r \in Requests : WireOf(r)

\* How long a request that no worker took has been waiting, and for what.
WaitOf(r) ==
  /\ place[r] = "away" =>
       /\ phase[r] \in {"new", "replaying", "done"}
       /\ silent[r] = 0 /\ late[r] = 0 /\ waited[r] = 0
  /\ place[r] = "coming" =>
       phase[r] = "opening" /\ silent[r] <= late[r] /\ waited[r] = 0
  /\ place[r] = "queued" =>
       \/ waited[r] = Patience
       \/ phase[r] = "opening" /\ late[r] = 0 /\ silent[r] <= Transit + waited[r]
  /\ place[r] = "expired" =>
       \/ waited[r] = Patience
       \/ /\ phase[r] = "opening" /\ wire[r] = <<"504">>
          /\ silent[r] <= Transit + waited[r] + late[r]
       \/ phase[r] = "done" /\ status[r] = "504"
  /\ place[r] \notin {"serving", "served"} /\ waited[r] # Patience =>
       fault[r] # "timeout"

Waits == \A r \in Requests : WaitOf(r)

-----------------------------------------------------------------------------
\* A step of another request leaves these as they were.
Stays(q) ==
  /\ place'[q] = place[q] /\ wire'[q] = wire[q] /\ waited'[q] = waited[q]
  /\ of'[q] = of[q] /\ left'[q] = left[q] /\ finished'[q] = finished[q]
  /\ silent'[q] = silent[q] /\ late'[q] = late[q] /\ quiet'[q] = quiet[q]
  /\ phase'[q] = phase[q] /\ status'[q] = status[q] /\ fault'[q] = fault[q]

(***************************************************************************)
(* So a step of one request only has to be right about itself.             *)
(***************************************************************************)
LEMMA OneServed ==
  ASSUME ServiceInv, NEW r \in Requests, ServiceTypeOK',
         \A q \in Requests \ {r} : Stays(q),
         WireOf(r)', WaitOf(r) => WaitOf(r)'
  PROVE  ServiceInv' /\ (Waits => Waits')
<1>1. \A q \in Requests : WireOf(q)'
  <2> SUFFICES ASSUME NEW q \in Requests, q # r PROVE WireOf(q)'
    OBVIOUS
  <2>1. WireOf(q) /\ Stays(q)
    BY DEF ServiceInv
  <2> QED
    BY <2>1 DEF WireOf, Stays, Listening
<1>2. ASSUME Waits PROVE Waits'
  <2> SUFFICES ASSUME NEW q \in Requests PROVE WaitOf(q)'
    BY DEF Waits
  <2>1. WaitOf(q)
    BY <1>2 DEF Waits
  <2>2. CASE q # r
    BY <2>1, <2>2 DEF WaitOf, Stays
  <2> QED
    BY <2>1, <2>2
<1> QED
  BY <1>1, <1>2 DEF ServiceInv

(***************************************************************************)
(* The times, as numbers.                                                  *)
(***************************************************************************)
LEMMA Times ==
  /\ QueueTimeout \in Nat \ {0} /\ Margin \in Nat /\ Transit \in Nat
  /\ 2 * Transit < Margin /\ Deadline = QueueTimeout + Margin
  /\ Patience \in Nat \ {0} /\ Patience + 2 * Transit = Deadline
  /\ MaxParts \in Nat \ {0}
BY TimeAssumption, RouteAssumption DEF Deadline, Patience

(***************************************************************************)
(* A message is added at the end and read at the front.                    *)
(***************************************************************************)
LEMMA PutMessage ==
  ASSUME NEW s \in Seq(Messages), NEW m \in Messages
  PROVE  /\ Append(s, m) \in Seq(Messages) /\ Append(s, m) # <<>>
         /\ Append(s, m)[Len(Append(s, m))] = m
BY AppendProperties

LEMMA ReadMessage ==
  ASSUME NEW s \in Seq(Messages), s # <<>>
  PROVE  /\ Tail(s) \in Seq(Messages) /\ Head(s) = s[1]
         /\ Closed(s) /\ Head(s) = "line" => Closed(Tail(s))
<1>1. /\ Tail(s) \in Seq(Messages) /\ Len(Tail(s)) = Len(s) - 1
      /\ \A i \in 1..Len(Tail(s)) : Tail(s)[i] = s[i + 1]
      /\ Head(s) = s[1] /\ Len(s) \in Nat \ {0}
  BY HeadTailProperties, LenProperties, EmptySeq
<1>2. ASSUME Closed(s), Head(s) = "line" PROVE Closed(Tail(s))
  <2>1. Len(s) # 1
    BY <1>1, <1>2 DEF Closed
  <2>2. Len(Tail(s)) \in Nat \ {0}
    BY <1>1, <2>1
  <2>3. Tail(s)[Len(Tail(s))] = s[Len(s)]
    BY <1>1, <2>2
  <2>4. Tail(s) # <<>>
    BY <1>1, <2>2, EmptySeq
  <2> QED
    BY <1>2, <2>3, <2>4 DEF Closed
<1> QED
  BY <1>1, <1>2

-----------------------------------------------------------------------------
(***************************************************************************)
(* A request is asked for once; a hit asks nothing of the server.          *)
(***************************************************************************)
LEMMA AskInv ==
  ASSUME Inv, ServiceInv, NEW r \in Requests, NEW a \in Asks, Ask(r, a)
  PROVE  ServiceInv' /\ (Waits => Waits')
<1>1. TypeOK /\ ServiceTypeOK /\ WireOf(r) /\ phase[r] = "new"
  BY DEF Inv, ServiceInv, Ask, Handle
<1>2. /\ UNCHANGED <<queue, waited, of, left, sent, finished, wire, clocks, fault>>
      /\ \/ /\ place[r] = "away" /\ place' = [place EXCEPT ![r] = "coming"]
            /\ phase' = [phase EXCEPT ![r] = "opening"] /\ status' = status
         \/ /\ place' = place
            /\ \/ phase' = [phase EXCEPT ![r] = "replaying"]
               \/ phase' = [phase EXCEPT ![r] = "done"]
            /\ status' = [status EXCEPT ![r] = "200"]
  BY DEF Ask, Handle, Goto, Answer, Server!Send, Server!Goto, server
<1>3. ServiceTypeOK'
  BY <1>1, <1>2 DEF ServiceTypeOK, Server!Places, clocks
<1>4. \A q \in Requests \ {r} : Stays(q)
  BY <1>1, <1>2 DEF TypeOK, ServiceTypeOK, Stays, clocks
<1>5. /\ wire'[r] = wire[r] /\ left'[r] = left[r] /\ of'[r] = of[r] /\ fault'[r] = fault[r]
      /\ finished'[r] = finished[r] /\ waited'[r] = waited[r]
      /\ silent'[r] = silent[r] /\ late'[r] = late[r] /\ quiet'[r] = quiet[r]
      /\ \/ place[r] = "away" /\ place'[r] = "coming" /\ phase'[r] = "opening"
         \/ place'[r] = place[r] /\ phase'[r] \in {"replaying", "done"}
  BY <1>1, <1>2 DEF TypeOK, ServiceTypeOK, clocks
<1>6. WireOf(r)'
  BY <1>1, <1>5 DEF WireOf, Listening
<1>7. WaitOf(r) => WaitOf(r)'
  BY <1>1, <1>5, Times DEF WaitOf, ServiceTypeOK
<1> QED
  BY <1>3, <1>4, <1>6, <1>7, OneServed

(***************************************************************************)
(* What the route does of itself does not concern the server: a refusal,   *)
(* and what the client takes in.                                           *)
(***************************************************************************)
LEMMA OwnStepInv ==
  ASSUME Inv, ServiceInv, NEW r \in Requests, Decline(r) \/ Play(r)
  PROVE  ServiceInv' /\ (Waits => Waits')
<1>1. TypeOK /\ ServiceTypeOK /\ WireOf(r)
  BY DEF Inv, ServiceInv
<1>2. /\ UNCHANGED <<place, queue, waited, of, left, sent, finished, wire, clocks, fault>>
      /\ \/ /\ phase[r] = "new" /\ phase' = [phase EXCEPT ![r] = "done"]
            /\ \E code : status' = [status EXCEPT ![r] = code]
         \/ UNCHANGED <<phase, status>>
         \/ /\ phase[r] = "replaying" /\ phase' = [phase EXCEPT ![r] = "done"]
            /\ status' = status
  BY DEF Decline, Play, Refuse, Deliver, Replayed, Goto, Answer, server
<1>3. ServiceTypeOK'
  BY <1>1, <1>2 DEF ServiceTypeOK, clocks
<1>4. \A q \in Requests \ {r} : Stays(q)
  BY <1>1, <1>2 DEF TypeOK, ServiceTypeOK, Stays, clocks
<1>5. /\ place'[r] = place[r] /\ waited'[r] = waited[r] /\ fault'[r] = fault[r]
      /\ wire'[r] = wire[r] /\ left'[r] = left[r] /\ of'[r] = of[r]
      /\ finished'[r] = finished[r]
      /\ silent'[r] = silent[r] /\ late'[r] = late[r] /\ quiet'[r] = quiet[r]
      /\ \/ phase'[r] = phase[r] /\ status'[r] = status[r]
         \/ phase[r] \in {"new", "replaying"} /\ phase'[r] = "done"
  BY <1>1, <1>2 DEF TypeOK, clocks
<1>6. WireOf(r)'
  BY <1>1, <1>5 DEF WireOf, Listening
<1>7. WaitOf(r) => WaitOf(r)'
  BY <1>5 DEF WaitOf
<1> QED
  BY <1>3, <1>4, <1>6, <1>7, OneServed

-----------------------------------------------------------------------------
(***************************************************************************)
(* A request has been under way for as long as it has been waited for.     *)
(***************************************************************************)
LEMMA ArriveInv ==
  ASSUME Inv, ServiceInv, NEW r \in Requests, Arrive(r)
  PROVE  ServiceInv' /\ (Waits => Waits')
<1>1. TypeOK /\ ServiceTypeOK /\ WireOf(r) /\ place[r] = "coming"
  BY DEF Inv, ServiceInv, Arrive, Server!Arrive
<1>2. /\ place' = [place EXCEPT ![r] = "queued"] /\ late' = [late EXCEPT ![r] = 0]
      /\ UNCHANGED <<waited, of, left, sent, finished, wire, silent, quiet>>
      /\ UNCHANGED <<phase, status, fault>>
  BY DEF Arrive, Server!Arrive, Server!Goto, vars
<1>3. ServiceTypeOK'
  <2>1. 0 \in 0..Transit
    BY Times
  <2>2. place' \in [Requests -> Server!Places]
    BY <1>1, <1>2 DEF ServiceTypeOK, Server!Places
  <2>3. late' \in [Requests -> 0..Transit]
    BY <1>1, <1>2, <2>1 DEF ServiceTypeOK
  <2> QED
    BY <1>1, <1>2, <2>2, <2>3 DEF ServiceTypeOK
<1>4. \A q \in Requests \ {r} : Stays(q)
  BY <1>1, <1>2 DEF ServiceTypeOK, Stays
<1>5. place'[r] = "queued" /\ late'[r] = 0
  BY <1>1, <1>2 DEF ServiceTypeOK
<1>6. WireOf(r)'
  BY <1>1, <1>2, <1>5 DEF WireOf, Listening
<1>7. WaitOf(r) => WaitOf(r)'
  <2>1. late[r] \in 0..Transit /\ silent[r] \in 0..Deadline
    BY <1>1 DEF ServiceTypeOK
  <2> QED
    BY <1>1, <1>2, <1>5, <2>1, Times DEF WaitOf
<1> QED
  BY <1>3, <1>4, <1>6, <1>7, OneServed

(***************************************************************************)
(* A request that waited too long gets its 504 if it still listens.        *)
(***************************************************************************)
LEMMA ExpireInv ==
  ASSUME Inv, ServiceInv, NEW r \in Requests, Expire(r)
  PROVE  ServiceInv' /\ (Waits => Waits')
<1>1. TypeOK /\ ServiceTypeOK /\ WireOf(r) /\ place[r] = "queued" /\ wire[r] = <<>>
  BY DEF Inv, ServiceInv, Expire, Server!Expire, WireOf
<1>2. /\ place' = [place EXCEPT ![r] = "expired"]
      /\ wire' = IF Listening(r) THEN [wire EXCEPT ![r] = <<"504">>] ELSE wire
      /\ UNCHANGED <<waited, of, left, finished, silent, late, quiet, phase, status,
                     fault>>
  BY <1>1 DEF Expire, Server!Expire, Server!Goto, Server!Put, vars, clocks
<1>3. ServiceTypeOK'
  <2>1. <<"504">> \in Seq(Messages)
    BY DEF Messages
  <2>2. wire' \in [Requests -> Seq(Messages)]
    BY <1>1, <1>2, <2>1 DEF ServiceTypeOK
  <2> QED
    BY SMTT(30), <1>1, <1>2, <2>2, Times DEF ServiceTypeOK, Server!Places
<1>4. \A q \in Requests \ {r} : Stays(q)
  BY <1>1, <1>2 DEF ServiceTypeOK, Stays
<1>5. /\ place'[r] = "expired" /\ wire'[r] \in {<<>>, <<"504">>}
      /\ phase[r] = "opening" => wire'[r] = <<"504">>
  BY <1>1, <1>2 DEF ServiceTypeOK, Listening
<1>6. WireOf(r)'
  BY <1>1, <1>2, <1>5 DEF WireOf, Listening
<1>7. WaitOf(r) => WaitOf(r)'
  <2>1. /\ waited[r] \in 0..Patience /\ silent[r] \in 0..Deadline
        /\ late[r] \in 0..Transit
    BY <1>1 DEF ServiceTypeOK
  <2> QED
    BY <1>1, <1>2, <1>5, <2>1, Times DEF WaitOf
<1> QED
  BY <1>3, <1>4, <1>6, <1>7, OneServed

-----------------------------------------------------------------------------
(***************************************************************************)
(* A worker takes only a request it has not had before.                    *)
(***************************************************************************)
LEMMA PickInv ==
  ASSUME Inv, ServiceInv, NEW r \in Requests, NEW n \in 1..MaxParts,
         Server!Pick(r, n), quiet' = [quiet EXCEPT ![r] = 0],
         UNCHANGED <<vars, silent, late>>
  PROVE  ServiceInv' /\ (Waits => Waits')
<1>1. /\ TypeOK /\ ServiceTypeOK /\ WireOf(r)
      /\ left[r] = None /\ finished[r] = None
  BY DEF Inv, ServiceInv, Server!Pick, Server!Take!Start
<1>2. /\ place' = [place EXCEPT ![r] = "serving"] /\ of' = [of EXCEPT ![r] = n]
      /\ left' = [left EXCEPT ![r] = n] /\ waited' = [waited EXCEPT ![r] = 0]
      /\ quiet' = [quiet EXCEPT ![r] = 0]
      /\ UNCHANGED <<finished, wire, silent, late, phase, status, fault>>
  BY DEF Server!Pick, Server!Goto, Server!Take!Start, vars
<1>3. ServiceTypeOK'
  BY SMTT(30), <1>1, <1>2, Times DEF ServiceTypeOK, Server!Places
<1>4. \A q \in Requests \ {r} : Stays(q)
  BY <1>1, <1>2 DEF ServiceTypeOK, Stays
<1>5. /\ place'[r] = "serving" /\ of'[r] = n /\ left'[r] = n /\ n # None
      /\ phase'[r] = phase[r]
  BY <1>1, <1>2, TimeAssumption, Times DEF ServiceTypeOK
<1>6. phase[r] \notin {"collecting", "sending"}
  BY <1>1 DEF WireOf
<1>7. WireOf(r)'
  BY <1>5, <1>6 DEF WireOf
<1>8. WaitOf(r)'
  BY <1>5 DEF WaitOf
<1> QED
  BY <1>3, <1>4, <1>7, <1>8, OneServed

(***************************************************************************)
(* What a worker sends is heard by a gateway that listens, and breaks the  *)
(* silence; the last message of a take is not a line.                      *)
(***************************************************************************)
LEMMA SpeaksInv ==
  ASSUME Inv, ServiceInv, NEW r \in Requests, NEW m \in Messages,
         NEW p \in {"serving", "served"}, place[r] = "serving",
         Server!Put(r, m, Listening(r)), place' = [place EXCEPT ![r] = p],
         \E n \in (0..MaxParts) \cup {None} : left' = [left EXCEPT ![r] = n],
         \E f \in {"ok", "error", None} : finished' = [finished EXCEPT ![r] = f],
         quiet' = [quiet EXCEPT ![r] = 0],
         UNCHANGED <<waited, of, silent, late, vars>>,
         p = "serving" => left'[r] # None,
         p = "served" => finished'[r] # None /\ m # "line"
  PROVE  ServiceInv' /\ (Waits => Waits')
<1>1. TypeOK /\ ServiceTypeOK /\ WireOf(r)
  BY DEF Inv, ServiceInv
<1>2. wire[r] \in Seq(Messages)
  BY <1>1 DEF ServiceTypeOK
<1>3. PICK s \in Seq(Messages) : /\ s = Append(wire[r], m)
                                 /\ s # <<>> /\ s[Len(s)] = m
  BY <1>2, PutMessage
<1>4. wire' = IF Listening(r) THEN [wire EXCEPT ![r] = s] ELSE wire
  BY <1>3 DEF Server!Put
<1>5. ServiceTypeOK'
  <2>1. wire' \in [Requests -> Seq(Messages)]
    BY <1>1, <1>4 DEF ServiceTypeOK
  <2>2. left' \in [Requests -> (0..MaxParts) \cup {None}]
    BY <1>1 DEF ServiceTypeOK
  <2>3. finished' \in [Requests -> {"ok", "error", None}]
    BY <1>1 DEF ServiceTypeOK
  <2>4. place' \in [Requests -> Server!Places]
    BY <1>1 DEF ServiceTypeOK, Server!Places
  <2> QED
    BY SMTT(30), <1>1, <2>1, <2>2, <2>3, <2>4, Times DEF ServiceTypeOK
<1>6. \A q \in Requests \ {r} : Stays(q)
  BY <1>1, <1>4 DEF ServiceTypeOK, Stays, vars
<1>7. /\ place'[r] = p /\ of'[r] = of[r] /\ phase'[r] = phase[r]
      /\ Listening(r) => wire'[r] = s
  BY <1>1, <1>4 DEF ServiceTypeOK, vars
<1>8. WireOf(r)'
  BY <1>1, <1>3, <1>7 DEF WireOf, Listening, Closed
<1>9. WaitOf(r)'
  BY <1>7 DEF WaitOf
<1> QED
  BY <1>5, <1>6, <1>8, <1>9, OneServed

LEMMA ServeInv ==
  ASSUME Inv, ServiceInv, NEW r \in Requests, Serve(r)
  PROVE  ServiceInv' /\ (Waits => Waits')
<1>1. /\ ServiceTypeOK /\ WireOf(r)
      /\ quiet' = [quiet EXCEPT ![r] = 0] /\ UNCHANGED <<vars, silent, late>>
  BY DEF ServiceInv, Serve
<1>2. /\ place \in [Requests -> Server!Places]
      /\ left \in [Requests -> (0..MaxParts) \cup {None}]
      /\ finished \in [Requests -> {"ok", "error", None}]
      /\ None \notin {"ok", "error"} /\ None \notin 0..MaxParts
  BY <1>1, TimeAssumption DEF ServiceTypeOK
<1>3. CASE \E n \in 1..MaxParts : Server!Pick(r, n)
  BY <1>1, <1>3, PickInv
<1>4. CASE Server!Line(r, Listening(r))
  <2>1. /\ place[r] = "serving" /\ left[r] \notin {None, 0}
        /\ left' = [left EXCEPT ![r] = left[r] - 1] /\ finished' = finished
        /\ Server!Put(r, "line", Listening(r))
        /\ UNCHANGED <<place, waited, of>>
    BY <1>4 DEF Server!Line, Server!Take!Line
  <2>2. left[r] - 1 \in 0..MaxParts
    BY <1>2, <2>1, Times
  <2>3. left'[r] # None
    BY <1>2, <2>1, <2>2
  <2>4. place' = [place EXCEPT ![r] = "serving"]
    BY <1>2, <2>1
  <2>5. finished' = [finished EXCEPT ![r] = finished[r]]
    BY <1>2, <2>1
  <2>6. finished[r] \in {"ok", "error", None} /\ "line" \in Messages
    BY <1>2 DEF Messages
  <2> QED
    BY <1>1, <2>1, <2>2, <2>3, <2>4, <2>5, <2>6, SpeaksInv
<1>5. CASE Server!End(r, Listening(r))
  <2>1. /\ place[r] = "serving" /\ place' = [place EXCEPT ![r] = "served"]
        /\ left' = [left EXCEPT ![r] = None]
        /\ finished' = [finished EXCEPT ![r] = "ok"]
        /\ Server!Put(r, "end", Listening(r))
        /\ UNCHANGED <<waited, of>>
    BY <1>5 DEF Server!End, Server!Take!End, Server!Goto
  <2>2. finished'[r] # None /\ "end" \in Messages
    BY <1>2, <2>1 DEF Messages
  <2> QED
    BY <1>1, <2>1, <2>2, SpeaksInv
<1>6. CASE Server!Fail(r, Listening(r))
  <2>1. /\ place[r] = "serving" /\ place' = [place EXCEPT ![r] = "served"]
        /\ left' = [left EXCEPT ![r] = None]
        /\ finished' = [finished EXCEPT ![r] = "error"]
        /\ UNCHANGED <<waited, of>>
    BY <1>6 DEF Server!Fail, Server!Take!Fail, Server!Goto
  <2>2. PICK m \in {"422", "500", "cut"} : Server!Put(r, m, Listening(r))
    BY <1>6 DEF Server!Fail
  <2>3. finished'[r] # None /\ m \in Messages /\ m # "line"
    BY <1>2, <2>1 DEF Messages
  <2> QED
    BY <1>1, <2>1, <2>2, <2>3, SpeaksInv
<1> QED
  BY <1>3, <1>4, <1>5, <1>6 DEF Serve

-----------------------------------------------------------------------------
(***************************************************************************)
(* Whatever the gateway hears, its clocks start again.                     *)
(***************************************************************************)
LEMMA HeardTypes ==
  ASSUME ServiceTypeOK, NEW r \in Requests, Heard(r)
  PROVE  /\ silent' \in [Requests -> 0..Deadline] /\ silent'[r] = 0
         /\ late' \in [Requests -> 0..Transit] /\ late'[r] = 0
         /\ quiet' \in [Requests -> 0..QueueTimeout]
         /\ \A q \in Requests \ {r} :
              silent'[q] = silent[q] /\ late'[q] = late[q] /\ quiet'[q] = quiet[q]
BY Times DEF Heard, ServiceTypeOK

(***************************************************************************)
(* A line comes from a worker, which either goes on or has said its last   *)
(* word already.                                                           *)
(***************************************************************************)
LEMMA ReadLineInv ==
  ASSUME Inv, ServiceInv, NEW r \in Requests, Server!Read(r, "line"), Heard(r),
         FirstChunk(r, of[r]) \/ NextChunk(r)
  PROVE  ServiceInv' /\ (Waits => Waits')
<1>1. TypeOK /\ ServiceTypeOK /\ WireOf(r) /\ Listening(r)
  BY DEF Inv, ServiceInv, FirstChunk, NextChunk, Awaiting, Listening
<1>2. /\ wire[r] \in Seq(Messages) /\ wire[r] # <<>> /\ Head(wire[r]) = "line"
      /\ wire' = [wire EXCEPT ![r] = Tail(wire[r])]
      /\ UNCHANGED <<place, waited, of, left, finished>>
  BY <1>1 DEF ServiceTypeOK, Server!Read
<1>3. /\ Tail(wire[r]) \in Seq(Messages)
      /\ Closed(wire[r]) => Closed(Tail(wire[r]))
  BY <1>2, ReadMessage
<1>4. place[r] \in {"serving", "served"}
  <2>1. wire[r] # <<"504">>
    BY <1>2
  <2> QED
    BY <1>1, <1>2, <2>1 DEF WireOf, ServiceTypeOK, Server!Places
<1>5. /\ UNCHANGED fault
      /\ \/ phase' = [phase EXCEPT ![r] = "sending"]
         \/ phase' = [phase EXCEPT ![r] = "collecting"]
         \/ phase' = phase
      /\ status' = [status EXCEPT ![r] = "200"] \/ status' = status
  BY DEF FirstChunk, NextChunk, Goto, Answer
<1>6. ServiceTypeOK'
  BY <1>1, <1>2, <1>3, HeardTypes DEF ServiceTypeOK
<1>7. \A q \in Requests \ {r} : Stays(q)
  BY <1>1, <1>2, <1>5, HeardTypes DEF TypeOK, ServiceTypeOK, Stays
<1>8. wire'[r] = Tail(wire[r]) /\ silent'[r] = 0 /\ quiet'[r] \in 0..QueueTimeout
  BY <1>1, <1>2, HeardTypes DEF ServiceTypeOK
<1>9. WireOf(r)'
  BY <1>1, <1>2, <1>3, <1>4, <1>8 DEF WireOf
<1>10. WaitOf(r)'
  BY <1>2, <1>4 DEF WaitOf
<1> QED
  BY <1>6, <1>7, <1>9, <1>10, OneServed

(***************************************************************************)
(* Once the gateway is done with a request, all that is left to say of it  *)
(* is how a request ended that no worker took.                             *)
(***************************************************************************)
LEMMA DoneInv ==
  ASSUME Inv, ServiceInv, NEW r \in Requests, Heard(r), phase[r] # "new",
         wire' \in [Requests -> Seq(Messages)],
         wire[r] = <<>> \/ place[r] = "expired" => wire'[r] = <<>>,
         UNCHANGED <<place, waited, of, left, finished>>,
         phase' = [phase EXCEPT ![r] = "done"],
         \A q \in Requests \ {r} :
           wire'[q] = wire[q] /\ status'[q] = status[q] /\ fault'[q] = fault[q],
         WaitOf(r) => \/ place[r] \in {"away", "serving", "served"}
                      \/ place[r] \in {"queued", "expired"} /\ waited[r] = Patience
                      \/ place[r] = "expired" /\ status'[r] = "504",
         WaitOf(r) /\ place[r] \notin {"serving", "served"} /\ waited[r] # Patience =>
           fault'[r] # "timeout"
  PROVE  ServiceInv' /\ (Waits => Waits')
<1>1. TypeOK /\ ServiceTypeOK /\ WireOf(r)
  BY DEF Inv, ServiceInv
<1>2. ServiceTypeOK'
  BY <1>1, HeardTypes DEF ServiceTypeOK
<1>3. \A q \in Requests \ {r} : Stays(q)
  BY <1>1, HeardTypes DEF TypeOK, ServiceTypeOK, Stays
<1>4. /\ phase'[r] = "done"
      /\ silent'[r] = 0 /\ late'[r] = 0
  BY <1>1, HeardTypes DEF TypeOK, ServiceTypeOK
<1>5. WireOf(r)'
  BY <1>1, <1>4 DEF WireOf, Listening
<1>6. WaitOf(r) => WaitOf(r)'
  BY <1>1, <1>4 DEF WaitOf
<1> QED
  BY <1>2, <1>3, <1>5, <1>6, OneServed

LEMMA ReceiveInv ==
  ASSUME Inv, ServiceInv, NEW r \in Requests, Receive(r)
  PROVE  ServiceInv' /\ (Waits => Waits')
<1>1. TypeOK /\ ServiceTypeOK /\ WireOf(r) /\ Heard(r)
  BY DEF Inv, ServiceInv, Receive
<1>2. PICK m \in Messages : Server!Read(r, m) /\ Head(wire[r]) = m
  BY DEF Receive, Server!Read, Messages
<1>3. /\ wire[r] \in Seq(Messages) /\ wire[r] # <<>>
      /\ wire' = [wire EXCEPT ![r] = Tail(wire[r])]
      /\ Tail(wire[r]) \in Seq(Messages)
      /\ UNCHANGED <<place, waited, of, left, finished>>
  BY <1>1, <1>2, ReadMessage DEF ServiceTypeOK, Server!Read
<1>4. /\ wire' \in [Requests -> Seq(Messages)] /\ wire'[r] = Tail(wire[r])
      /\ \A q \in Requests \ {r} : wire'[q] = wire[q]
  BY <1>1, <1>3 DEF ServiceTypeOK
<1>5. /\ place[r] \in {"expired", "serving", "served"}
      /\ place[r] = "expired" => wire[r] = <<"504">>
  BY <1>1, <1>3 DEF WireOf, ServiceTypeOK, Server!Places
<1>6. ASSUME place[r] = "expired" PROVE wire'[r] = <<>> /\ m = "504"
  <2>1. wire[r] = <<"504">>
    BY <1>5, <1>6
  <2>2. Head(<<"504">>) = "504" /\ Tail(<<"504">>) = <<>>
    OBVIOUS
  <2> QED
    BY <1>2, <1>4, <2>1, <2>2
<1>7. CASE Server!Read(r, "line") /\ (FirstChunk(r, of[r]) \/ NextChunk(r))
  BY <1>1, <1>7, ReadLineInv
<1>8. CASE \/ Server!Read(r, "end") /\ Exhausted(r)
           \/ Server!Read(r, "cut") /\ ConnectionLost(r)
  <2>1. /\ phase[r] \in {"collecting", "sending"}
        /\ phase' = [phase EXCEPT ![r] = "done"]
        /\ \E code : status' \in {status, [status EXCEPT ![r] = code]}
        /\ fault' \in {fault, [fault EXCEPT ![r] = "broken"]}
    BY <1>8 DEF Exhausted, ConnectionLost, Awaiting, BreaksOff, Goto, Answer, Fault
  <2>2. \A q \in Requests \ {r} : status'[q] = status[q] /\ fault'[q] = fault[q]
    BY <1>1, <2>1 DEF TypeOK
  <2>3. place[r] \in {"serving", "served"}
    BY <1>1, <2>1 DEF WireOf
  <2> QED
    BY <1>1, <1>3, <1>4, <2>1, <2>2, <2>3, DoneInv
<1>9. ASSUME NEW code \in {"422", "500", "504"},
             Server!Read(r, code), Fails(r, "rejected", code)
      PROVE  ServiceInv' /\ (Waits => Waits')
  <2>1. /\ phase[r] = "opening" /\ phase' = [phase EXCEPT ![r] = "done"]
        /\ status' = [status EXCEPT ![r] = code]
        /\ fault' = [fault EXCEPT ![r] = "rejected"]
    BY <1>9 DEF Fails, Goto, Answer, Fault
  <2>2. /\ status'[r] = code /\ fault'[r] = "rejected"
        /\ \A q \in Requests \ {r} : status'[q] = status[q] /\ fault'[q] = fault[q]
    BY <1>1, <2>1 DEF TypeOK
  <2>3. code = m
    BY <1>2, <1>9 DEF Server!Read
  <2>4. place[r] = "expired" => status'[r] = "504"
    BY <1>6, <2>2, <2>3
  <2> QED
    BY <1>1, <1>3, <1>4, <1>5, <1>6, <2>1, <2>2, <2>4, DoneInv
<1> QED
  BY <1>7, <1>8, <1>9 DEF Receive

(***************************************************************************)
(* The gateway's own timeout strikes no request that waits for a worker,   *)
(* but one left in the queue for too long: the way there, its time in the  *)
(* queue and the way back are shorter.                                     *)
(***************************************************************************)
LEMMA GivesUpInv ==
  ASSUME Inv, ServiceInv, NEW r \in Requests, GivesUp(r)
  PROVE  ServiceInv' /\ (Waits => Waits')
<1>1. /\ TypeOK /\ ServiceTypeOK /\ WireOf(r) /\ Heard(r)
      /\ silent[r] = Deadline
      /\ phase[r] \in {"opening", "collecting", "sending"}
  BY DEF Inv, ServiceInv, GivesUp, TimesOutOpening, TimesOut, Fails, Awaiting
<1>2. /\ phase' = [phase EXCEPT ![r] = "done"]
      /\ status' \in {status, [status EXCEPT ![r] = "500"]}
      /\ fault' = [fault EXCEPT ![r] = "timeout"]
      /\ wire' = [wire EXCEPT ![r] = <<>>] /\ <<>> \in Seq(Messages)
      /\ UNCHANGED <<place, waited, of, left, finished>>
  BY DEF GivesUp, TimesOutOpening, TimesOut, Fails, BreaksOff, Goto, Answer, Fault,
         Server!Close
<1>3. /\ wire' \in [Requests -> Seq(Messages)] /\ wire'[r] = <<>>
      /\ \A q \in Requests \ {r} :
           wire'[q] = wire[q] /\ status'[q] = status[q] /\ fault'[q] = fault[q]
  BY <1>1, <1>2 DEF TypeOK, ServiceTypeOK
<1>4. WaitOf(r) => \/ place[r] \in {"serving", "served"}
                   \/ place[r] \in {"queued", "expired"} /\ waited[r] = Patience
  <2>1. /\ waited[r] \in 0..Patience /\ late[r] \in 0..Transit
        /\ place[r] \in Server!Places
    BY <1>1 DEF ServiceTypeOK
  <2> QED
    BY <1>1, <2>1, Times DEF WaitOf, Server!Places
<1> QED
  BY <1>1, <1>2, <1>3, <1>4, DoneInv

LEMMA ClientLeavesInv ==
  ASSUME Inv, ServiceInv, NEW r \in Requests, ClientLeaves(r)
  PROVE  ServiceInv' /\ (Waits => Waits')
<1>1. /\ TypeOK /\ ServiceTypeOK /\ WireOf(r) /\ Heard(r)
      /\ phase[r] \in {"sending", "replaying"}
  BY DEF Inv, ServiceInv, ClientLeaves, HangUp
<1>2. /\ phase' = [phase EXCEPT ![r] = "done"] /\ UNCHANGED <<status, fault>>
      /\ wire' = [wire EXCEPT ![r] = <<>>] /\ <<>> \in Seq(Messages)
      /\ UNCHANGED <<place, waited, of, left, finished>>
  BY DEF ClientLeaves, HangUp, Goto, Server!Close
<1>3. /\ wire' \in [Requests -> Seq(Messages)] /\ wire'[r] = <<>>
      /\ \A q \in Requests \ {r} : wire'[q] = wire[q]
  BY <1>1, <1>2 DEF ServiceTypeOK
<1>4. WaitOf(r) => /\ \/ place[r] \in {"away", "serving", "served"}
                      \/ place[r] \in {"queued", "expired"} /\ waited[r] = Patience
                   /\ place[r] \notin {"serving", "served"} /\ waited[r] # Patience =>
                        fault[r] # "timeout"
  BY <1>1 DEF WaitOf, ServiceTypeOK, Server!Places
<1> QED
  BY <1>1, <1>2, <1>3, <1>4, DoneInv

-----------------------------------------------------------------------------
(***************************************************************************)
(* A tick costs the worker that is silent as much as the gateway that      *)
(* waits for it.                                                           *)
(***************************************************************************)
LEMMA TickInv ==
  ASSUME Inv, ServiceInv, Tick
  PROVE  ServiceInv' /\ (Waits => Waits')
<1>1. ServiceTypeOK
  BY DEF ServiceInv
<1>2. /\ UNCHANGED <<place, of, left, finished, wire, vars>>
      /\ waited' = [r \in Requests |->
           IF place[r] = "queued" THEN Server!Count(waited[r], Patience) ELSE waited[r]]
      /\ late' = [r \in Requests |-> IF UnderWay(r) THEN late[r] + 1 ELSE late[r]]
      /\ silent' = [r \in Requests |->
           IF Reading(r) THEN Server!Count(silent[r], Deadline) ELSE silent[r]]
      /\ quiet' = [r \in Requests |->
           IF place[r] = "serving" /\ Listening(r)
           THEN Server!Count(quiet[r], QueueTimeout) ELSE quiet[r]]
  BY DEF Tick, Server!Tick
<1>3. ASSUME NEW r \in Requests
      PROVE  /\ waited[r] \in 0..Patience /\ late[r] \in 0..Transit
             /\ silent[r] \in 0..Deadline /\ quiet[r] \in 0..QueueTimeout
             /\ waited'[r] \in 0..Patience /\ late'[r] \in 0..Transit
             /\ silent'[r] \in 0..Deadline /\ quiet'[r] \in 0..QueueTimeout
  <2>1. /\ waited[r] \in 0..Patience /\ late[r] \in 0..Transit
        /\ silent[r] \in 0..Deadline /\ quiet[r] \in 0..QueueTimeout
    BY <1>1 DEF ServiceTypeOK
  <2>2. UnderWay(r) => late[r] < Transit
    BY DEF Tick
  <2>3. waited'[r] \in 0..Patience /\ quiet'[r] \in 0..QueueTimeout
    BY <1>2, <2>1, Times DEF Server!Count
  <2>4. silent'[r] \in 0..Deadline
    BY <1>2, <2>1, Times DEF Server!Count
  <2>5. late'[r] \in 0..Transit
    BY <1>2, <2>1, <2>2, Times
  <2> QED
    BY <2>1, <2>3, <2>4, <2>5
<1>4. ServiceTypeOK'
  BY <1>1, <1>2, <1>3 DEF ServiceTypeOK
<1>5. ASSUME NEW r \in Requests PROVE WireOf(r)'
  <2>1. WireOf(r)
    BY DEF ServiceInv
  <2>2. ASSUME phase[r] \in {"collecting", "sending"}, wire[r] = <<>>
        PROVE  quiet'[r] = QueueTimeout \/ silent'[r] <= quiet'[r]
    <3>1. /\ quiet[r] = QueueTimeout \/ silent[r] <= quiet[r]
          /\ place[r] = "serving" /\ Listening(r)
      BY <2>1, <2>2 DEF WireOf, Listening, Closed
    <3>2. quiet'[r] = IF quiet[r] < QueueTimeout THEN quiet[r] + 1 ELSE quiet[r]
      BY <1>2, <3>1 DEF Server!Count
    <3>3. silent'[r] = silent[r] \/ silent'[r] = silent[r] + 1
      BY <1>2 DEF Server!Count
    <3> QED
      BY <1>3, <3>1, <3>2, <3>3, Times
  <2> QED
    BY <1>2, <2>1, <2>2 DEF WireOf, Listening, vars
<1>6. ASSUME Waits, NEW r \in Requests PROVE WaitOf(r)'
  <2>1. WaitOf(r) /\ WireOf(r)
    BY <1>6 DEF ServiceInv, Waits
  <2>2. UNCHANGED <<place, wire, phase, status, fault>>
    BY <1>2 DEF vars
  <2>3. /\ late'[r] = IF UnderWay(r) THEN late[r] + 1 ELSE late[r]
        /\ silent'[r] = silent[r] \/ silent'[r] = silent[r] + 1
        /\ ~Reading(r) => silent'[r] = silent[r]
    BY <1>2 DEF Server!Count
  <2>4. CASE place[r] = "away"
    <3>1. ~Reading(r) /\ ~UnderWay(r) /\ waited'[r] = waited[r]
      BY <1>2, <2>1, <2>4 DEF WaitOf, WireOf, Reading, Awaiting, UnderWay
    <3> QED
      BY <2>1, <2>2, <2>3, <2>4, <3>1 DEF WaitOf
  <2>5. CASE place[r] = "coming"
    <3>1. UnderWay(r) /\ waited'[r] = waited[r]
      BY <1>2, <2>5 DEF UnderWay
    <3>2. late'[r] = late[r] + 1
      BY <2>3, <3>1
    <3>3. silent[r] <= late[r] => silent'[r] <= late'[r]
      BY <1>3, <2>3, <3>2, Times
    <3> QED
      BY <2>1, <2>2, <2>5, <3>1, <3>3 DEF WaitOf
  <2>6. CASE place[r] = "queued"
    <3>1. wire[r] = <<>> /\ ~UnderWay(r) /\ late'[r] = late[r]
      BY <2>1, <2>3, <2>6 DEF WireOf, UnderWay
    <3>2. CASE waited[r] = Patience
      <4>1. waited'[r] = Patience
        BY <1>2, <2>6, <3>2, Times DEF Server!Count
      <4> QED
        BY <2>2, <2>6, <4>1 DEF WaitOf
    <3>3. CASE waited[r] # Patience
      <4>1. waited'[r] = waited[r] + 1
        BY <1>2, <1>3, <2>6, <3>3, Times DEF Server!Count
      <4>2. silent[r] <= Transit + waited[r] => silent'[r] <= Transit + waited'[r]
        BY <1>3, <2>3, <4>1, Times
      <4> QED
        BY <2>1, <2>2, <2>6, <3>1, <3>3, <4>2 DEF WaitOf
    <3> QED
      BY <3>2, <3>3
  <2>7. CASE place[r] = "expired"
    <3>1. waited'[r] = waited[r]
      BY <1>2, <2>7
    <3>2. CASE waited[r] = Patience
      BY <2>2, <2>7, <3>1, <3>2 DEF WaitOf
    <3>3. CASE waited[r] # Patience /\ phase[r] = "opening" /\ wire[r] = <<"504">>
      <4>1. UnderWay(r)
        BY <3>3 DEF UnderWay, Reading
      <4>2. late'[r] = late[r] + 1 /\ silent[r] <= Transit + waited[r] + late[r]
        BY <2>1, <2>3, <2>7, <3>3, <4>1 DEF WaitOf
      <4>3. silent'[r] <= Transit + waited'[r] + late'[r]
        BY <1>3, <2>3, <3>1, <4>2, Times
      <4> QED
        BY <2>1, <2>2, <2>7, <3>1, <3>3, <4>3 DEF WaitOf
    <3>4. CASE phase[r] = "done" /\ status[r] = "504"
      BY <2>1, <2>2, <2>7, <3>1, <3>4 DEF WaitOf
    <3> QED
      BY <2>1, <2>7, <3>2, <3>3, <3>4 DEF WaitOf
  <2>8. CASE place[r] \in {"serving", "served"}
    BY <2>2, <2>8 DEF WaitOf
  <2>9. place[r] \in Server!Places
    BY <1>1 DEF ServiceTypeOK
  <2> QED
    BY <2>4, <2>5, <2>6, <2>7, <2>8, <2>9 DEF Server!Places
<1> QED
  BY <1>4, <1>5, <1>6 DEF ServiceInv, Waits

-----------------------------------------------------------------------------
LEMMA ServiceInvInit == ServiceInit => ServiceInv /\ Waits
<1> SUFFICES ASSUME ServiceInit PROVE ServiceInv /\ Waits
  OBVIOUS
<1>1. /\ place = [r \in Requests |-> "away"] /\ waited = [r \in Requests |-> 0]
      /\ of = [r \in Requests |-> 0] /\ wire = [r \in Requests |-> <<>>]
      /\ left = [r \in Requests |-> None] /\ finished = [r \in Requests |-> None]
      /\ silent = [r \in Requests |-> 0] /\ late = [r \in Requests |-> 0]
      /\ quiet = [r \in Requests |-> 0]
      /\ phase = [r \in Requests |-> "new"] /\ fault = [r \in Requests |-> None]
  BY DEF ServiceInit, Init, Server!Init, Server!Take!Init
<1>2. ServiceTypeOK
  BY <1>1, Times DEF ServiceTypeOK, Server!Places
<1>3. \A r \in Requests : WireOf(r)
  BY <1>1 DEF WireOf
<1>4. Waits
  BY <1>1, RouteAssumption DEF Waits, WaitOf, Faults
<1> QED
  BY <1>2, <1>3, <1>4 DEF ServiceInv

LEMMA ServiceNextInv ==
  ASSUME Inv, ServiceInv, [ServiceNext]_serviceVars
  PROVE  ServiceInv' /\ (Waits => Waits')
<1>1. CASE UNCHANGED serviceVars
  BY <1>1 DEF serviceVars, vars, server, clocks, ServiceInv, ServiceTypeOK, WireOf,
              Listening, Closed, Waits, WaitOf
<1>2. ASSUME NEW r \in Requests, Due(r) PROVE ServiceInv' /\ (Waits => Waits')
  BY <1>2, ArriveInv, ExpireInv, ReceiveInv, GivesUpInv, OwnStepInv, ClientLeavesInv
  DEF Due
<1>3. ASSUME NEW r \in Requests, Decline(r) \/ (\E a \in Asks : Ask(r, a)) \/ Serve(r)
      PROVE  ServiceInv' /\ (Waits => Waits')
  BY <1>3, OwnStepInv, AskInv, ServeInv
<1>4. CASE Tick
  BY <1>4, TickInv
<1> QED
  BY <1>1, <1>2, <1>3, <1>4 DEF ServiceNext

(***************************************************************************)
(* A step of the service is one of the route, or none.                     *)
(***************************************************************************)
LEMMA ServiceStep ==
  ASSUME ServiceInv, [ServiceNext]_serviceVars PROVE [Next]_vars
<1>1. CASE UNCHANGED serviceVars
  BY <1>1 DEF serviceVars
<1>2. ASSUME NEW r \in Requests, Receive(r) PROVE Opens(r) \/ Continues(r)
  <2>1. CASE Server!Read(r, "line") /\ (FirstChunk(r, of[r]) \/ NextChunk(r))
    <3>1. of[r] \in 1..MaxParts
      <4>1. ServiceTypeOK /\ WireOf(r)
        BY DEF ServiceInv
      <4>2. wire[r] # <<>> /\ wire[r] # <<"504">>
        BY <2>1 DEF Server!Read
      <4> QED
        BY <4>1, <4>2 DEF WireOf, ServiceTypeOK, Server!Places
    <3> QED
      BY <2>1, <3>1 DEF Opens, Continues
  <2>2. CASE Exhausted(r) \/ ConnectionLost(r)
    BY <2>2 DEF Continues
  <2>3. CASE \E code \in {"422", "500", "504"} : Fails(r, "rejected", code)
    BY <2>3 DEF Opens, WorkerRejects
  <2> QED
    BY <1>2, <2>1, <2>2, <2>3 DEF Receive
<1>3. ASSUME NEW r \in Requests, Due(r)
      PROVE  Opens(r) \/ Continues(r) \/ Consumes(r) \/ Replayed(r) \/ UNCHANGED vars
  BY <1>2, <1>3 DEF Due, Arrive, Expire, GivesUp, Play, ClientLeaves, Opens, Continues,
                    Consumes
<1>4. ASSUME NEW r \in Requests, Decline(r) \/ (\E a \in Asks : Ask(r, a)) \/ Serve(r)
      PROVE  Refuse(r) \/ (\E a \in Asked : Handle(r, a)) \/ UNCHANGED vars
  BY <1>4, TimeAssumption DEF Decline, Ask, Serve
<1>5. Tick => UNCHANGED vars
  BY DEF Tick
<1> QED
  BY <1>1, <1>3, <1>4, <1>5 DEF ServiceNext, Next

LEMMA ServiceInvHolds ==
  Faithful /\ ServiceSpec => [](Inv /\ ServiceInv /\ Waits)
<1> SUFFICES ASSUME Faithful
             PROVE  ServiceSpec => [](Inv /\ ServiceInv /\ Waits)
  OBVIOUS
<1>1. ServiceInit => Inv /\ ServiceInv /\ Waits
  BY InitInv, ServiceInvInit DEF ServiceInit
<1>2. /\ Inv /\ ServiceInv /\ Waits
      /\ [ServiceNext]_serviceVars
      => Inv' /\ ServiceInv' /\ Waits'
  BY NextInv, ServiceNextInv, ServiceStep
<1> QED
  BY <1>1, <1>2, PTL DEF ServiceSpec

-----------------------------------------------------------------------------
(***************************************************************************)
(* The service is the route with its worker and its clocks: whatever is    *)
(* proved of a request there, is true of it here.                          *)
(***************************************************************************)
THEOREM ServiceImplementsRoute == Faithful /\ ServiceSpec => Spec
<1>1. ServiceInit => Init
  BY DEF ServiceInit
<1>2. ServiceInv /\ [ServiceNext]_serviceVars => [Next]_vars
  BY ServiceStep
<1> QED
  BY <1>1, <1>2, ServiceInvHolds, PTL DEF ServiceSpec, Spec

(***************************************************************************)
(* client.py:23-25, "so LitServe's own queue timeout returns the 504":     *)
(* whatever the load and the timeouts are and whenever LitServe looks at   *)
(* its queue, a request no worker took meets the gateway's own timeout     *)
(* only if it was in the queue for all of the margin but a round trip.     *)
(***************************************************************************)
THEOREM NoOneIsKeptWaiting ==
  Faithful /\ ServiceSpec => []OverloadIsTold
<1> SUFFICES ASSUME Faithful PROVE ServiceSpec => []OverloadIsTold
  OBVIOUS
<1>1. Inv /\ ServiceInv /\ Waits => OverloadIsTold
  <2> SUFFICES ASSUME Waits, NEW r \in Requests, waited[r] < Patience
               PROVE  /\ fault[r] = "timeout" => place[r] \in {"serving", "served"}
                      /\ place[r] = "expired" /\ phase[r] = "done" => status[r] = "504"
    BY DEF OverloadIsTold
  <2>1. waited[r] # Patience
    BY Times
  <2> QED
    BY <2>1 DEF Waits, WaitOf
<1> QED
  BY <1>1, ServiceInvHolds, PTL

(***************************************************************************)
(* No fault is a timeout but the one of the gateway that gives up.         *)
(***************************************************************************)
LEMMA OnlySilenceTimesOut ==
  ASSUME Inv, [ServiceNext]_serviceVars, NEW r \in Requests,
         fault'[r] = "timeout", fault[r] # "timeout"
  PROVE  GivesUp(r)
<1>1. fault \in [Requests -> Faults \cup {None}]
  BY DEF Inv, TypeOK
<1>2. fault' # fault
  OBVIOUS
<1>3. ASSUME NEW q \in Requests, Due(q) PROVE q = r /\ GivesUp(r)
  <2>1. CASE GivesUp(q)
    <3>1. fault' = [fault EXCEPT ![q] = "timeout"]
      BY <2>1 DEF GivesUp, TimesOutOpening, TimesOut, Fails, BreaksOff, Fault
    <3> QED
      BY <1>1, <2>1, <3>1
  <2>2. CASE Receive(q)
    <3>1. fault' \in {fault, [fault EXCEPT ![q] = "broken"],
                      [fault EXCEPT ![q] = "rejected"]}
      BY <2>2 DEF Receive, FirstChunk, NextChunk, Exhausted, ConnectionLost, Fails,
                  BreaksOff, Fault
    <3> QED
      BY <1>1, <3>1
  <2>3. CASE Arrive(q) \/ Expire(q) \/ Play(q) \/ ClientLeaves(q)
    BY <1>2, <2>3 DEF Arrive, Expire, Play, ClientLeaves, Deliver, Replayed, HangUp, vars
  <2> QED
    BY <1>3, <2>1, <2>2, <2>3 DEF Due
<1>4. ASSUME NEW q \in Requests
      PROVE  ~(Decline(q) \/ (\E a \in Asks : Ask(q, a)) \/ Serve(q))
  BY <1>2 DEF Decline, Refuse, Ask, Handle, Serve, vars
<1>5. ~Tick /\ ~UNCHANGED serviceVars
  BY <1>2 DEF Tick, vars, serviceVars
<1> QED
  BY <1>3, <1>4, <1>5 DEF ServiceNext

(***************************************************************************)
(* client.py:75-84: the timeout is on each read, so a stream that goes on, *)
(* however slowly, is not cut, and one that is cut had a silent worker.    *)
(***************************************************************************)
THEOREM SlowRepliesArrive == Faithful /\ ServiceSpec => SlowStreamsAreNotCut
<1>1. ASSUME Inv, ServiceInv, [ServiceNext]_serviceVars, NEW r \in Requests,
             fault'[r] = "timeout", fault[r] # "timeout", reply[r] # None
      PROVE  quiet[r] = QueueTimeout \/ wire[r] # <<>>
  <2>1. GivesUp(r)
    BY <1>1, OnlySilenceTimesOut
  <2>2. /\ silent[r] = Deadline /\ StageOf(r) /\ WireOf(r)
        /\ quiet[r] \in 0..QueueTimeout
        /\ phase[r] \in {"opening", "collecting", "sending"}
    BY <1>1, <2>1 DEF Inv, ServiceInv, ServiceTypeOK, GivesUp, TimesOutOpening, TimesOut,
                      Fails, Awaiting
  <2>3. phase[r] # "opening"
    BY <1>1, <2>2 DEF StageOf
  <2>4. ~(silent[r] <= quiet[r])
    BY <2>2, Times
  <2> QED
    BY <2>2, <2>3, <2>4 DEF WireOf
<1>2. Inv /\ ServiceInv /\ [ServiceNext]_serviceVars =>
        [\A r \in Requests :
           fault'[r] = "timeout" /\ fault[r] # "timeout" /\ reply[r] # None =>
             quiet[r] = QueueTimeout \/ wire[r] # <<>>]_serviceVars
  BY <1>1
<1> QED
  BY <1>2, ServiceInvHolds, PTL DEF ServiceSpec, SlowStreamsAreNotCut
=============================================================================
