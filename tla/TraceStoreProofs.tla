--------------------------- MODULE TraceStoreProofs ---------------------------
(***************************************************************************)
(* What is proved of the trace store, for any number of requests,          *)
(* conversations, days, crashes and disk faults, any retention and any     *)
(* bound on the conversations that are remembered.                         *)
(***************************************************************************)
EXTENDS TraceStore, FiniteSetTheorems, SequenceTheorems, TLAPS

Phases ==
  {"new", "forwarding", "queued", "prune", "pruning", "folder", "waiting", "create",
   "clip", "commit", "traced", "done", "lost"}
AtWork(r) == phase[r] \in {"clip", "commit"}

TypeOK ==
  /\ today \in Days /\ crashes \in Nat /\ misreads \in Nat
  /\ folders \subseteq Days
  /\ json \in [Paths -> {None, Empty} \cup Records]
  /\ clips \subseteq [path : Paths, turn : Nat, audio : Requests \cup {Torn}]
  /\ lock \in Requests \cup {None}
  /\ home \in [Convs -> Paths \cup {None}]
  /\ phase \in [Requests -> Phases]
  /\ asked \in [Requests -> Asks \cup {None}]
  /\ work \in [Requests -> Works \cup {None}]
  /\ sweep \in [Requests -> [doomed : SUBSET Days, folder : Days \cup {None},
                             files : SUBSET (Paths \X Nat)]]
  /\ saved \in [Requests -> Paths \cup {None}]

(***************************************************************************)
(* A request is in flight for less than a day: it is of today or of        *)
(* yesterday, so its own day folder is retained.                           *)
(***************************************************************************)
Dates ==
  \A r \in Requests :
    /\ phase[r] = "new" => asked[r] = None
    /\ asked[r] # None => asked[r].day <= today
    /\ InFlight(r) => asked[r] # None /\ asked[r].day >= today - 1

\* What is being pruned, listed by whoever and whenever, is past retention.
SweepsExpired ==
  \A r \in Requests :
    /\ \A d \in sweep[r].doomed : ~Kept(d)
    /\ sweep[r].folder # None => ~Kept(sweep[r].folder)
    /\ \A f \in sweep[r].files : ~Kept(f[1].day)

\* A folder that holds a JSON is there, and of a day that has come.
FilesHaveFolders ==
  /\ \A d \in folders : d <= today
  /\ \A p \in Paths : json[p] # None => p.day \in folders

Mutex == \A r \in Requests : phase[r] \in Locked <=> lock = r

\* Who was written, and where to: only a thread that is through has saved.
Through ==
  /\ \A r \in Requests : saved[r] # None => phase[r] \in {"traced", "done", "lost"}
  /\ \A p \in Paths : IsRecord(p) /\ json[p].conv \in Requests =>
       saved[json[p].conv] # None

(***************************************************************************)
(* The record a thread works on is the one on disk, unless it is pruned    *)
(* away; a new one is a claim of an empty file.                            *)
(***************************************************************************)
WorkOf(r) ==
  /\ AtWork(r) <=> work[r] # None
  /\ AtWork(r) =>
       LET w == work[r]
       IN  /\ w.record.conv = OwnerOf(r)
           /\ w.created => /\ w.path.day = asked[r].day
                           /\ json[w.path] = Empty /\ w.record.turns = <<>>
           /\ ~w.created => /\ json[w.path] \in {None, w.record}
                            /\ Kept(w.path.day) => json[w.path] = w.record
           /\ \A c \in Convs : home[c] = w.path => w.record.conv = c

WorkIsCurrent == \A r \in Requests : WorkOf(r)

\* A remembered file is of the conversation it is remembered for.
HomeOf(c) ==
  home[c] # None =>
    /\ json[home[c]] # None => IsRecord(home[c]) /\ json[home[c]].conv = c
    /\ Kept(home[c].day) => json[home[c]] # None

HomesAreTheirs == \A c \in Convs : HomeOf(c)

\* What is on disk for a turn, and what a thread has put there before it commits.
ClipsAt(p, i) == {c \in clips : c.path = p /\ c.turn = i}
Clip(p, i, audio) == [path |-> p, turn |-> i, audio |-> audio]

ClipOfThread(r) ==
  \A p \in Paths, n \in Nat :
    phase[r] = "commit" /\ p = work[r].path /\ n = NextTurn(r) /\ Kept(p.day) =>
      ClipsAt(p, n) = {Clip(p, n, r)}

ClipIsWritten == \A r \in Requests : ClipOfThread(r)

AudioAt(p) ==
  Kept(p.day) => \A i \in 1..Len(TurnsAt(p)) : ClipsAt(p, i) = {Clip(p, i, TurnsAt(p)[i])}

(***************************************************************************)
(* The files a conversation has in a folder are no more than one and the   *)
(* misreads; there is room for the one a thread is about to make, and the  *)
(* one it rewrites is counted also when it was pruned away meanwhile.      *)
(***************************************************************************)
FilesIn(d, c) == {q \in Paths : q.day = d /\ IsRecord(q) /\ json[q].conv = c}

FewAt(d, c) == IsFiniteSet(FilesIn(d, c)) /\ Cardinality(FilesIn(d, c)) <= 1 + misreads

RoomFor(r) ==
  /\ \A d \in Days, c \in Owners :
       phase[r] = "create" /\ d = asked[r].day /\ c = OwnerOf(r) =>
         Cardinality(FilesIn(d, c)) <= misreads
  /\ \A p \in Paths, c \in Owners :
       AtWork(r) /\ p = work[r].path /\ c = OwnerOf(r) =>
         Cardinality(FilesIn(p.day, c) \cup {p}) <= 1 + misreads

FewFiles ==
  /\ \A d \in Days, c \in Owners : FewAt(d, c)
  /\ \A r \in Requests : RoomFor(r)

FewClaims == IsFiniteSet(Claimed) /\ EmptyFilesAreCrashes

-----------------------------------------------------------------------------
(***************************************************************************)
(* Days, and the sets the records are taken from.                          *)
(***************************************************************************)
LEMMA Basics ==
  /\ Days \subseteq Nat /\ 1 \in Days /\ 0 \notin Days
  /\ None \notin Requests /\ None \notin Convs /\ None \notin Paths /\ None \notin Nat
  /\ None \notin Records /\ None \notin Asks /\ None \notin Works /\ None # Empty
  /\ Empty \notin Records /\ Torn \notin Requests
  /\ Convs \cap Requests = {}
  /\ Retention \in Nat /\ LastDay \in Nat /\ MaxCrashes \in Nat
BY TraceAssumption DEF Days

LEMMA OwnersAre ==
  ASSUME TypeOK, NEW r \in Requests, asked[r] # None
  PROVE  /\ OwnerOf(r) = IF asked[r].conv = None THEN r ELSE asked[r].conv
         /\ OwnerOf(r) \in Owners
BY DEF TypeOK, OwnerOf, Asks, Owners

\* A folder of today or yesterday is retained.
LEMMA RecentIsKept ==
  ASSUME today \in Days, NEW d \in Days, d >= today - 1
  PROVE  Kept(d)
BY Basics DEF Kept

LEMMA TurnsTyped ==
  ASSUME TypeOK, NEW r \in Requests, work[r] # None
  PROVE  /\ work[r] \in Works /\ work[r].path \in Paths /\ work[r].record \in Records
         /\ work[r].record.turns \in Seq(Requests)
         /\ Len(work[r].record.turns) \in Nat /\ NextTurn(r) \in Nat \ {0}
         /\ NextTurn(r) = Len(work[r].record.turns) + 1
<1>1. /\ work[r] \in Works /\ work[r].path \in Paths /\ work[r].record \in Records
      /\ work[r].record.turns \in Seq(Requests)
  BY DEF TypeOK, Works, Records
<1>2. Len(work[r].record.turns) \in Nat
  BY <1>1, LenProperties
<1> QED
  BY <1>1, <1>2 DEF NextTurn

\* Where a conversation is looked for: only known files of its own are read.
LEMMA CandidatesAre ==
  ASSUME TypeOK, NEW r \in Requests, asked[r] # None
  PROVE  LET c == asked[r].conv
         IN  /\ c \in Convs \cup {None}
             /\ c = None => Candidates(r) = {}
             /\ c # None /\ home[c] # None => Candidates(r) = {home[c]}
             /\ c # None /\ home[c] = None =>
                  Candidates(r) = {p \in Paths : /\ p.day = asked[r].day
                                                /\ IsRecord(p) /\ json[p].conv = c}
             /\ Candidates(r) \subseteq Paths
<1> DEFINE c == asked[r].conv
<1>1. c \in Convs \cup {None} /\ asked[r].day \in Days
  BY DEF TypeOK, Asks
<1>2. CASE c = None
  BY <1>1, <1>2 DEF Candidates
<1>3. CASE c # None /\ home[c] # None
  <2>1. home[c] \in Paths
    BY <1>1, <1>3 DEF TypeOK
  <2>2. Candidates(r) = {home[c]}
    BY <1>3 DEF Candidates
  <2> QED
    BY <1>1, <1>3, <2>1, <2>2
<1>4. CASE c # None /\ home[c] = None
  <2>1. Candidates(r) = {p \in Paths : /\ p.day = asked[r].day
                                       /\ IsRecord(p) /\ json[p].conv = c}
    BY <1>4 DEF Candidates
  <2> QED
    BY <1>1, <1>4, <2>1
<1> QED
  BY <1>2, <1>3, <1>4

\* _open afterwards, whatever was forgotten.
LEMMA HomesAfter ==
  ASSUME TypeOK, NEW r \in Requests, Commit(r), asked[r] # None, work[r] # None
  PROVE  /\ home' \in [Convs -> Paths \cup {None}]
         /\ \A d \in Convs : \/ home'[d] = None \/ home'[d] = home[d]
                             \/ home'[d] = work[r].path /\ d = OwnerOf(r)
<1> DEFINE c == asked[r].conv
           p == work[r].path
<1>1. /\ c \in Convs \cup {None} /\ p \in Paths
      /\ OwnerOf(r) = IF c = None THEN r ELSE c
  BY TurnsTyped, OwnersAre DEF TypeOK, Asks
<1>2. CASE c = None
  BY <1>2 DEF Commit, TypeOK
<1>3. CASE c # None
  <2> DEFINE order == Append(RemoveFirst(tracked, c), c)
             kept == IF Len(order) > MaxTracked THEN Tail(order) ELSE order
  <2>1. home' = [d \in Convs |-> IF d \notin ToSet(kept) THEN None
                                 ELSE IF d = c THEN p ELSE home[d]]
    BY <1>3 DEF Commit, Remember
  <2> HIDE DEF kept
  <2> QED
    BY <1>1, <1>3, <2>1 DEF TypeOK
<1> QED
  BY <1>2, <1>3

\* A thread has its request's date.
LEMMA ThreadsAsked ==
  ASSUME TypeOK, Dates, NEW r \in Requests, InFlight(r)
  PROVE  /\ asked[r] # None /\ asked[r] \in Asks /\ asked[r].day \in Days
         /\ asked[r].day <= today /\ asked[r].day >= today - 1 /\ Kept(asked[r].day)
<1>1. /\ asked[r] # None /\ asked[r] \in Asks /\ asked[r].day \in Days
      /\ asked[r].day <= today /\ asked[r].day >= today - 1
  BY DEF TypeOK, Dates, Asks
<1> QED
  BY <1>1, RecentIsKept DEF TypeOK

-----------------------------------------------------------------------------
LEMMA TypeInit == Init => TypeOK
BY Basics DEF Init, TypeOK, Phases, NoSweep

LEMMA TypeNext == TypeOK /\ Dates /\ WorkIsCurrent /\ [Next]_vars => TypeOK'
<1> SUFFICES ASSUME TypeOK, Dates, WorkIsCurrent, [Next]_vars PROVE TypeOK'
  OBVIOUS
<1> USE Basics
<1>1. ASSUME NEW r \in Requests,
             Refuse(r) \/ Respond(r) \/ StartWrite(r)
      PROVE  TypeOK'
  BY <1>1 DEF Refuse, Respond, StartWrite, TypeOK, Goto, Phases,
              bounds, disk, memory, request, history
<1>2. ASSUME NEW r \in Requests, NEW c \in Convs \cup {None}, Arrive(r, c)
      PROVE  TypeOK'
  BY <1>2 DEF Arrive, TypeOK, Goto, Phases, Asks, bounds, disk, memory, history
<1>3. ASSUME NEW r \in Requests, NEW o \in Outcomes, NEW b \in Bases, Forwarded(r, o, b)
      PROVE  TypeOK'
  BY <1>3 DEF Forwarded, TypeOK, Goto, Phases, bounds, disk, memory, history
<1>4. ASSUME NEW r \in Requests, StartPrune(r)
      PROVE  TypeOK'
  BY <1>4 DEF StartPrune, TypeOK, Goto, Phases, bounds, disk, request, history
<1>5. ASSUME NEW r \in Requests, ListFolder(r)
      PROVE  TypeOK'
  <2>1. PICK d \in sweep[r].doomed :
          sweep' = [sweep EXCEPT ![r] =
                      [doomed |-> sweep[r].doomed \ {d}, folder |-> d, files |-> FilesOf(d)]]
    BY <1>5 DEF ListFolder
  <2>2. d \in Days
    BY <2>1 DEF TypeOK
  <2>3. FilesOf(d) \in SUBSET (Paths \X Nat)
    BY DEF FilesOf, TypeOK
  <2>4. sweep' \in [Requests -> [doomed : SUBSET Days, folder : Days \cup {None},
                                 files : SUBSET (Paths \X Nat)]]
    BY <2>1, <2>2, <2>3 DEF TypeOK
  <2> QED
    BY <1>5, <2>4 DEF ListFolder, TypeOK, bounds, disk, memory, request, history
<1>6. ASSUME NEW r \in Requests, NEW f \in sweep[r].files, RemoveFile(r, f)
      PROVE  TypeOK'
  <2>1. /\ json' \in [Paths -> {None, Empty} \cup Records]
        /\ clips' \subseteq [path : Paths, turn : Nat, audio : Requests \cup {Torn}]
    BY <1>6 DEF RemoveFile, ClipsBut, TypeOK
  <2>2. sweep' \in [Requests -> [doomed : SUBSET Days, folder : Days \cup {None},
                                 files : SUBSET (Paths \X Nat)]]
    <3> DEFINE new == [sweep[r] EXCEPT !.files = @ \ {f}]
    <3>1. sweep' = [sweep EXCEPT ![r] = new]
      BY <1>6 DEF RemoveFile
    <3>2. sweep[r] \in [doomed : SUBSET Days, folder : Days \cup {None},
                        files : SUBSET (Paths \X Nat)]
      BY DEF TypeOK
    <3>3. new \in [doomed : SUBSET Days, folder : Days \cup {None},
                   files : SUBSET (Paths \X Nat)]
      BY <3>2
    <3> HIDE DEF new
    <3> QED
      BY <3>1, <3>3 DEF TypeOK
  <2> QED
    BY <1>6, <2>1, <2>2 DEF RemoveFile, TypeOK, bounds, memory, request, history
<1>7. ASSUME NEW r \in Requests, RemoveFolder(r)
      PROVE  TypeOK'
  BY <1>7 DEF RemoveFolder, TypeOK, Goto, Phases, bounds, memory, request, history
<1>8. ASSUME NEW r \in Requests, MakeFolder(r)
      PROVE  TypeOK'
  <2>1. asked[r].day \in Days
    BY <1>8, ThreadsAsked DEF MakeFolder, InFlight
  <2> QED
    BY <1>8, <2>1 DEF MakeFolder, TypeOK, Goto, Phases, bounds, memory, request, history
<1>9. ASSUME NEW r \in Requests, Locate(r)
      PROVE  TypeOK'
  <2>0. asked[r] # None
    BY <1>9, ThreadsAsked DEF Locate, InFlight
  <2>1. ASSUME NEW p \in Candidates(r), IsRecord(p),
               work' = [work EXCEPT ![r] =
                          [path |-> p, record |-> json[p], created |-> FALSE]]
        PROVE  work' \in [Requests -> Works \cup {None}]
    <3>1. p \in Paths
      BY <2>0, <2>1, CandidatesAre
    <3>2. json[p] \in Records
      BY <2>1, <3>1 DEF IsRecord, TypeOK
    <3> QED
      BY <2>1, <3>1, <3>2 DEF Works, TypeOK
  <2>2. work' \in [Requests -> Works \cup {None}]
    BY <1>9, <2>1 DEF Locate, TypeOK
  <2>3. /\ phase' = [phase EXCEPT ![r] = "clip"] \/ phase' = [phase EXCEPT ![r] = "create"]
        /\ misreads' = misreads \/ misreads' = misreads + 1
        /\ lock' = r
    BY <1>9 DEF Locate, Goto
  <2> QED
    BY <1>9, <2>2, <2>3 DEF Locate, TypeOK, Phases, bounds, disk, request
<1>10. ASSUME NEW r \in Requests, NEW p \in Paths, Create(r, p)
       PROVE  TypeOK'
  <2>0. asked[r] # None
    BY <1>10, ThreadsAsked DEF Create, InFlight
  <2>1. [conv |-> IF asked[r].conv = None THEN r ELSE asked[r].conv, turns |-> <<>>] \in Records
    <3>1. asked[r].conv \in Convs \cup {None}
      BY <2>0 DEF TypeOK, Asks
    <3>2. <<>> \in Seq(Requests)
      OBVIOUS
    <3> QED
      BY <3>1, <3>2 DEF Records, Owners
  <2>2. work' \in [Requests -> Works \cup {None}]
    BY <1>10, <2>1 DEF Create, TypeOK, Works
  <2> QED
    BY <1>10, <2>2 DEF Create, TypeOK, Goto, Phases, bounds, memory, request, history
<1>11. ASSUME NEW r \in Requests, WriteClip(r)
       PROVE  TypeOK'
  <2>1. work[r] # None
    BY <1>11 DEF WriteClip, WorkIsCurrent, WorkOf, AtWork
  <2>2. clips' \subseteq [path : Paths, turn : Nat, audio : Requests \cup {Torn}]
    BY <1>11, <2>1, TurnsTyped DEF WriteClip, TypeOK, ClipOf, ClipsBut
  <2> QED
    BY <1>11, <2>2 DEF WriteClip, TypeOK, Goto, Phases, bounds, memory, request, history
<1>12. ASSUME NEW r \in Requests, Commit(r)
       PROVE  TypeOK'
  <2>1. work[r] # None
    BY <1>12 DEF Commit, WorkIsCurrent, WorkOf, AtWork
  <2>2. [work[r].record EXCEPT !.turns = Append(@, r)] \in Records
    <3>1. Append(work[r].record.turns, r) \in Seq(Requests)
      BY <2>1, TurnsTyped, AppendProperties
    <3> QED
      BY <2>1, <3>1, TurnsTyped DEF Records
  <2>3. /\ json' \in [Paths -> {None, Empty} \cup Records]
        /\ saved' \in [Requests -> Paths \cup {None}]
    BY <1>12, <2>1, <2>2, TurnsTyped DEF Commit, TypeOK
  <2>4. home' \in [Convs -> Paths \cup {None}]
    <3>1. asked[r] # None
      BY <1>12, ThreadsAsked DEF Commit, InFlight
    <3> QED
      BY <1>12, <2>1, <3>1, HomesAfter
  <2> QED
    BY <1>12, <2>3, <2>4 DEF Commit, TypeOK, Goto, Phases, bounds, request
<1>13. ASSUME NEW r \in Requests, Drop(r)
       PROVE  TypeOK'
  <2>1. AtWork(r) => work[r] # None
    BY DEF WorkIsCurrent, WorkOf
  <2>2. clips' \subseteq [path : Paths, turn : Nat, audio : Requests \cup {Torn}]
    BY <1>13, <2>1, TurnsTyped DEF Drop, TypeOK, ClipOf, ClipsBut, AtWork
  <2>3. json' \in [Paths -> {None, Empty} \cup Records]
    BY <1>13, <2>1, TurnsTyped DEF Drop, TypeOK, AtWork
  <2>4. /\ phase' \in [Requests -> Phases] /\ work' \in [Requests -> Works \cup {None}]
        /\ lock' \in Requests \cup {None}
    BY <1>13 DEF Drop, TypeOK, Goto, Phases
  <2> QED
    BY <1>13, <2>2, <2>3, <2>4 DEF Drop, TypeOK, bounds, request, history
<1>14. CASE NextDay
  BY <1>14 DEF NextDay, TypeOK, Days, disk, memory, request, history
<1>15. CASE Crash
  BY <1>15 DEF Crash, TypeOK, Phases, NoSweep, disk, request, history
<1>16. CASE UNCHANGED vars
  BY <1>16 DEF TypeOK, vars, bounds, disk, memory, request, history
<1> QED
  BY <1>1, <1>2, <1>3, <1>4, <1>5, <1>6, <1>7, <1>8, <1>9, <1>10, <1>11, <1>12,
     <1>13, <1>14, <1>15, <1>16, Zenon DEF Next, Thread, AllDone

-----------------------------------------------------------------------------
\* The steps of a request that change nothing of the store or of its folders.
Quiet(r) ==
  \/ Refuse(r) \/ \E c \in Convs \cup {None} : Arrive(r, c)
  \/ \E o \in Outcomes, b \in Bases : Forwarded(r, o, b)
  \/ StartWrite(r) \/ Respond(r)

QuietStep(r) ==
  /\ UNCHANGED <<today, crashes, disk, memory, work, sweep, history>>
  /\ \E q \in Phases \ (Locked \cup {"new"}) : phase' = [phase EXCEPT ![r] = q]
  /\ phase[r] \in {"new", "forwarding", "queued", "traced"}
  /\ \/ asked' = asked /\ (phase[r] \in {"new", "traced"} => phase'[r] = "done")
     \/ /\ phase[r] = "new"
        /\ \E c \in Convs \cup {None} :
             asked' = [asked EXCEPT ![r] = [conv |-> c, day |-> today]]

LEMMA QuietSteps == ASSUME TypeOK, NEW r \in Requests, Quiet(r) PROVE QuietStep(r)
<1> USE DEF QuietStep
<1>1. CASE Refuse(r) \/ Respond(r)
  BY <1>1 DEF Refuse, Respond, TypeOK, Goto, Phases, Locked, bounds, disk, memory, history
<1>2. ASSUME NEW c \in Convs \cup {None}, Arrive(r, c)
      PROVE  QuietStep(r)
  BY <1>2 DEF Arrive, TypeOK, Goto, Phases, Locked, bounds, disk, memory, history
<1>3. CASE StartWrite(r) \/ \E o \in Outcomes, b \in Bases : Forwarded(r, o, b)
  BY <1>3 DEF Forwarded, StartWrite, TypeOK, Goto, Phases, Locked, bounds, disk, memory,
              history, request
<1> QED
  BY <1>1, <1>2, <1>3 DEF Quiet

\* A step is one of these.
LEMMA Steps ==
  ASSUME [Next]_vars
  PROVE  \/ UNCHANGED vars \/ NextDay \/ Crash
         \/ \E r \in Requests :
              \/ Quiet(r) \/ StartPrune(r) \/ ListFolder(r) \/ RemoveFolder(r)
              \/ \E f \in sweep[r].files : RemoveFile(r, f)
              \/ MakeFolder(r) \/ Locate(r)
              \/ \E p \in Paths : Create(r, p)
              \/ WriteClip(r) \/ Commit(r) \/ Drop(r)
BY Zenon DEF Next, Thread, AllDone, Quiet

LEMMA DatesNext == TypeOK /\ Dates /\ [Next]_vars => Dates'
<1> SUFFICES ASSUME TypeOK, Dates, [Next]_vars PROVE Dates'
  OBVIOUS
<1> USE Basics
<1>0. today \in Nat
  BY DEF TypeOK
<1>1. ASSUME NEW r \in Requests, Quiet(r)
      PROVE  Dates'
  BY <1>0, <1>1, QuietSteps DEF QuietStep, Dates, TypeOK, InFlight, Asks
<1>2. ASSUME NEW r \in Requests,
             \/ StartPrune(r) \/ ListFolder(r) \/ RemoveFolder(r)
             \/ \E f \in sweep[r].files : RemoveFile(r, f)
             \/ MakeFolder(r) \/ Locate(r)
      PROVE  Dates'
  BY <1>2 DEF StartPrune, ListFolder, RemoveFolder, RemoveFile, MakeFolder, Locate,
              Dates, TypeOK, InFlight, Goto, bounds, request
<1>3. ASSUME NEW r \in Requests,
             (\E p \in Paths : Create(r, p)) \/ WriteClip(r) \/ Commit(r) \/ Drop(r)
      PROVE  Dates'
  BY <1>3 DEF Create, WriteClip, Commit, Drop, Dates, TypeOK, InFlight, Goto, bounds, request
<1>4. CASE NextDay
  <2>1. \A r \in Requests : asked[r] # None => asked[r].day \in Nat
    BY DEF TypeOK, Asks
  <2> QED
    BY <1>0, <1>4, <2>1 DEF NextDay, Dates, InFlight, request
<1>5. CASE Crash
  BY <1>5 DEF Crash, Dates, TypeOK, InFlight, request
<1>6. CASE UNCHANGED vars
  BY <1>6 DEF vars, Dates, InFlight, bounds, request
<1> QED
  BY <1>1, <1>2, <1>3, <1>4, <1>5, <1>6, Steps, Zenon

-----------------------------------------------------------------------------
LEMMA SweepsNext == TypeOK /\ Dates /\ SweepsExpired /\ [Next]_vars => SweepsExpired'
<1> SUFFICES ASSUME TypeOK, Dates, SweepsExpired, [Next]_vars PROVE SweepsExpired'
  OBVIOUS
<1> USE Basics
<1>0. today \in Nat /\ folders \subseteq Days
  BY DEF TypeOK
<1>1. CASE UNCHANGED <<today, sweep>>
  BY <1>1 DEF SweepsExpired, Kept
<1>2. ASSUME NEW r \in Requests, StartPrune(r)
      PROVE  SweepsExpired'
  <2>1. asked[r].day \in Days /\ asked[r].day <= today
    BY <1>2, ThreadsAsked DEF StartPrune, InFlight
  <2> DEFINE doomed == IF Retention = 0 THEN {} ELSE {d \in folders : d < asked[r].day - Retention}
  <2>2. sweep' = [sweep EXCEPT ![r].doomed = doomed] /\ today' = today
    BY <1>2 DEF StartPrune, bounds
  <2>3. ASSUME NEW d \in doomed PROVE ~Kept(d)
    <3>1. d \in Nat /\ asked[r].day \in Nat /\ Retention # 0 /\ d < asked[r].day - Retention
      BY <1>0, <2>1
    <3> QED
      BY <1>0, <2>1, <3>1 DEF Kept
  <2> HIDE DEF doomed
  <2> QED
    BY <2>2, <2>3 DEF SweepsExpired, TypeOK, Kept
<1>3. ASSUME NEW r \in Requests, ListFolder(r)
      PROVE  SweepsExpired'
  <2>1. PICK d \in sweep[r].doomed :
          sweep' = [sweep EXCEPT ![r] =
                      [doomed |-> sweep[r].doomed \ {d}, folder |-> d, files |-> FilesOf(d)]]
    BY <1>3 DEF ListFolder
  <2>2. ~Kept(d) /\ today' = today
    BY <1>3 DEF SweepsExpired, ListFolder, bounds
  <2>3. \A f \in FilesOf(d) : f[1].day = d
    BY DEF FilesOf
  <2> QED
    BY <2>1, <2>2, <2>3 DEF SweepsExpired, TypeOK, Kept
<1>4. ASSUME NEW r \in Requests, NEW f \in sweep[r].files, RemoveFile(r, f)
      PROVE  SweepsExpired'
  BY <1>4 DEF RemoveFile, SweepsExpired, TypeOK, Kept, bounds
<1>5. ASSUME NEW r \in Requests, RemoveFolder(r)
      PROVE  SweepsExpired'
  BY <1>5 DEF RemoveFolder, SweepsExpired, TypeOK, Kept, bounds
<1>6. CASE NextDay
  <2>1. ASSUME NEW d \in Days, Kept(d)' PROVE Kept(d)
    <3>1. d \in Nat /\ today' = today + 1
      BY <1>6 DEF NextDay
    <3> QED
      BY <1>0, <2>1, <3>1 DEF Kept
  <2>2. \A r \in Requests : \A f \in sweep[r].files : f[1].day \in Days
    BY DEF TypeOK, Paths
  <2>3. \A r \in Requests : sweep[r].doomed \subseteq Days /\ sweep[r].folder \in Days \cup {None}
    BY DEF TypeOK
  <2>4. sweep' = sweep
    BY <1>6 DEF NextDay
  <2> QED
    BY <2>1, <2>2, <2>3, <2>4 DEF SweepsExpired
<1>7. CASE Crash
  BY <1>7 DEF Crash, SweepsExpired, NoSweep
<1>8. ASSUME NEW r \in Requests,
             \/ Quiet(r) \/ MakeFolder(r) \/ Locate(r) \/ \E p \in Paths : Create(r, p)
             \/ WriteClip(r) \/ Commit(r) \/ Drop(r)
      PROVE  UNCHANGED <<today, sweep>>
  BY <1>8, QuietSteps DEF QuietStep, MakeFolder, Locate, Create, WriteClip, Commit, Drop, bounds
<1>9. UNCHANGED vars => UNCHANGED <<today, sweep>>
  BY DEF vars, bounds
<1> QED
  BY <1>1, <1>2, <1>3, <1>4, <1>5, <1>6, <1>7, <1>8, <1>9, Steps, Zenon

-----------------------------------------------------------------------------
LEMMA FoldersNext ==
  TypeOK /\ Dates /\ WorkIsCurrent /\ FilesHaveFolders /\ [Next]_vars => FilesHaveFolders'
<1> SUFFICES ASSUME TypeOK, Dates, WorkIsCurrent, FilesHaveFolders, [Next]_vars
             PROVE  FilesHaveFolders'
  OBVIOUS
<1> USE Basics
<1>0. today \in Nat /\ folders \subseteq Days
  BY DEF TypeOK
<1>1. CASE UNCHANGED <<today, folders, json>>
  BY <1>1 DEF FilesHaveFolders
<1>2. ASSUME NEW r \in Requests, NEW f \in sweep[r].files, RemoveFile(r, f)
      PROVE  FilesHaveFolders'
  BY <1>2 DEF RemoveFile, FilesHaveFolders, TypeOK, bounds
<1>3. ASSUME NEW r \in Requests, RemoveFolder(r)
      PROVE  FilesHaveFolders'
  <2> DEFINE d == sweep[r].folder
  <2>1. /\ folders' = folders \/ (folders' = folders \ {d} /\ FilesOf(d) = {})
        /\ json' = json /\ today' = today
    BY <1>3 DEF RemoveFolder, bounds
  <2>2. FilesOf(d) = {} => \A p \in Paths : json[p] # None => p.day # d
    BY DEF FilesOf
  <2> QED
    BY <2>1, <2>2 DEF FilesHaveFolders
<1>4. ASSUME NEW r \in Requests, MakeFolder(r)
      PROVE  FilesHaveFolders'
  <2>1. asked[r].day <= today
    BY <1>4, ThreadsAsked DEF MakeFolder, InFlight
  <2> QED
    BY <1>4, <2>1 DEF MakeFolder, FilesHaveFolders, bounds
<1>5. ASSUME NEW r \in Requests, NEW p \in Paths, Create(r, p)
      PROVE  FilesHaveFolders'
  BY <1>5 DEF Create, FilesHaveFolders, TypeOK, bounds
<1>6. ASSUME NEW r \in Requests, Commit(r)
      PROVE  FilesHaveFolders'
  BY <1>6 DEF Commit, FilesHaveFolders, FolderThere, TypeOK, bounds
<1>7. ASSUME NEW r \in Requests, Drop(r)
      PROVE  FilesHaveFolders'
  <2>1. /\ \A p \in Paths : json'[p] # None => json[p] # None
        /\ folders' = folders /\ today' = today
    BY <1>7 DEF Drop, TypeOK, bounds
  <2> QED
    BY <2>1 DEF FilesHaveFolders
<1>8. CASE NextDay
  BY <1>0, <1>8 DEF NextDay, FilesHaveFolders, disk
<1>9. ASSUME NEW r \in Requests,
             \/ Quiet(r) \/ StartPrune(r) \/ ListFolder(r) \/ Locate(r) \/ WriteClip(r)
      PROVE  UNCHANGED <<today, folders, json>>
  BY <1>9, QuietSteps DEF QuietStep, StartPrune, ListFolder, Locate, WriteClip, bounds, disk
<1>10. Crash \/ UNCHANGED vars => UNCHANGED <<today, folders, json>>
  BY DEF Crash, vars, bounds, disk
<1> QED
  BY <1>1, <1>2, <1>3, <1>4, <1>5, <1>6, <1>7, <1>8, <1>9, <1>10, Steps, Zenon

-----------------------------------------------------------------------------
LEMMA MutexNext == TypeOK /\ Mutex /\ [Next]_vars => Mutex'
<1> SUFFICES ASSUME TypeOK, Mutex, [Next]_vars PROVE Mutex'
  OBVIOUS
<1> USE Basics
<1>1. ASSUME NEW r \in Requests, Quiet(r)
      PROVE  Mutex'
  BY <1>1, QuietSteps DEF QuietStep, Mutex, TypeOK, Locked, memory
<1>2. ASSUME NEW r \in Requests,
             \/ StartPrune(r) \/ ListFolder(r) \/ RemoveFolder(r)
             \/ \E f \in sweep[r].files : RemoveFile(r, f)
             \/ MakeFolder(r)
      PROVE  Mutex'
  BY <1>2 DEF StartPrune, ListFolder, RemoveFolder, RemoveFile, MakeFolder,
              Mutex, TypeOK, Locked, Goto, memory
<1>3. ASSUME NEW r \in Requests,
             \/ Locate(r) \/ (\E p \in Paths : Create(r, p)) \/ WriteClip(r)
             \/ Commit(r) \/ Drop(r)
      PROVE  Mutex'
  BY <1>3 DEF Locate, Create, WriteClip, Commit, Drop, Mutex, TypeOK, Locked, Goto, memory
<1>4. CASE NextDay \/ UNCHANGED vars
  BY <1>4 DEF NextDay, vars, Mutex, memory
<1>5. CASE Crash
  BY <1>5 DEF Crash, Mutex, TypeOK, Locked, InFlight
<1> QED
  BY <1>1, <1>2, <1>3, <1>4, <1>5, Steps, Zenon

-----------------------------------------------------------------------------
LEMMA KeptBefore ==
  ASSUME TypeOK, NEW d \in Days, today' = today \/ NextDay, Kept(d)'
  PROVE  Kept(d)
<1>1. d \in Nat /\ today \in Nat /\ (today' = today \/ today' = today + 1)
  BY Basics DEF NextDay, TypeOK
<1> QED
  BY <1>1, Basics DEF Kept

LEMMA ThroughNext ==
  TypeOK /\ Dates /\ WorkIsCurrent /\ Through /\ [Next]_vars => Through'
<1> SUFFICES ASSUME TypeOK, Dates, WorkIsCurrent, Through, [Next]_vars PROVE Through'
  OBVIOUS
<1> USE Basics
<1>1. ASSUME NEW r \in Requests, Quiet(r)
      PROVE  Through'
  BY <1>1, QuietSteps DEF QuietStep, Through, TypeOK, IsRecord, disk, history
<1>2. ASSUME NEW r \in Requests,
             \/ StartPrune(r) \/ ListFolder(r) \/ RemoveFolder(r)
             \/ MakeFolder(r) \/ Locate(r) \/ WriteClip(r)
      PROVE  Through'
  BY <1>2 DEF StartPrune, ListFolder, RemoveFolder, MakeFolder, Locate, WriteClip,
              Through, TypeOK, IsRecord, Goto, disk, history
<1>3. ASSUME NEW r \in Requests, NEW f \in sweep[r].files, RemoveFile(r, f)
      PROVE  Through'
  BY <1>3 DEF RemoveFile, Through, TypeOK, IsRecord, history
<1>4. ASSUME NEW r \in Requests, NEW p \in Paths, Create(r, p)
      PROVE  Through'
  BY <1>4 DEF Create, Through, TypeOK, IsRecord, Goto, history
<1>5. ASSUME NEW r \in Requests, Drop(r)
      PROVE  Through'
  <2>1. \A p \in Paths : json'[p] = json[p] \/ json'[p] = None
    BY <1>5 DEF Drop, TypeOK
  <2>2. saved' = saved /\ phase' = [phase EXCEPT ![r] = "traced"]
    BY <1>5 DEF Drop, Goto, history
  <2> QED
    BY <2>1, <2>2 DEF Through, TypeOK, IsRecord
<1>6. ASSUME NEW r \in Requests, Commit(r)
      PROVE  Through'
  <2> DEFINE p == work[r].path
  <2>1. work[r] # None /\ asked[r] # None
    BY <1>6, ThreadsAsked DEF Commit, InFlight, WorkIsCurrent, WorkOf, AtWork
  <2>2. work[r].record.conv = OwnerOf(r)
    BY <1>6 DEF Commit, WorkIsCurrent, WorkOf, AtWork
  <2>3. p \in Paths /\ work[r].record \in Records
    BY <2>1, TurnsTyped
  <2>4. OwnerOf(r) \in Requests => OwnerOf(r) = r
    BY <2>1, OwnersAre DEF TypeOK, Asks
  <2>5. /\ json'[p].conv = work[r].record.conv /\ saved'[r] # None
        /\ \A q \in Paths \ {p} : json'[q] = json[q]
        /\ \A x \in Requests \ {r} : saved'[x] = saved[x]
        /\ phase' = [phase EXCEPT ![r] = "traced"]
    BY <1>6, <2>3 DEF Commit, TypeOK, Goto, Records
  <2>6. \A x \in Requests : saved[x] # None => saved'[x] # None
    BY <2>5
  <2>7. ASSUME NEW q \in Paths, IsRecord(q)', json'[q].conv \in Requests
        PROVE  saved'[json'[q].conv] # None
    <3>1. CASE q = p
      BY <2>2, <2>4, <2>5, <2>7, <3>1
    <3>2. CASE q # p
      BY <2>5, <2>6, <2>7, <3>2 DEF Through, IsRecord
    <3> QED
      BY <3>1, <3>2
  <2>8. \A x \in Requests : saved'[x] # None => phase'[x] \in {"traced", "done", "lost"}
    BY <2>5 DEF Through, TypeOK
  <2> QED
    BY <2>7, <2>8 DEF Through
<1>7. CASE NextDay \/ UNCHANGED vars
  BY <1>7 DEF NextDay, vars, Through, IsRecord, disk, history
<1>8. CASE Crash
  BY <1>8 DEF Crash, Through, TypeOK, IsRecord, InFlight, disk, history
<1> QED
  BY <1>1, <1>2, <1>3, <1>4, <1>5, <1>6, <1>7, <1>8, Steps, Zenon

-----------------------------------------------------------------------------
LEMMA WorkNext ==
  /\ TypeOK /\ Dates /\ SweepsExpired /\ Mutex /\ WorkIsCurrent /\ HomesAreTheirs
  /\ [Next]_vars
  => WorkIsCurrent'
<1> SUFFICES ASSUME TypeOK, Dates, SweepsExpired, Mutex, WorkIsCurrent, HomesAreTheirs,
                    [Next]_vars, NEW x \in Requests
             PROVE  WorkOf(x)'
  BY DEF WorkIsCurrent
<1> USE Basics
<1>0. WorkOf(x)
  BY DEF WorkIsCurrent
<1>1. ASSUME NEW r \in Requests, Quiet(r)
      PROVE  WorkOf(x)'
  BY <1>0, <1>1, QuietSteps DEF QuietStep, WorkOf, AtWork, OwnerOf, Kept, TypeOK, Phases,
                                Locked, disk, memory
<1>2. ASSUME NEW r \in Requests,
             StartPrune(r) \/ ListFolder(r) \/ RemoveFolder(r) \/ MakeFolder(r)
      PROVE  WorkOf(x)'
  BY <1>0, <1>2 DEF StartPrune, ListFolder, RemoveFolder, MakeFolder,
         WorkOf, AtWork, OwnerOf, Kept, TypeOK, Goto, bounds, disk, memory, request
<1>3. ASSUME NEW r \in Requests, NEW f \in sweep[r].files, RemoveFile(r, f)
      PROVE  WorkOf(x)'
  <2>1. ~Kept(f[1].day) /\ f[1] \in Paths
    BY DEF SweepsExpired, TypeOK
  <2>2. \A p \in Paths : json'[p] = json[p] \/ (json'[p] = None /\ p = f[1])
    BY <1>3 DEF RemoveFile, TypeOK
  <2>3. UNCHANGED <<today, phase, asked, work, home>>
    BY <1>3 DEF RemoveFile, bounds, memory, request
  <2>4. CASE ~AtWork(x)
    BY <1>0, <2>3, <2>4 DEF WorkOf, AtWork
  <2>5. CASE AtWork(x)
    <3>1. work[x].path \in Paths
      BY <1>0, <2>5, TurnsTyped DEF WorkOf
    <3>2. Kept(asked[x].day)
      BY <2>5, ThreadsAsked DEF AtWork, InFlight
    <3> QED
      BY <1>0, <2>1, <2>2, <2>3, <2>5, <3>1, <3>2 DEF WorkOf, AtWork, OwnerOf, Kept
  <2> QED
    BY <2>4, <2>5
<1>4. ASSUME NEW r \in Requests, Locate(r), x # r
      PROVE  WorkOf(x)'
  <2>1. ~AtWork(x) /\ phase'[x] = phase[x] /\ work'[x] = work[x]
    BY <1>4 DEF Locate, Goto, Mutex, Locked, AtWork, TypeOK
  <2> QED
    BY <1>0, <2>1 DEF WorkOf, AtWork
<1>5. CASE Locate(x)
  <2>0. UNCHANGED <<today, json, home, asked>>
    BY <1>5 DEF Locate, bounds, disk, request
  <2>1. asked[x] # None /\ phase[x] = "waiting"
    BY <1>5, ThreadsAsked DEF Locate, InFlight
  <2>2. ASSUME NEW p \in Candidates(x), IsRecord(p), phase' = [phase EXCEPT ![x] = "clip"],
               work' = [work EXCEPT ![x] =
                          [path |-> p, record |-> json[p], created |-> FALSE]]
        PROVE  WorkOf(x)'
    <3>1. p \in Paths /\ json[p] \in Records
      BY <2>1, <2>2, CandidatesAre DEF TypeOK, IsRecord
    <3>2. json[p].conv = asked[x].conv /\ asked[x].conv # None
      BY <2>1, <2>2, CandidatesAre DEF HomesAreTheirs, HomeOf, IsRecord
    <3>3. \A c \in Convs : home[c] = p => json[p].conv = c
      BY <2>2, <3>1 DEF HomesAreTheirs, HomeOf, IsRecord
    <3>4. json[p].conv = OwnerOf(x)
      BY <2>1, <3>2, OwnersAre
    <3>5. /\ work'[x] = [path |-> p, record |-> json[p], created |-> FALSE]
          /\ phase'[x] = "clip"
      BY <2>2 DEF TypeOK
    <3>6. work'[x] \in Works
      BY <3>1, <3>5 DEF Works
    <3>7. work'[x].path = p /\ work'[x].record = json[p] /\ ~work'[x].created
      BY ONLY <3>5
    <3>9. work'[x] # None /\ json'[p] = json[p] /\ home' = home
      BY <2>0, <3>6
    <3>8. OwnerOf(x)' = OwnerOf(x)
      BY <2>0 DEF OwnerOf
    <3> QED
      BY <3>3, <3>4, <3>5, <3>7, <3>8, <3>9 DEF WorkOf, AtWork
  <2>3. ASSUME phase' = [phase EXCEPT ![x] = "create"], work' = work
        PROVE  WorkOf(x)'
    BY <1>0, <2>1, <2>3 DEF WorkOf, AtWork, TypeOK
  <2> QED
    BY <1>5, <2>2, <2>3 DEF Locate, Goto
<1>6. ASSUME NEW r \in Requests, NEW p \in Paths, Create(r, p), x # r
      PROVE  WorkOf(x)'
  <2>1. ~AtWork(x) /\ phase'[x] = phase[x] /\ work'[x] = work[x]
    BY <1>6 DEF Create, Goto, Mutex, Locked, AtWork, TypeOK
  <2> QED
    BY <1>0, <2>1 DEF WorkOf, AtWork
<1>7. ASSUME NEW p \in Paths, Create(x, p)
      PROVE  WorkOf(x)'
  <2> DEFINE new == [conv |-> IF asked[x].conv = None THEN x ELSE asked[x].conv, turns |-> <<>>]
  <2>1. asked[x] # None /\ Kept(asked[x].day)
    BY <1>7, ThreadsAsked DEF Create, InFlight
  <2>2. /\ work' = [work EXCEPT ![x] = [path |-> p, created |-> TRUE, record |-> new]]
        /\ phase' = [phase EXCEPT ![x] = "clip"]
        /\ json' = [json EXCEPT ![p] = Empty] /\ json[p] = None
        /\ p.day = asked[x].day
        /\ UNCHANGED <<today, home, asked>>
    BY <1>7 DEF Create, Goto, bounds, memory, request
  <2>3. new.conv = OwnerOf(x) /\ new.turns = <<>> /\ new \in Records
    <3>1. <<>> \in Seq(Requests)
      OBVIOUS
    <3> QED
      BY <2>1, <3>1, OwnersAre DEF Records
  <2>4. \A c \in Convs : home[c] # p
    BY <2>1, <2>2 DEF HomesAreTheirs, HomeOf
  <2> HIDE DEF new
  <2>5. /\ work'[x] = [path |-> p, created |-> TRUE, record |-> new]
        /\ phase'[x] = "clip" /\ json'[p] = Empty
    BY <2>2 DEF TypeOK
  <2>6. work'[x] \in Works
    BY <2>3, <2>5 DEF Works
  <2>7. work'[x].path = p /\ work'[x].record = new /\ work'[x].created
    BY ONLY <2>5
  <2>9. work'[x] # None /\ home' = home /\ asked' = asked
    BY <2>2, <2>6
  <2>8. OwnerOf(x)' = OwnerOf(x)
    BY <2>2 DEF OwnerOf
  <2> QED
    BY <2>2, <2>3, <2>4, <2>5, <2>7, <2>8, <2>9 DEF WorkOf, AtWork
<1>8. ASSUME NEW r \in Requests, WriteClip(r)
      PROVE  WorkOf(x)'
  BY <1>0, <1>8 DEF WriteClip, WorkOf, AtWork, OwnerOf, Kept, TypeOK, Goto,
         bounds, memory, request
<1>9. ASSUME NEW r \in Requests, Commit(r) \/ Drop(r)
      PROVE  WorkOf(x)'
  <2>1. CASE x = r
    BY <1>9, <2>1 DEF Commit, Drop, WorkOf, AtWork, TypeOK, Goto
  <2>2. CASE x # r /\ phase[r] \in Locked
    <3>1. ~AtWork(x) /\ phase'[x] = phase[x] /\ work'[x] = work[x]
      BY <1>9, <2>2 DEF Commit, Drop, Goto, Mutex, Locked, AtWork, TypeOK
    <3> QED
      BY <1>0, <3>1 DEF WorkOf, AtWork
  <2>3. CASE x # r /\ phase[r] \notin Locked
    <3>1. Drop(r) /\ UNCHANGED <<today, json, home, asked>>
      BY <1>9, <2>3 DEF Commit, Drop, Locked, bounds, request
    <3>2. phase'[x] = phase[x] /\ work'[x] = work[x]
      BY <2>3, <3>1 DEF Drop, Goto, TypeOK
    <3> QED
      BY <1>0, <3>1, <3>2 DEF WorkOf, AtWork, OwnerOf, Kept
  <2> QED
    BY <2>1, <2>2, <2>3
<1>10. CASE NextDay
  <2>1. UNCHANGED <<phase, work, json, home, asked>>
    BY <1>10 DEF NextDay, disk, memory, request
  <2>2. AtWork(x) => work[x].path.day \in Days
    BY <1>0, TurnsTyped DEF WorkOf, Paths
  <2>3. \A d \in Days : Kept(d)' => Kept(d)
    BY <1>10, KeptBefore
  <2> QED
    BY <1>0, <2>1, <2>2, <2>3 DEF WorkOf, AtWork, OwnerOf
<1>11. CASE Crash
  BY <1>11 DEF Crash, WorkOf, AtWork, TypeOK, InFlight
<1>12. CASE UNCHANGED vars
  BY <1>0, <1>12 DEF vars, WorkOf, AtWork, OwnerOf, Kept, bounds, disk, memory, request
<1> QED
  BY <1>1, <1>2, <1>3, <1>4, <1>5, <1>6, <1>7, <1>8, <1>9, <1>10, <1>11, <1>12, Steps, Zenon

-----------------------------------------------------------------------------
LEMMA HomesNext ==
  /\ TypeOK /\ Dates /\ SweepsExpired /\ WorkIsCurrent /\ HomesAreTheirs /\ [Next]_vars
  => HomesAreTheirs'
<1> SUFFICES ASSUME TypeOK, Dates, SweepsExpired, WorkIsCurrent, HomesAreTheirs,
                    [Next]_vars, NEW c \in Convs
             PROVE  HomeOf(c)'
  BY DEF HomesAreTheirs
<1> DEFINE h == home[c]
<1> USE Basics
<1>0. /\ h # None => h \in Paths /\ h.day \in Days
      /\ h # None /\ json[h] # None => IsRecord(h) /\ json[h].conv = c
      /\ h # None /\ Kept(h.day) => json[h] # None
  BY DEF HomesAreTheirs, HomeOf, TypeOK, Paths
<1>1. CASE UNCHANGED <<today, json, home>>
  BY <1>0, <1>1 DEF HomeOf, IsRecord, Kept
<1>2. ASSUME NEW r \in Requests, NEW f \in sweep[r].files, RemoveFile(r, f)
      PROVE  HomeOf(c)'
  <2>1. ~Kept(f[1].day) /\ f[1] \in Paths
    BY DEF SweepsExpired, TypeOK
  <2>2. /\ \A p \in Paths : json'[p] = json[p] \/ (json'[p] = None /\ p = f[1])
        /\ home' = home /\ today' = today
    BY <1>2 DEF RemoveFile, TypeOK, bounds, memory
  <2> QED
    BY <1>0, <2>1, <2>2 DEF HomeOf, IsRecord, Kept
<1>3. ASSUME NEW r \in Requests, NEW p \in Paths, Create(r, p)
      PROVE  HomeOf(c)'
  <2>1. Kept(p.day) /\ json[p] = None
    BY <1>3, ThreadsAsked DEF Create, InFlight
  <2>2. (h # None => h # p) /\ home' = home /\ today' = today /\ json' = [json EXCEPT ![p] = Empty]
    BY <1>0, <1>3, <2>1 DEF Create, memory, bounds
  <2>3. h # None => json'[h] = json[h]
    BY <1>0, <2>2 DEF TypeOK
  <2> QED
    BY <1>0, <2>2, <2>3 DEF HomeOf, IsRecord, Kept
<1>4. ASSUME NEW r \in Requests, Commit(r)
      PROVE  HomeOf(c)'
  <2> DEFINE p == work[r].path
  <2>1. work[r] # None /\ asked[r] # None /\ AtWork(r)
    BY <1>4, ThreadsAsked DEF Commit, InFlight, WorkIsCurrent, WorkOf, AtWork
  <2>2. /\ work[r].record.conv = OwnerOf(r)
        /\ \A d \in Convs : home[d] = p => work[r].record.conv = d
    BY <2>1 DEF WorkIsCurrent, WorkOf
  <2>3. p \in Paths /\ work[r].record \in Records /\ work[r].record.turns \in Seq(Requests)
    BY <2>1, TurnsTyped
  <2>4. home'[c] = None \/ home'[c] = h \/ (home'[c] = p /\ c = OwnerOf(r))
    BY <1>4, <2>1, HomesAfter
  <2>5. /\ json'[p] = [work[r].record EXCEPT !.turns = Append(@, r)]
        /\ \A q \in Paths \ {p} : json'[q] = json[q]
        /\ today' = today
    BY <1>4, <2>3 DEF Commit, TypeOK, bounds
  <2>6. json'[p] \in Records /\ json'[p].conv = work[r].record.conv
    <3>1. Append(work[r].record.turns, r) \in Seq(Requests)
      BY <2>3, AppendProperties
    <3> HIDE DEF p
    <3> QED
      BY <2>3, <2>5, <3>1 DEF Records
  <2>7. CASE home'[c] = p
    <3>1. work[r].record.conv = c
      BY <2>2, <2>3, <2>4, <2>7
    <3> QED
      BY <2>6, <2>7, <3>1 DEF HomeOf, IsRecord
  <2>8. CASE home'[c] = h /\ h # p
    BY <1>0, <2>5, <2>8 DEF HomeOf, IsRecord, Kept
  <2>9. CASE home'[c] = None
    BY <2>9 DEF HomeOf
  <2> QED
    BY <2>4, <2>7, <2>8, <2>9
<1>5. ASSUME NEW r \in Requests, Drop(r)
      PROVE  HomeOf(c)'
  <2>1. CASE AtWork(r) /\ work[r].created
    <3>1. /\ work[r] # None /\ json[work[r].path] = Empty
      BY <2>1 DEF WorkIsCurrent, WorkOf
    <3>2. work[r].path \in Paths
      BY <3>1, TurnsTyped
    <3>3. /\ json' = [json EXCEPT ![work[r].path] = None]
          /\ home' = home /\ today' = today
      BY <1>5, <2>1 DEF Drop, AtWork, bounds
    <3>4. h # None => h # work[r].path
      BY <1>0, <3>1 DEF IsRecord
    <3>5. h # None => json'[h] = json[h]
      BY <1>0, <3>2, <3>3, <3>4 DEF TypeOK
    <3> QED
      BY <1>0, <3>3, <3>5 DEF HomeOf, IsRecord, Kept
  <2>2. CASE ~(AtWork(r) /\ work[r].created)
    BY <1>1, <1>5, <2>2 DEF Drop, AtWork, bounds
  <2> QED
    BY <2>1, <2>2
<1>6. CASE NextDay
  <2>1. json' = json /\ home' = home
    BY <1>6 DEF NextDay, disk, memory
  <2>2. h # None => (Kept(h.day)' => Kept(h.day))
    BY <1>0, <1>6, <2>1, KeptBefore
  <2> QED
    BY <1>0, <2>1, <2>2 DEF HomeOf, IsRecord
<1>7. CASE Crash
  BY <1>7 DEF HomeOf, Crash
<1>8. ASSUME NEW r \in Requests,
             \/ Quiet(r) \/ StartPrune(r) \/ ListFolder(r) \/ RemoveFolder(r)
             \/ MakeFolder(r) \/ Locate(r) \/ WriteClip(r)
      PROVE  UNCHANGED <<today, json, home>>
  BY <1>8, QuietSteps DEF QuietStep, StartPrune, ListFolder, RemoveFolder, MakeFolder,
                          Locate, WriteClip, bounds, disk, memory
<1>9. UNCHANGED vars => UNCHANGED <<today, json, home>>
  BY DEF vars, bounds, disk, memory
<1> QED
  BY <1>1, <1>2, <1>3, <1>4, <1>5, <1>6, <1>7, <1>8, <1>9, Steps, Zenon

-----------------------------------------------------------------------------
FolderOf(r) ==
  /\ phase[r] \in {"waiting", "create"} => asked[r].day \in folders
  /\ phase[r] \in {"clip", "commit"} /\ Kept(work[r].path.day) => work[r].path.day \in folders

LEMMA KeptFoldersNext ==
  /\ TypeOK /\ Dates /\ SweepsExpired /\ FilesHaveFolders /\ WorkIsCurrent
  /\ KeptFoldersStay /\ [Next]_vars
  => KeptFoldersStay'
<1> SUFFICES ASSUME TypeOK, Dates, SweepsExpired, FilesHaveFolders, WorkIsCurrent,
                    KeptFoldersStay, [Next]_vars, NEW x \in Requests
             PROVE  FolderOf(x)'
  BY DEF KeptFoldersStay, FolderOf, FolderThere
<1> USE Basics DEF FolderOf
<1>0. /\ phase[x] \in {"waiting", "create"} =>
           asked[x].day \in folders /\ Kept(asked[x].day)
      /\ phase[x] \in {"clip", "commit"} /\ Kept(work[x].path.day) =>
           work[x].path.day \in folders
  BY ThreadsAsked DEF KeptFoldersStay, FolderThere, InFlight
<1>1. ASSUME NEW r \in Requests, Quiet(r)
      PROVE  FolderOf(x)'
  <2>1. CASE x = r
    BY <1>1, <2>1, QuietSteps DEF QuietStep, StartWrite, TypeOK, Locked, Quiet, Refuse,
       Arrive, Forwarded, Respond, Goto
  <2>2. CASE x # r
    BY <1>0, <1>1, <2>2, QuietSteps DEF QuietStep, TypeOK, Kept, disk
  <2> QED
    BY <2>1, <2>2
<1>2. ASSUME NEW r \in Requests,
             \/ StartPrune(r) \/ ListFolder(r) \/ WriteClip(r)
             \/ \E f \in sweep[r].files : RemoveFile(r, f)
      PROVE  FolderOf(x)'
  BY <1>0, <1>2 DEF StartPrune, ListFolder, WriteClip, RemoveFile, TypeOK, Goto, Kept,
                    bounds, disk, memory, request
<1>3. ASSUME NEW r \in Requests, RemoveFolder(r)
      PROVE  FolderOf(x)'
  <2>1. ~Kept(sweep[r].folder)
    BY <1>3 DEF RemoveFolder, SweepsExpired
  <2>2. /\ folders \ {sweep[r].folder} \subseteq folders'
        /\ phase'[x] = phase[x] \/ phase'[x] \in {"pruning", "folder"}
        /\ UNCHANGED <<today, asked, work>>
    BY <1>3 DEF RemoveFolder, TypeOK, Goto, bounds, request
  <2> QED
    BY <1>0, <2>1, <2>2 DEF Kept
<1>4. ASSUME NEW r \in Requests, MakeFolder(r)
      PROVE  FolderOf(x)'
  BY <1>0, <1>4 DEF MakeFolder, TypeOK, Goto, Kept, bounds, request
<1>5. ASSUME NEW r \in Requests, Locate(r), x # r
      PROVE  FolderOf(x)'
  BY <1>0, <1>5 DEF Locate, TypeOK, Goto, Kept, bounds, disk, request
<1>6. CASE Locate(x)
  <2>0. phase[x] = "waiting" /\ UNCHANGED <<today, json, folders, asked>>
    BY <1>6 DEF Locate, bounds, disk, request
  <2>1. asked[x] # None
    BY <2>0, ThreadsAsked DEF InFlight
  <2>2. ASSUME NEW p \in Candidates(x), IsRecord(p), phase' = [phase EXCEPT ![x] = "clip"],
               work' = [work EXCEPT ![x] =
                          [path |-> p, record |-> json[p], created |-> FALSE]]
        PROVE  FolderOf(x)'
    <3>1. p \in Paths /\ p.day \in folders
      BY <2>1, <2>2, CandidatesAre DEF IsRecord, FilesHaveFolders
    <3>2. work'[x].path = p /\ phase'[x] = "clip"
      BY <2>2 DEF TypeOK
    <3> QED
      BY <2>0, <3>1, <3>2
  <2>3. ASSUME phase' = [phase EXCEPT ![x] = "create"]
        PROVE  FolderOf(x)'
    BY <1>0, <2>0, <2>3 DEF TypeOK
  <2> QED
    BY <1>6, <2>2, <2>3 DEF Locate, Goto
<1>7. ASSUME NEW r \in Requests, NEW p \in Paths, Create(r, p)
      PROVE  FolderOf(x)'
  <2>1. CASE x = r
    <3>1. /\ work'[x].path = p /\ phase'[x] = "clip" /\ p.day \in folders
          /\ folders' = folders
      BY <1>7, <2>1 DEF Create, TypeOK, Goto
    <3> QED
      BY <3>1
  <2>2. CASE x # r
    BY <1>0, <1>7, <2>2 DEF Create, TypeOK, Goto, Kept, bounds, request
  <2> QED
    BY <2>1, <2>2
<1>8. ASSUME NEW r \in Requests, Commit(r) \/ Drop(r)
      PROVE  FolderOf(x)'
  <2>1. /\ phase' = [phase EXCEPT ![r] = "traced"]
        /\ x # r => work'[x] = work[x]
        /\ UNCHANGED <<today, folders, asked>>
    BY <1>8 DEF Commit, Drop, Goto, TypeOK, bounds, request
  <2> QED
    BY <1>0, <2>1 DEF TypeOK, Kept
<1>9. CASE NextDay
  <2>1. UNCHANGED <<phase, work, folders, asked>>
    BY <1>9 DEF NextDay, disk, request
  <2>2. phase[x] \in {"clip", "commit"} => work[x].path.day \in Days
    BY TurnsTyped DEF WorkIsCurrent, WorkOf, AtWork, Paths
  <2>3. \A d \in Days : Kept(d)' => Kept(d)
    BY <1>9, KeptBefore
  <2> QED
    BY <1>0, <2>1, <2>2, <2>3
<1>10. CASE Crash
  BY <1>10 DEF Crash, TypeOK, InFlight
<1>11. CASE UNCHANGED vars
  BY <1>0, <1>11 DEF vars, Kept, bounds, disk, request
<1> QED
  BY <1>1, <1>2, <1>3, <1>4, <1>5, <1>6, <1>7, <1>8, <1>9, <1>10, <1>11, Steps, Zenon

-----------------------------------------------------------------------------
(***************************************************************************)
(* What a reader finds at a path, and how a step changes that: it does not *)
(* unless a thread commits or midnight comes.                              *)
(***************************************************************************)
Shown(p) == IF IsRecord(p) /\ Kept(p.day) THEN json[p] ELSE None

IInv ==
  /\ TypeOK /\ Dates /\ SweepsExpired /\ FilesHaveFolders /\ Mutex
  /\ Through /\ WorkIsCurrent /\ HomesAreTheirs /\ KeptFoldersStay

LEMMA ShownIs ==
  ASSUME TypeOK, NEW p \in Paths
  PROVE  /\ Shown(p) \in Records \cup {None}
         /\ Kept(p.day) => TurnsAt(p) = IF Shown(p) = None THEN <<>> ELSE Shown(p).turns
         /\ TurnsAt(p) \in Seq(Requests)
<1>1. IsRecord(p) => json[p] \in Records /\ json[p] # None /\ json[p].turns \in Seq(Requests)
  BY Basics DEF IsRecord, TypeOK, Records
<1>2. <<>> \in Seq(Requests)
  OBVIOUS
<1> QED
  BY <1>1, <1>2 DEF Shown, TurnsAt

LEMMA ShownStays ==
  ASSUME IInv, NEW r \in Requests,
         \/ Quiet(r) \/ StartPrune(r) \/ ListFolder(r) \/ RemoveFolder(r)
         \/ \E f \in sweep[r].files : RemoveFile(r, f)
         \/ MakeFolder(r) \/ Locate(r) \/ \E p \in Paths : Create(r, p)
         \/ WriteClip(r) \/ Drop(r)
  PROVE  UNCHANGED <<today, saved>> /\ \A p \in Paths : Shown(p)' = Shown(p)
<1> USE Basics
<1>0. /\ TypeOK /\ Dates /\ SweepsExpired /\ FilesHaveFolders /\ Mutex
      /\ Through /\ WorkIsCurrent /\ HomesAreTheirs /\ KeptFoldersStay
  BY DEF IInv
<1>1. CASE UNCHANGED <<today, saved, json>>
  BY <1>1 DEF Shown, IsRecord, Kept
<1>2. ASSUME NEW f \in sweep[r].files, RemoveFile(r, f)
      PROVE  UNCHANGED <<today, saved>> /\ \A p \in Paths : Shown(p)' = Shown(p)
  <2>1. ~Kept(f[1].day) /\ f[1] \in Paths
    BY <1>0 DEF SweepsExpired, TypeOK
  <2>2. /\ \A p \in Paths : json'[p] = json[p] \/ (json'[p] = None /\ p = f[1])
        /\ saved' = saved /\ today' = today
    BY <1>0, <1>2 DEF RemoveFile, TypeOK, bounds, history
  <2> QED
    BY <2>1, <2>2 DEF Shown, IsRecord, Kept
<1>3. ASSUME NEW q \in Paths, Create(r, q)
      PROVE  UNCHANGED <<today, saved>> /\ \A p \in Paths : Shown(p)' = Shown(p)
  <2>1. /\ json' = [json EXCEPT ![q] = Empty] /\ json[q] = None
        /\ saved' = saved /\ today' = today
    BY <1>3 DEF Create, bounds, history
  <2> QED
    BY <1>0, <2>1 DEF Shown, IsRecord, Kept, TypeOK
<1>4. CASE Drop(r)
  <2>1. saved' = saved /\ today' = today
    BY <1>4 DEF Drop, bounds, history
  <2>2. CASE AtWork(r) /\ work[r].created
    <3>1. json[work[r].path] = Empty
      BY <1>0, <2>2 DEF WorkIsCurrent, WorkOf
    <3>2. json' = [json EXCEPT ![work[r].path] = None]
      BY <1>4, <2>2 DEF Drop, AtWork
    <3> QED
      BY <1>0, <2>1, <3>1, <3>2 DEF Shown, IsRecord, Kept, TypeOK
  <2>3. CASE ~(AtWork(r) /\ work[r].created)
    BY <1>1, <1>4, <2>1, <2>3 DEF Drop, AtWork
  <2> QED
    BY <2>2, <2>3
<1>5. ASSUME \/ Quiet(r) \/ StartPrune(r) \/ ListFolder(r) \/ RemoveFolder(r)
             \/ MakeFolder(r) \/ Locate(r) \/ WriteClip(r)
      PROVE  UNCHANGED <<today, saved, json>>
  BY <1>0, <1>5, QuietSteps DEF QuietStep, StartPrune, ListFolder, RemoveFolder, MakeFolder,
                          Locate, WriteClip, bounds, disk, history
<1> QED
  BY <1>1, <1>2, <1>3, <1>4, <1>5

LEMMA ShownAtMidnight ==
  ASSUME TypeOK, NextDay
  PROVE  /\ saved' = saved
         /\ \A p \in Paths : /\ Shown(p)' = IF Kept(p.day)' THEN Shown(p) ELSE None
                             /\ Kept(p.day)' => Kept(p.day)
<1>1. saved' = saved /\ json' = json
  BY DEF NextDay, history, disk
<1>2. \A p \in Paths : Kept(p.day)' => Kept(p.day)
  BY KeptBefore DEF Paths
<1> QED
  BY <1>1, <1>2 DEF Shown, IsRecord

\* A commit adds one turn of the thread's request to a file of its conversation.
CommitTo(r, p, old) ==
  /\ p = work[r].path /\ old = work[r].record /\ old.conv = OwnerOf(r)
  /\ p.day <= today /\ asked[r] # None /\ saved[r] = None
  /\ today' = today /\ saved' = [saved EXCEPT ![r] = p]
  /\ \A q \in Paths \ {p} : Shown(q)' = Shown(q)
  /\ ~Kept(p.day) => Shown(p)' = None /\ Shown(p) = None
  /\ Kept(p.day) =>
       /\ Shown(p)' = [old EXCEPT !.turns = Append(@, r)]
       /\ \/ Shown(p) = None /\ old = [conv |-> OwnerOf(r), turns |-> <<>>]
          \/ Shown(p) = old

LEMMA ShownByCommit ==
  ASSUME IInv, NEW r \in Requests, Commit(r)
  PROVE  \E p \in Paths, old \in Records : CommitTo(r, p, old)
<1> USE Basics
<1>0. /\ TypeOK /\ Dates /\ SweepsExpired /\ FilesHaveFolders /\ Mutex
      /\ Through /\ WorkIsCurrent /\ HomesAreTheirs /\ KeptFoldersStay
  BY DEF IInv
<1>1. AtWork(r) /\ WorkOf(r) /\ asked[r] # None /\ saved[r] = None
  BY <1>0, ThreadsAsked DEF Commit, InFlight, AtWork, WorkIsCurrent, Through
<1>10. work[r].path \in Paths /\ work[r].record \in Records
  BY <1>0, <1>1, TurnsTyped DEF WorkOf
<1>11. PICK p \in Paths, old \in Records : p = work[r].path /\ old = work[r].record
  BY <1>10
<1> DEFINE new == [old EXCEPT !.turns = Append(@, r)]
<1>2. old.turns \in Seq(Requests) /\ old.conv = OwnerOf(r)
  BY <1>1, <1>11 DEF WorkOf, Records
<1>3. p.day <= today
  BY <1>0, <1>11 DEF Commit, FolderThere, FilesHaveFolders
<1>4. /\ json' = [json EXCEPT ![p] = new]
      /\ today' = today /\ saved' = [saved EXCEPT ![r] = p]
  BY <1>11 DEF Commit, bounds
<1>5. new \in Records
  <2>1. Append(old.turns, r) \in Seq(Requests)
    BY <1>2, AppendProperties
  <2> QED
    BY <1>2, <2>1 DEF Records
<1>6. \A q \in Paths \ {p} : Shown(q)' = Shown(q)
  BY <1>0, <1>2, <1>4 DEF Shown, IsRecord, Kept, TypeOK
<1>7. json'[p] = new
  BY <1>0, <1>2, <1>4 DEF TypeOK
<1>8. ~Kept(p.day) => Shown(p)' = None /\ Shown(p) = None
  BY <1>4 DEF Shown, Kept
<1>9. ASSUME Kept(p.day)
      PROVE  /\ Shown(p)' = new
             /\ \/ Shown(p) = None /\ old = [conv |-> OwnerOf(r), turns |-> <<>>]
                \/ Shown(p) = old
  <2>1. Shown(p)' = new
    <3> HIDE DEF new
    <3>1. Kept(p.day)' = Kept(p.day)
      BY <1>4 DEF Kept
    <3>2. IsRecord(p)'
      BY <1>5, <1>7 DEF IsRecord
    <3> QED
      BY <1>7, <1>9, <3>1, <3>2 DEF Shown
  <2>2. CASE work[r].created
    <3>1. json[p] = Empty /\ old.turns = <<>>
      BY <1>1, <1>11, <2>2 DEF WorkOf
    <3>2. Shown(p) = None
      BY <3>1 DEF Shown, IsRecord
    <3>3. old = [conv |-> OwnerOf(r), turns |-> <<>>]
      BY <1>2, <3>1 DEF Records
    <3> QED
      BY <2>1, <3>2, <3>3
  <2>3. CASE ~work[r].created
    <3>1. json[p] = old
      BY <1>1, <1>9, <1>11, <2>3 DEF WorkOf
    <3> QED
      BY <1>2, <1>9, <2>1, <3>1 DEF Shown, IsRecord
  <2> QED
    BY <2>2, <2>3
<1> QED
  BY <1>1, <1>2, <1>3, <1>4, <1>6, <1>8, <1>9, <1>11 DEF CommitTo

-----------------------------------------------------------------------------
LEMMA InvInit == Init => IInv
<1> SUFFICES ASSUME Init PROVE IInv
  OBVIOUS
<1> USE Basics
<1>1. TypeOK
  BY TypeInit
<1>2. Dates /\ SweepsExpired /\ FilesHaveFolders
  BY DEF Init, Dates, SweepsExpired, FilesHaveFolders, NoSweep, InFlight
<1>3. Mutex /\ Through /\ KeptFoldersStay
  BY DEF Init, Mutex, Locked, Through, IsRecord, KeptFoldersStay
<1>4. WorkIsCurrent /\ HomesAreTheirs
  BY DEF Init, WorkIsCurrent, WorkOf, AtWork, HomesAreTheirs, HomeOf
<1> QED
  BY <1>1, <1>2, <1>3, <1>4 DEF IInv

LEMMA InvNext == IInv /\ [Next]_vars => IInv'
BY TypeNext, DatesNext, SweepsNext, FoldersNext, MutexNext, ThroughNext, WorkNext,
   HomesNext, KeptFoldersNext DEF IInv

(***************************************************************************)
(* The inductive invariant of the store.                                   *)
(***************************************************************************)
THEOREM InvHolds == Spec => []IInv
<1>1. Init => IInv
  BY InvInit
<1>2. IInv /\ [Next]_vars => IInv'
  BY InvNext
<1> QED
  BY <1>1, <1>2, PTL DEF Spec

(***************************************************************************)
(* The folder trace.py makes for a claim, or finds a conversation in, is   *)
(* there until its thread has written to it, as long as it is retained,    *)
(* although threads prune without the lock and on other days' behalf.      *)
(***************************************************************************)
THEOREM FoldersStay == Spec => []KeptFoldersStay
<1>1. IInv => KeptFoldersStay
  BY DEF IInv
<1> QED
  BY <1>1, InvHolds, PTL

-----------------------------------------------------------------------------
LEMMA ShownIsAfter ==
  ASSUME TypeOK', NEW p \in Paths
  PROVE  /\ Shown(p)' \in Records \cup {None}
         /\ Kept(p.day)' => TurnsAt(p)' = IF Shown(p)' = None THEN <<>> ELSE Shown(p)'.turns
         /\ TurnsAt(p)' \in Seq(Requests)
<1>1. IsRecord(p)' => json'[p] \in Records /\ json'[p] # None /\ json'[p].turns \in Seq(Requests)
  BY Basics DEF IsRecord, TypeOK, Records
<1>2. <<>> \in Seq(Requests)
  OBVIOUS
<1> QED
  BY <1>1, <1>2 DEF Shown, TurnsAt

LEMMA AppendedTo ==
  ASSUME NEW s \in Seq(Requests), NEW r \in Requests
  PROVE  /\ Append(s, r) \in Seq(Requests) /\ Len(Append(s, r)) = Len(s) + 1
         /\ Len(s) \in Nat /\ Append(s, r)[Len(s) + 1] = r
         /\ \A i \in 1..Len(s) : Append(s, r)[i] = s[i]
         /\ r \in ToSet(Append(s, r)) /\ ToSet(s) \subseteq ToSet(Append(s, r))
<1> DEFINE t == Append(s, r)
<1>1. /\ t \in Seq(Requests) /\ Len(t) = Len(s) + 1 /\ t[Len(s) + 1] = r
      /\ \A i \in 1..Len(s) : t[i] = s[i]
  BY AppendProperties
<1>2. Len(s) \in Nat /\ DOMAIN s = 1..Len(s) /\ DOMAIN t = 1..Len(t)
  BY <1>1, LenProperties
<1> HIDE DEF t
<1>3. Len(s) + 1 \in DOMAIN t /\ \A i \in DOMAIN s : i \in DOMAIN t /\ t[i] = s[i]
  BY <1>1, <1>2
<1>4. r \in ToSet(t) /\ ToSet(s) \subseteq ToSet(t)
  BY <1>1, <1>3 DEF ToSet
<1> QED
  BY <1>1, <1>2, <1>4 DEF t

LEMMA SavedNext == IInv /\ IInv' /\ SavedTurnsAreKept /\ [Next]_vars => SavedTurnsAreKept'
<1> SUFFICES ASSUME IInv, IInv', SavedTurnsAreKept, [Next]_vars, NEW x \in Requests,
                    NEW p \in Paths, saved'[x] = p, Kept(p.day)'
             PROVE  x \in ToSet(TurnsAt(p)')
  <2>1. IInv' => \A x \in Requests : saved'[x] # None => saved'[x] \in Paths
    BY DEF IInv, TypeOK
  <2> QED
    BY <2>1 DEF SavedTurnsAreKept
<1> USE Basics
<1>0. TypeOK /\ TypeOK'
  BY DEF IInv
<1>1. /\ TurnsAt(p)' = IF Shown(p)' = None THEN <<>> ELSE Shown(p)'.turns
      /\ Kept(p.day) => TurnsAt(p) = IF Shown(p) = None THEN <<>> ELSE Shown(p).turns
      /\ Kept(p.day) /\ saved[x] = p => x \in ToSet(TurnsAt(p))
  BY <1>0, ShownIs, ShownIsAfter DEF SavedTurnsAreKept
<1>2. CASE saved' = saved /\ Shown(p)' = Shown(p) /\ Kept(p.day)
  BY <1>1, <1>2
<1>3. CASE UNCHANGED <<today, saved, json>>
  BY <1>1, <1>3 DEF TurnsAt, IsRecord, Kept
<1>4. CASE NextDay
  BY <1>0, <1>2, <1>4, ShownAtMidnight
<1>5. ASSUME NEW r \in Requests, Commit(r)
      PROVE  x \in ToSet(TurnsAt(p)')
  <2>0. PICK q \in Paths, old \in Records : CommitTo(r, q, old)
    BY <1>5, ShownByCommit
  <2>1. /\ today' = today /\ saved' = [saved EXCEPT ![r] = q]
        /\ \A z \in Paths \ {q} : Shown(z)' = Shown(z)
        /\ Kept(q.day) =>
             /\ Shown(q)' = [old EXCEPT !.turns = Append(@, r)]
             /\ (Shown(q) = None /\ old.turns = <<>>) \/ Shown(q) = old
    BY <2>0 DEF CommitTo
  <2>2. Kept(p.day)
    BY <2>1 DEF Kept
  <2>3. CASE p # q
    BY <1>0, <1>1, <2>1, <2>2, <2>3 DEF TypeOK
  <2>4. CASE p = q
    <3>1. /\ old.turns \in Seq(Requests) /\ Shown(p)' = [old EXCEPT !.turns = Append(@, r)]
          /\ Shown(p)' \in Records \cup {None}
      BY <1>0, <2>1, <2>2, <2>4, ShownIsAfter DEF Records
    <3>2. TurnsAt(p)' = Append(old.turns, r)
      <4>1. [old EXCEPT !.turns = Append(@, r)] \in Records
        BY <3>1, AppendedTo DEF Records
      <4>2. [old EXCEPT !.turns = Append(@, r)].turns = Append(old.turns, r)
        BY DEF Records
      <4> QED
        BY <1>1, <3>1, <4>1, <4>2
    <3>3. x = r \/ x \in ToSet(old.turns)
      <4>1. x # r => x \in ToSet(TurnsAt(p))
        BY <1>0, <1>1, <2>1, <2>2 DEF TypeOK
      <4>2. ToSet(<<>>) = {}
        BY DEF ToSet
      <4>3. TurnsAt(p) = <<>> \/ TurnsAt(p) = old.turns
        BY <1>1, <2>1, <2>2, <2>4
      <4> QED
        BY <4>1, <4>2, <4>3
    <3> QED
      BY <3>1, <3>2, <3>3, AppendedTo
  <2> QED
    BY <2>3, <2>4
<1>6. ASSUME NEW r \in Requests,
             \/ Quiet(r) \/ StartPrune(r) \/ ListFolder(r) \/ RemoveFolder(r)
             \/ \E f \in sweep[r].files : RemoveFile(r, f)
             \/ MakeFolder(r) \/ Locate(r) \/ \E q \in Paths : Create(r, q)
             \/ WriteClip(r) \/ Drop(r)
      PROVE  x \in ToSet(TurnsAt(p)')
  <2>1. UNCHANGED <<today, saved>> /\ Shown(p)' = Shown(p)
    BY <1>6, ShownStays
  <2> QED
    BY <1>2, <2>1 DEF Kept
<1>7. Crash \/ UNCHANGED vars => UNCHANGED <<today, saved, json>>
  BY DEF Crash, vars, bounds, disk, history
<1> QED
  BY <1>3, <1>4, <1>5, <1>6, <1>7, Steps, Zenon

(***************************************************************************)
(* A turn whose save succeeded stays in the file it was saved to while its *)
(* day is retained, whatever runs beside it in trace.py, fails or dies.    *)
(***************************************************************************)
THEOREM SavedTurnsStay == Spec => []SavedTurnsAreKept
<1>1. Init => SavedTurnsAreKept
  BY DEF Init, SavedTurnsAreKept
<1>2. IInv /\ IInv' /\ SavedTurnsAreKept /\ [Next]_vars => SavedTurnsAreKept'
  BY SavedNext
<1> QED
  BY <1>1, <1>2, InvHolds, PTL DEF Spec
-----------------------------------------------------------------------------
\* A clip is written over the one that was there, and over no other.
LEMMA ClipsAfter ==
  ASSUME NEW q \in Paths, NEW n \in Nat, NEW audio,
         clips' = ClipsBut(q, n) \cup {Clip(q, n, audio)}
  PROVE  /\ ClipsAt(q, n)' = {Clip(q, n, audio)}
         /\ \A p \in Paths, i \in Nat : p # q \/ i # n => ClipsAt(p, i)' = ClipsAt(p, i)
<1>1. Clip(q, n, audio).path = q /\ Clip(q, n, audio).turn = n
  BY DEF Clip
<1> QED
  BY <1>1 DEF ClipsAt, ClipsBut

\* What a thread writes its clip for is the turn after those that are there.
LEMMA TurnIsNext ==
  ASSUME IInv, NEW r \in Requests, AtWork(r)
  PROVE  /\ work[r].path \in Paths /\ NextTurn(r) \in Nat
         /\ work[r].record.turns \in Seq(Requests)
         /\ NextTurn(r) = Len(work[r].record.turns) + 1
         /\ Kept(work[r].path.day) => TurnsAt(work[r].path) = work[r].record.turns
<1>0. TypeOK /\ WorkOf(r)
  BY DEF IInv, WorkIsCurrent
<1>1. work[r] # None
  BY <1>0 DEF WorkOf
<1>2. /\ work[r].path \in Paths /\ NextTurn(r) \in Nat /\ work[r].record \in Records
      /\ work[r].record.turns \in Seq(Requests)
      /\ NextTurn(r) = Len(work[r].record.turns) + 1
  BY <1>0, <1>1, TurnsTyped
<1>3. CASE work[r].created
  BY <1>0, <1>2, <1>3 DEF WorkOf, TurnsAt, IsRecord
<1>4. CASE ~work[r].created
  BY <1>0, <1>2, <1>4, Basics DEF WorkOf, TurnsAt, IsRecord
<1> QED
  BY <1>2, <1>3, <1>4

LEMMA AudioStays ==
  ASSUME IInv, IInv', TurnsHaveTheirAudio, NEW p \in Paths, Kept(p.day), Shown(p)' = Shown(p),
         \A i \in 1..Len(TurnsAt(p)) : ClipsAt(p, i)' = ClipsAt(p, i)
  PROVE  AudioAt(p)'
<1>1. CASE Kept(p.day)'
  <2>1. TurnsAt(p)' = TurnsAt(p)
    BY <1>1, ShownIs, ShownIsAfter DEF IInv
  <2>2. \A i \in 1..Len(TurnsAt(p)) : ClipsAt(p, i) = {Clip(p, i, TurnsAt(p)[i])}
    BY DEF TurnsHaveTheirAudio, ClipsAt, Clip
  <2> QED
    BY <2>1, <2>2 DEF AudioAt, Clip
<1> QED
  BY <1>1 DEF AudioAt

LEMMA AudioNext ==
  /\ IInv /\ IInv' /\ TurnsHaveTheirAudio /\ ClipIsWritten /\ [Next]_vars
  => \A p \in Paths : AudioAt(p)'
<1> SUFFICES ASSUME IInv, IInv', TurnsHaveTheirAudio, ClipIsWritten, [Next]_vars,
                    NEW p \in Paths
             PROVE  AudioAt(p)'
  OBVIOUS
<1> USE Basics
<1>0. TypeOK /\ TypeOK' /\ Mutex /\ SweepsExpired /\ TurnsAt(p) \in Seq(Requests)
  BY ShownIs DEF IInv
<1>1. Len(TurnsAt(p)) \in Nat
  BY <1>0, LenProperties
<1>2. CASE UNCHANGED <<today, json, clips>>
  BY <1>2 DEF TurnsHaveTheirAudio, AudioAt, ClipsAt, Clip, TurnsAt, IsRecord, Kept
<1>3. CASE NextDay
  <2>1. Kept(p.day)' => Kept(p.day) /\ Shown(p)' = Shown(p)
    BY <1>0, <1>3, ShownAtMidnight
  <2>2. clips' = clips
    BY <1>3 DEF NextDay, disk
  <2>3. CASE Kept(p.day)'
    BY <2>1, <2>2, <2>3, AudioStays DEF ClipsAt
  <2> QED
    BY <2>3 DEF AudioAt
<1>4. ASSUME NEW r \in Requests, NEW f \in sweep[r].files, RemoveFile(r, f)
      PROVE  AudioAt(p)'
  <2>1. ~Kept(f[1].day) /\ today' = today
    BY <1>0, <1>4 DEF SweepsExpired, RemoveFile, bounds
  <2>2. CASE Kept(p.day)
    <3>1. Shown(p)' = Shown(p)
      BY <1>4, ShownStays
    <3>2. \A i \in Nat : ClipsAt(p, i)' = ClipsAt(p, i)
      BY <1>4, <2>1, <2>2 DEF RemoveFile, ClipsAt, ClipsBut
    <3> QED
      BY <1>1, <2>2, <3>1, <3>2, AudioStays
  <2>3. CASE ~Kept(p.day)
    BY <2>1, <2>3 DEF AudioAt, Kept
  <2> QED
    BY <2>2, <2>3
<1>5. ASSUME NEW r \in Requests, AtWork(r), NEW audio, Shown(p)' = Shown(p), today' = today,
             clips' = ClipsBut(work[r].path, NextTurn(r))
                        \cup {Clip(work[r].path, NextTurn(r), audio)}
      PROVE  AudioAt(p)'
  <2>0. PICK q \in Paths, n \in Nat : q = work[r].path /\ n = NextTurn(r)
    BY <1>5, TurnIsNext
  <2>1. \A z \in Paths, i \in Nat : z # q \/ i # n => ClipsAt(z, i)' = ClipsAt(z, i)
    BY <1>5, <2>0, ClipsAfter
  <2>2. CASE Kept(p.day)
    <3>1. \A i \in 1..Len(TurnsAt(p)) : p # q \/ i # n
      <4>1. p = q => n = Len(TurnsAt(p)) + 1
        BY <1>5, <2>0, <2>2, TurnIsNext
      <4> QED
        BY <1>1, <4>1
    <3>2. \A i \in 1..Len(TurnsAt(p)) : ClipsAt(p, i)' = ClipsAt(p, i)
      <4>1. \A i \in 1..Len(TurnsAt(p)) : i \in Nat
        BY <1>1
      <4> QED
        BY <2>1, <3>1, <4>1
    <3> QED
      BY <1>5, <2>2, <3>2, AudioStays
  <2>3. CASE ~Kept(p.day)
    BY <1>5, <2>3 DEF AudioAt, Kept
  <2> QED
    BY <2>2, <2>3
<1>6. ASSUME NEW r \in Requests, WriteClip(r)
      PROVE  AudioAt(p)'
  <2>1. Shown(p)' = Shown(p) /\ today' = today
    BY <1>6, ShownStays
  <2>2. /\ AtWork(r)
        /\ clips' = ClipsBut(work[r].path, NextTurn(r))
                      \cup {Clip(work[r].path, NextTurn(r), r)}
    BY <1>6 DEF WriteClip, AtWork, ClipOf, Clip
  <2> QED
    BY <1>5, <2>1, <2>2
<1>7. ASSUME NEW r \in Requests, Drop(r)
      PROVE  AudioAt(p)'
  <2>1. Shown(p)' = Shown(p) /\ today' = today
    BY <1>7, ShownStays
  <2>2. CASE /\ AtWork(r)
             /\ clips' = ClipsBut(work[r].path, NextTurn(r))
                           \cup {Clip(work[r].path, NextTurn(r), Torn)}
    BY <1>5, <2>1, <2>2
  <2>3. CASE clips' = clips
    <3>1. CASE Kept(p.day)
      BY <2>1, <2>3, <3>1, AudioStays DEF ClipsAt
    <3>2. CASE ~Kept(p.day)
      BY <2>1, <3>2 DEF AudioAt, Kept
    <3> QED
      BY <3>1, <3>2
  <2> QED
    BY <1>7, <2>2, <2>3 DEF Drop, AtWork, ClipOf, Clip
<1>8. ASSUME NEW r \in Requests, Commit(r)
      PROVE  AudioAt(p)'
  <2>0. PICK q \in Paths, old \in Records : CommitTo(r, q, old)
    BY <1>8, ShownByCommit
  <2>1. /\ today' = today /\ q = work[r].path /\ old = work[r].record
        /\ \A z \in Paths \ {q} : Shown(z)' = Shown(z)
        /\ Kept(q.day) => Shown(q)' = [old EXCEPT !.turns = Append(@, r)]
    BY <2>0 DEF CommitTo
  <2>2. clips' = clips /\ phase[r] = "commit" /\ AtWork(r)
    BY <1>8 DEF Commit, AtWork
  <2>3. CASE ~Kept(p.day)
    BY <2>1, <2>3 DEF AudioAt, Kept
  <2>4. CASE Kept(p.day) /\ p # q
    BY <2>1, <2>2, <2>4, AudioStays DEF ClipsAt
  <2>5. CASE Kept(p.day) /\ p = q
    <3> DEFINE s == old.turns
    <3>1. /\ s \in Seq(Requests) /\ TurnsAt(p) = s
          /\ NextTurn(r) = Len(s) + 1 /\ NextTurn(r) \in Nat
      BY <2>1, <2>2, <2>5, TurnIsNext
    <3>2. TurnsAt(p)' = Append(s, r)
      <4>1. Append(s, r) \in Seq(Requests)
        BY <3>1, AppendedTo
      <4>2. /\ [old EXCEPT !.turns = Append(@, r)] \in Records
            /\ [old EXCEPT !.turns = Append(@, r)].turns = Append(s, r)
        BY <4>1 DEF Records
      <4>3. Kept(p.day)'
        BY <2>1, <2>5 DEF Kept
      <4> QED
        BY <1>0, <2>1, <2>5, <4>2, <4>3, ShownIsAfter
    <3>3. ClipsAt(p, Len(s) + 1) = {Clip(p, Len(s) + 1, r)}
      BY <2>1, <2>2, <2>5, <3>1 DEF ClipIsWritten, ClipOfThread
    <3>4. \A i \in 1..Len(s) : ClipsAt(p, i) = {Clip(p, i, s[i])}
      BY <2>5, <3>1 DEF TurnsHaveTheirAudio, ClipsAt, Clip
    <3> HIDE DEF s
    <3> DEFINE t == Append(s, r)
    <3>5. /\ Len(s) \in Nat /\ Len(t) = Len(s) + 1 /\ t[Len(s) + 1] = r
          /\ \A i \in 1..Len(s) : t[i] = s[i]
      BY <3>1, AppendedTo
    <3> HIDE DEF t
    <3>6. ASSUME NEW i \in 1..Len(t) PROVE ClipsAt(p, i) = {Clip(p, i, t[i])}
      <4>1. i = Len(s) + 1 \/ i \in 1..Len(s)
        BY <3>5
      <4> QED
        BY <3>3, <3>4, <3>5, <4>1
    <3>7. TurnsAt(p)' = t
      BY <3>2 DEF t
    <3>8. \A i : ClipsAt(p, i)' = ClipsAt(p, i)
      BY <2>2 DEF ClipsAt
    <3> QED
      BY <3>6, <3>7, <3>8 DEF AudioAt, Clip
  <2> QED
    BY <2>3, <2>4, <2>5
<1>9. ASSUME NEW r \in Requests,
             \/ Quiet(r) \/ StartPrune(r) \/ ListFolder(r) \/ RemoveFolder(r)
             \/ MakeFolder(r) \/ Locate(r)
      PROVE  UNCHANGED <<today, json, clips>>
  BY <1>0, <1>9, QuietSteps DEF QuietStep, StartPrune, ListFolder, RemoveFolder, MakeFolder,
                               Locate, bounds, disk
<1>10. ASSUME NEW r \in Requests, NEW q \in Paths, Create(r, q)
       PROVE  AudioAt(p)'
  <2>1. Shown(p)' = Shown(p) /\ clips' = clips /\ today' = today
    BY <1>10, ShownStays DEF Create
  <2>2. CASE Kept(p.day)
    BY <2>1, <2>2, AudioStays DEF ClipsAt
  <2>3. CASE ~Kept(p.day)
    BY <2>1, <2>3 DEF AudioAt, Kept
  <2> QED
    BY <2>2, <2>3
<1>11. Crash \/ UNCHANGED vars => UNCHANGED <<today, json, clips>>
  BY DEF Crash, vars, bounds, disk
<1> QED
  BY <1>2, <1>3, <1>4, <1>6, <1>7, <1>8, <1>9, <1>10, <1>11, Steps, Zenon

LEMMA ClipNext == IInv /\ ClipIsWritten /\ [Next]_vars => ClipIsWritten'
<1> SUFFICES ASSUME IInv, ClipIsWritten, [Next]_vars, NEW x \in Requests, NEW p \in Paths,
                    NEW n \in Nat, phase'[x] = "commit", p = work'[x].path,
                    n = NextTurn(x)', Kept(p.day)'
             PROVE  ClipsAt(p, n)' = {Clip(p, n, x)}
  BY DEF ClipIsWritten, ClipOfThread
<1> USE Basics
<1>0. TypeOK /\ Mutex /\ SweepsExpired
  BY DEF IInv
<1>1. CASE UNCHANGED <<today, clips>> /\ phase[x] = "commit" /\ work'[x] = work[x]
  BY <1>1 DEF ClipIsWritten, ClipOfThread, Kept, NextTurn, ClipsAt
<1>2. ASSUME NEW r \in Requests,
             \/ Quiet(r) \/ StartPrune(r) \/ ListFolder(r) \/ RemoveFolder(r)
             \/ MakeFolder(r) \/ Locate(r) \/ (\E q \in Paths : Create(r, q)) \/ Commit(r)
      PROVE  UNCHANGED <<today, clips>> /\ phase[x] = "commit" /\ work'[x] = work[x]
  <2>1. UNCHANGED <<today, clips>>
    BY <1>0, <1>2, QuietSteps DEF QuietStep, StartPrune, ListFolder, RemoveFolder,
             MakeFolder, Locate, Create, Commit, bounds, disk
  <2>2. \E q \in Phases \ {"commit"} : phase' = [phase EXCEPT ![r] = q] \/ phase' = phase
    BY <1>0, <1>2, QuietSteps DEF QuietStep, StartPrune, ListFolder, RemoveFolder,
             MakeFolder, Locate, Create, Commit, Goto, Phases, Locked
  <2>3. \A z \in Requests : z = r \/ work'[z] = work[z]
    BY <1>0, <1>2, QuietSteps DEF QuietStep, StartPrune, ListFolder, RemoveFolder,
             MakeFolder, Locate, Create, Commit, TypeOK
  <2>4. x # r \/ ListFolder(r)
    BY <1>0, <1>2, QuietSteps DEF QuietStep, StartPrune, RemoveFolder,
             MakeFolder, Locate, Create, Commit, Goto, TypeOK, Locked
  <2>5. phase[x] = "commit" /\ work'[x] = work[x]
    BY <1>0, <2>2, <2>3, <2>4 DEF TypeOK, ListFolder
  <2> QED
    BY <2>1, <2>5
<1>3. ASSUME NEW r \in Requests, NEW f \in sweep[r].files, RemoveFile(r, f)
      PROVE  ClipsAt(p, n)' = {Clip(p, n, x)}
  <2>1. ~Kept(f[1].day) /\ UNCHANGED <<today, phase, work>>
    BY <1>0, <1>3 DEF SweepsExpired, RemoveFile, bounds
  <2>2. ClipsAt(p, n)' = ClipsAt(p, n)
    BY <1>3, <2>1 DEF RemoveFile, ClipsAt, ClipsBut, Kept
  <2> QED
    BY <2>1, <2>2 DEF ClipIsWritten, ClipOfThread, Kept, NextTurn
<1>4. ASSUME NEW r \in Requests, WriteClip(r)
      PROVE  ClipsAt(p, n)' = {Clip(p, n, x)}
  <2>1. x = r
    BY <1>0, <1>4 DEF WriteClip, Goto, TypeOK, Mutex, Locked
  <2>2. AtWork(r) /\ work' = work
    BY <1>4 DEF WriteClip, AtWork
  <2>3. n = NextTurn(r) /\ p = work[r].path
    BY <2>1, <2>2 DEF NextTurn
  <2>4. clips' = ClipsBut(p, n) \cup {Clip(p, n, r)}
    BY <1>4, <2>1, <2>2, <2>3 DEF WriteClip, ClipOf, Clip
  <2>5. ClipsAt(p, n)' = {Clip(p, n, r)}
    BY <2>4, ClipsAfter
  <2> QED
    BY <2>1, <2>5
<1>5. ASSUME NEW r \in Requests, Drop(r)
      PROVE  UNCHANGED <<today, clips>> /\ phase[x] = "commit" /\ work'[x] = work[x]
  <2>1. x # r /\ phase[x] = "commit" /\ work'[x] = work[x] /\ today' = today
    BY <1>0, <1>5 DEF Drop, Goto, TypeOK, bounds
  <2>2. phase[r] # "clip"
    BY <1>0, <2>1 DEF Mutex, Locked
  <2> QED
    BY <1>5, <2>1, <2>2 DEF Drop
<1>6. CASE NextDay
  <2>1. UNCHANGED <<clips, phase, work>> /\ Kept(p.day)
    BY <1>0, <1>6, KeptBefore DEF NextDay, disk, Paths
  <2> QED
    BY <2>1 DEF ClipIsWritten, ClipOfThread, NextTurn, ClipsAt
<1>7. CASE Crash
  BY <1>0, <1>7 DEF Crash, InFlight, TypeOK
<1>8. UNCHANGED vars => UNCHANGED <<today, clips>> /\ phase[x] = "commit" /\ work'[x] = work[x]
  BY DEF vars, bounds, disk
<1> QED
  BY <1>1, <1>2, <1>3, <1>4, <1>5, <1>6, <1>7, <1>8, Steps, Zenon

(***************************************************************************)
(* The clip a turn of a retained file names is there, once and whole, and  *)
(* is the audio that request sent: the lock of trace.py covers the clip    *)
(* and the record, and a clip left by a failure or a crash is written over *)
(* by whoever gets its number.                                             *)
(***************************************************************************)
THEOREM AudioIsThere == Spec => []TurnsHaveTheirAudio
<1>1. Init => TurnsHaveTheirAudio /\ ClipIsWritten
  <2> SUFFICES ASSUME Init PROVE TurnsHaveTheirAudio /\ ClipIsWritten
    OBVIOUS
  <2>1. \A p \in Paths : TurnsAt(p) = <<>>
    BY Basics DEF Init, TurnsAt, IsRecord
  <2> QED
    BY <2>1 DEF Init, TurnsHaveTheirAudio, ClipIsWritten, ClipOfThread
<1>2. /\ IInv /\ IInv' /\ TurnsHaveTheirAudio /\ ClipIsWritten /\ [Next]_vars
      => (TurnsHaveTheirAudio /\ ClipIsWritten)'
  <2>1. (\A p \in Paths : AudioAt(p)') => TurnsHaveTheirAudio'
    BY DEF AudioAt, TurnsHaveTheirAudio, ClipsAt, Clip
  <2> QED
    BY <2>1, AudioNext, ClipNext
<1> QED
  BY <1>1, <1>2, InvHolds, PTL DEF Spec
-----------------------------------------------------------------------------
\* One thread at most is at a file: it holds the lock.
LEMMA OneIsWritten ==
  ASSUME IInv, NEW r \in Requests, NEW x \in Requests, AtWork(r), AtWork(x)
  PROVE  r = x
BY DEF IInv, Mutex, AtWork, Locked

Stranded == Claimed \ BeingWritten

\* No step but a crash strands a claim.
LEMMA StrandedNext ==
  ASSUME IInv, [Next]_vars, ~Crash
  PROVE  crashes' = crashes /\ Stranded' \subseteq Stranded
<1> USE Basics
<1>0. /\ TypeOK /\ Mutex /\ WorkIsCurrent
      /\ \A r \in Requests : AtWork(r) <=> work[r] # None
  BY DEF IInv, WorkIsCurrent, WorkOf
<1>1. CASE UNCHANGED <<crashes, json, work>>
  BY <1>1 DEF Stranded, Claimed, BeingWritten
<1>2. ASSUME NEW r \in Requests, NEW f \in sweep[r].files, RemoveFile(r, f)
      PROVE  crashes' = crashes /\ Stranded' \subseteq Stranded
  <2>1. UNCHANGED <<crashes, work>> /\ \A p \in Paths : json'[p] = json[p] \/ json'[p] = None
    BY <1>0, <1>2 DEF RemoveFile, TypeOK, bounds
  <2> QED
    BY <2>1 DEF Stranded, Claimed, BeingWritten
<1>3. ASSUME NEW r \in Requests, Locate(r)
      PROVE  crashes' = crashes /\ Stranded' \subseteq Stranded
  <2>1. UNCHANGED <<crashes, json>> /\ \A x \in Requests \ {r} : work'[x] = work[x]
    BY <1>0, <1>3 DEF Locate, TypeOK, bounds, disk
  <2>2. work[r] = None
    BY <1>0, <1>3 DEF Locate, AtWork
  <2>3. BeingWritten \subseteq BeingWritten'
    BY <2>1, <2>2 DEF BeingWritten
  <2> QED
    BY <2>1, <2>3 DEF Stranded, Claimed
<1>4. ASSUME NEW r \in Requests, NEW p \in Paths, Create(r, p)
      PROVE  crashes' = crashes /\ Stranded' \subseteq Stranded
  <2>1. /\ crashes' = crashes /\ json' = [json EXCEPT ![p] = Empty]
        /\ \A x \in Requests \ {r} : work'[x] = work[x]
    BY <1>0, <1>4 DEF Create, TypeOK, bounds
  <2>2. work[r] = None
    BY <1>0, <1>4 DEF Create, AtWork
  <2>3. work'[r] # None /\ work'[r].path = p
    <3> DEFINE new == [conv |-> IF asked[r].conv = None THEN r ELSE asked[r].conv,
                       turns |-> <<>>]
    <3>1. work'[r] = [path |-> p, created |-> TRUE, record |-> new]
      BY <1>0, <1>4 DEF Create, TypeOK
    <3>2. new \in Records
      <4>1. asked[r] # None
        BY <1>4, ThreadsAsked DEF IInv, Create, InFlight
      <4>2. <<>> \in Seq(Requests)
        OBVIOUS
      <4> QED
        BY <1>0, <4>1, <4>2 DEF TypeOK, Asks, Records, Owners
    <3> HIDE DEF new
    <3>3. work'[r] \in Works
      BY <3>1, <3>2 DEF Works
    <3>4. work'[r].path = p
      BY ONLY <3>1
    <3> QED
      BY <3>3, <3>4
  <2>4. BeingWritten \cup {p} \subseteq BeingWritten'
    BY <2>1, <2>2, <2>3 DEF BeingWritten
  <2>5. Claimed' \subseteq Claimed \cup {p}
    BY <1>0, <2>1 DEF Claimed, TypeOK
  <2> QED
    BY <2>1, <2>4, <2>5 DEF Stranded
<1>5. ASSUME NEW r \in Requests, Commit(r) \/ (Drop(r) /\ AtWork(r))
      PROVE  crashes' = crashes /\ Stranded' \subseteq Stranded
  <2>1. AtWork(r) /\ WorkOf(r) /\ work[r] # None
    BY <1>0, <1>5 DEF Commit, AtWork, WorkIsCurrent
  <2>2. PICK p \in Paths : p = work[r].path
    BY <1>0, <2>1, TurnsTyped
  <2>3. /\ crashes' = crashes /\ work' = [work EXCEPT ![r] = None]
        /\ \A q \in Paths \ {p} : json'[q] = json[q]
    BY <1>0, <1>5, <2>2 DEF Commit, Drop, TypeOK, bounds
  <2>4. json'[p] # Empty
    <3>1. CASE Commit(r)
      <4> DEFINE new == [work[r].record EXCEPT !.turns = Append(@, r)]
      <4>1. json'[p] = new
        BY <1>0, <2>2, <3>1 DEF Commit, TypeOK
      <4>2. new \in Records
        <5>1. work[r].record \in Records /\ work[r].record.turns \in Seq(Requests)
          BY <1>0, <2>1, TurnsTyped
        <5>2. Append(work[r].record.turns, r) \in Seq(Requests)
          BY <5>1, AppendedTo
        <5> QED
          BY <5>1, <5>2 DEF Records
      <4> HIDE DEF new
      <4> QED
        BY <4>1, <4>2
    <3>2. CASE Drop(r) /\ work[r].created
      BY <1>0, <2>1, <2>2, <3>2 DEF Drop, AtWork, TypeOK
    <3>3. CASE Drop(r) /\ ~work[r].created
      <4>1. json' = json
        BY <3>3 DEF Drop
      <4>2. json[p] # Empty
        BY <1>0, <2>1, <2>2, <3>3, TurnsTyped DEF WorkOf
      <4> QED
        BY <4>1, <4>2
    <3> QED
      BY <1>5, <3>1, <3>2, <3>3
  <2>5. BeingWritten \ {p} \subseteq BeingWritten'
    BY <1>0, <2>2, <2>3 DEF BeingWritten, TypeOK
  <2>6. Claimed' \subseteq Claimed \ {p}
    BY <2>3, <2>4 DEF Claimed
  <2> QED
    BY <2>3, <2>5, <2>6 DEF Stranded
<1>6. ASSUME NEW r \in Requests,
             \/ Quiet(r) \/ StartPrune(r) \/ ListFolder(r) \/ RemoveFolder(r)
             \/ MakeFolder(r) \/ WriteClip(r)
      PROVE  UNCHANGED <<crashes, json, work>>
  BY <1>0, <1>6, QuietSteps DEF QuietStep, StartPrune, ListFolder, RemoveFolder, MakeFolder,
                               WriteClip, bounds, disk
<1>7. ASSUME NEW r \in Requests, Drop(r), ~AtWork(r)
      PROVE  UNCHANGED <<crashes, json, work>>
  <2>1. work[r] = None /\ work' = [work EXCEPT ![r] = None]
    BY <1>0, <1>7 DEF Drop
  <2>2. work' = work
    BY <1>0, <2>1 DEF TypeOK
  <2> QED
    BY <1>7, <2>2 DEF Drop, AtWork, bounds
<1>8. NextDay \/ UNCHANGED vars => UNCHANGED <<crashes, json, work>>
  BY DEF NextDay, vars, bounds, disk
<1> QED
  BY <1>1, <1>2, <1>3, <1>4, <1>5, <1>6, <1>7, <1>8, Steps, Zenon

LEMMA OneMore ==
  ASSUME NEW S, IsFiniteSet(S), NEW e
  PROVE  /\ IsFiniteSet(S \cup {e}) /\ Cardinality(S) \in Nat
         /\ Cardinality(S \cup {e}) \in Nat /\ Cardinality(S \cup {e}) <= Cardinality(S) + 1
<1>1. /\ IsFiniteSet(S \cup {e})
      /\ Cardinality(S \cup {e}) = Cardinality(S) \/ Cardinality(S \cup {e}) = Cardinality(S) + 1
  <2>1. e \in S => S \cup {e} = S
    OBVIOUS
  <2> QED
    BY <2>1, FS_AddElement
<1>2. Cardinality(S) \in Nat
  BY FS_CardinalityType
<1> QED
  BY <1>1, <1>2

LEMMA ClaimsMade ==
  ASSUME IInv, [Next]_vars
  PROVE  \E p \in Paths \cup {None} : \A q \in Paths \ {p} : json'[q] = Empty => json[q] = Empty
<1> USE Basics
<1>0. TypeOK /\ WorkIsCurrent
  BY DEF IInv
<1>1. CASE json' = json
  BY <1>1
<1>2. ASSUME NEW r \in Requests, NEW f \in sweep[r].files, RemoveFile(r, f)
      PROVE  \A q \in Paths : json'[q] = Empty => json[q] = Empty
  BY <1>0, <1>2 DEF RemoveFile, TypeOK
<1>3. ASSUME NEW r \in Requests, NEW p \in Paths, Create(r, p)
      PROVE  \A q \in Paths \ {p} : json'[q] = Empty => json[q] = Empty
  BY <1>0, <1>3 DEF Create, TypeOK
<1>4. ASSUME NEW r \in Requests, Commit(r) \/ (Drop(r) /\ AtWork(r))
      PROVE  \E p \in Paths : \A q \in Paths \ {p} : json'[q] = json[q]
  <2>1. work[r] # None
    BY <1>0, <1>4 DEF Commit, AtWork, WorkIsCurrent, WorkOf
  <2>2. PICK p \in Paths : p = work[r].path
    BY <1>0, <2>1, TurnsTyped
  <2> QED
    BY <1>0, <1>4, <2>2 DEF Commit, Drop, TypeOK
<1>5. ASSUME NEW r \in Requests,
             \/ Quiet(r) \/ StartPrune(r) \/ ListFolder(r) \/ RemoveFolder(r)
             \/ MakeFolder(r) \/ Locate(r) \/ WriteClip(r) \/ (Drop(r) /\ ~AtWork(r))
      PROVE  json' = json
  BY <1>0, <1>5, QuietSteps DEF QuietStep, StartPrune, ListFolder, RemoveFolder, MakeFolder,
                               Locate, WriteClip, Drop, AtWork, disk
<1>6. NextDay \/ Crash \/ UNCHANGED vars => json' = json
  BY DEF NextDay, Crash, vars, disk
<1>7. (\E p \in Paths : \A q \in Paths \ {p} : json'[q] = Empty => json[q] = Empty)
      \/ \A q \in Paths : json'[q] = Empty => json[q] = Empty
  BY <1>1, <1>2, <1>3, <1>4, <1>5, <1>6, Steps, Zenon
<1> QED
  BY <1>7

LEMMA ClaimsNext == IInv /\ FewClaims /\ [Next]_vars => FewClaims'
<1> SUFFICES ASSUME IInv, FewClaims, [Next]_vars PROVE FewClaims'
  OBVIOUS
<1>0. /\ IsFiniteSet(Claimed) /\ Cardinality(Stranded) <= crashes /\ crashes \in Nat
      /\ IsFiniteSet(Stranded) /\ Cardinality(Stranded) \in Nat
  <2>1. IsFiniteSet(Claimed) /\ Cardinality(Stranded) <= crashes /\ crashes \in Nat
    BY DEF FewClaims, EmptyFilesAreCrashes, Stranded, IInv, TypeOK
  <2>2. Stranded \in SUBSET Claimed
    BY DEF Stranded
  <2> QED
    BY <2>1, <2>2, FS_Subset, FS_CardinalityType
<1>1. IsFiniteSet(Claimed')
  <2>1. PICK p \in Paths \cup {None} : Claimed' \subseteq Claimed \cup {p}
    <3>1. \E p \in Paths \cup {None} : \A q \in Paths \ {p} : json'[q] = Empty => json[q] = Empty
      BY ClaimsMade
    <3> QED
      BY <3>1 DEF Claimed
  <2>2. IsFiniteSet(Claimed \cup {p})
    BY <1>0, FS_AddElement
  <2> QED
    BY <2>1, <2>2, FS_Subset
<1>2. CASE ~Crash
  <2>1. crashes' = crashes /\ Stranded' \in SUBSET Stranded
    BY <1>2, StrandedNext
  <2>2. Cardinality(Stranded') <= Cardinality(Stranded) /\ Cardinality(Stranded') \in Nat
    BY <1>0, <2>1, FS_Subset, FS_CardinalityType
  <2>3. Cardinality(Stranded') <= crashes'
    BY <1>0, <2>1, <2>2
  <2> QED
    BY <1>1, <2>3 DEF FewClaims, EmptyFilesAreCrashes, Stranded
<1>3. CASE Crash
  <2>1. crashes' = crashes + 1 /\ Claimed' = Claimed
    BY <1>3 DEF Crash, Claimed, disk
  <2>2. \A p, q \in BeingWritten : p = q
    <3>1. \A r \in Requests : work[r] # None => AtWork(r)
      BY DEF IInv, WorkIsCurrent, WorkOf
    <3> QED
      BY <3>1, OneIsWritten DEF BeingWritten
  <2>3. PICK p : Claimed \subseteq Stranded \cup {p}
    BY <2>2 DEF Stranded
  <2>4. /\ IsFiniteSet(Stranded \cup {p}) /\ Cardinality(Stranded \cup {p}) \in Nat
        /\ Cardinality(Stranded \cup {p}) <= Cardinality(Stranded) + 1
    BY <1>0, OneMore
  <2>5. Stranded' \in SUBSET (Stranded \cup {p})
    BY <2>1, <2>3 DEF Stranded
  <2>6. Cardinality(Stranded') <= Cardinality(Stranded \cup {p}) /\ Cardinality(Stranded') \in Nat
    BY <2>4, <2>5, FS_Subset, FS_CardinalityType
  <2>7. Cardinality(Stranded') <= crashes'
    BY <1>0, <2>1, <2>4, <2>6
  <2> QED
    BY <1>1, <2>7 DEF FewClaims, EmptyFilesAreCrashes, Stranded
<1> QED
  BY <1>2, <1>3

(***************************************************************************)
(* A zero-byte JSON that no thread is at work on was left by a crash, and  *)
(* each crash leaves one at most: save_trace takes the claim of a failed   *)
(* write back.                                                             *)
(***************************************************************************)
THEOREM ClaimsAreTakenBack == Spec => []EmptyFilesAreCrashes
<1>1. Init => FewClaims
  <2> SUFFICES ASSUME Init PROVE FewClaims
    OBVIOUS
  <2>1. Claimed = {} /\ crashes = 0
    BY Basics DEF Init, Claimed
  <2>2. Claimed \ BeingWritten = {}
    BY <2>1
  <2> QED
    BY <2>1, <2>2, FS_EmptySet DEF FewClaims, EmptyFilesAreCrashes
<1>2. IInv /\ FewClaims /\ [Next]_vars => FewClaims'
  BY ClaimsNext
<1>3. FewClaims => EmptyFilesAreCrashes
  BY DEF FewClaims
<1> QED
  BY <1>1, <1>2, <1>3, InvHolds, PTL DEF Spec
-----------------------------------------------------------------------------
\* A step that makes no file, and takes no one to where one is made.
LEMMA FewerFiles ==
  ASSUME IInv, FewFiles, misreads' = misreads,
         \A q \in Paths : IsRecord(q)' => IsRecord(q) /\ json'[q].conv = json[q].conv,
         NEW x \in Requests,
         phase'[x] = "create" =>
           /\ phase[x] = "create"
           /\ asked'[x].day = asked[x].day /\ OwnerOf(x)' = OwnerOf(x),
         AtWork(x)' => /\ AtWork(x) /\ work'[x] = work[x] /\ OwnerOf(x)' = OwnerOf(x)
  PROVE  RoomFor(x)' /\ \A d \in Days, c \in Owners : FewAt(d, c)'
<1>1. misreads \in Nat
  BY DEF IInv, TypeOK
<1>2. ASSUME NEW d \in Days, NEW c \in Owners
      PROVE  /\ FewAt(d, c) /\ FilesIn(d, c)' \in SUBSET FilesIn(d, c)
             /\ IsFiniteSet(FilesIn(d, c)') /\ IsFiniteSet(FilesIn(d, c))
             /\ Cardinality(FilesIn(d, c)') \in Nat /\ Cardinality(FilesIn(d, c)) \in Nat
             /\ Cardinality(FilesIn(d, c)') <= Cardinality(FilesIn(d, c))
  <2>1. FewAt(d, c)
    BY DEF FewFiles
  <2>2. FilesIn(d, c)' \in SUBSET FilesIn(d, c)
    BY DEF FilesIn
  <2> QED
    BY <2>1, <2>2, FS_Subset, FS_CardinalityType DEF FewAt
<1>3. \A d \in Days, c \in Owners : FewAt(d, c)'
  BY <1>1, <1>2 DEF FewAt
<1>4. ASSUME NEW d \in Days, NEW c \in Owners,
             phase'[x] = "create", d = asked'[x].day, c = OwnerOf(x)'
      PROVE  Cardinality(FilesIn(d, c)') <= misreads'
  <2>1. Cardinality(FilesIn(d, c)) <= misreads
    BY <1>4 DEF FewFiles, RoomFor
  <2> QED
    BY <1>1, <1>2, <2>1
<1>5. ASSUME NEW p \in Paths, NEW c \in Owners,
             AtWork(x)', p = work'[x].path, c = OwnerOf(x)'
      PROVE  Cardinality(FilesIn(p.day, c)' \cup {p}) <= 1 + misreads'
  <2>1. Cardinality(FilesIn(p.day, c) \cup {p}) <= 1 + misreads
    BY <1>5 DEF FewFiles, RoomFor
  <2>2. p.day \in Days
    BY DEF Paths
  <2>3. /\ IsFiniteSet(FilesIn(p.day, c) \cup {p})
        /\ Cardinality(FilesIn(p.day, c) \cup {p}) \in Nat
    BY <1>2, <2>2, OneMore
  <2>4. FilesIn(p.day, c)' \cup {p} \in SUBSET (FilesIn(p.day, c) \cup {p})
    BY <1>2, <2>2
  <2>5. /\ Cardinality(FilesIn(p.day, c)' \cup {p}) <= Cardinality(FilesIn(p.day, c) \cup {p})
        /\ Cardinality(FilesIn(p.day, c)' \cup {p}) \in Nat
    BY <2>3, <2>4, FS_Subset, FS_CardinalityType
  <2> QED
    BY <1>1, <2>1, <2>3, <2>5
<1> QED
  BY <1>3, <1>4, <1>5 DEF RoomFor

\* Where the lock is held, no other thread is making a file.
LEMMA RoomElsewhere ==
  ASSUME IInv, NEW r \in Requests, NEW x \in Requests, x # r,
         phase[r] \in Locked \/ lock = None, phase'[x] = phase[x]
  PROVE  RoomFor(x)'
<1>1. phase[x] \notin Locked
  BY Basics DEF IInv, Mutex
<1> QED
  BY <1>1 DEF RoomFor, AtWork, Locked

LEMMA FilesNext == IInv /\ IInv' /\ FewFiles /\ [Next]_vars => FewFiles'
<1> SUFFICES ASSUME IInv, IInv', FewFiles, [Next]_vars PROVE FewFiles'
  OBVIOUS
<1> USE Basics
<1>0. /\ TypeOK /\ TypeOK' /\ Dates /\ Mutex /\ Through /\ WorkIsCurrent
      /\ misreads \in Nat
  BY DEF IInv, TypeOK
<1>1. ASSUME NEW r \in Requests, Quiet(r)
      PROVE  FewFiles'
  <2>1. /\ UNCHANGED <<misreads, json, work>>
        /\ \A x \in Requests : x # r => phase'[x] = phase[x] /\ asked'[x] = asked[x]
        /\ phase'[r] \notin Locked
    BY <1>0, <1>1, QuietSteps DEF QuietStep, TypeOK, Locked, disk, history
  <2>2. ASSUME NEW x \in Requests PROVE RoomFor(x)' /\ \A d \in Days, c \in Owners : FewAt(d, c)'
    BY <2>1, FewerFiles DEF IsRecord, AtWork, OwnerOf, Locked
  <2> QED
    BY <1>1, <2>2 DEF FewFiles
<1>2. ASSUME NEW r \in Requests,
             \/ StartPrune(r) \/ ListFolder(r) \/ RemoveFolder(r)
             \/ \E f \in sweep[r].files : RemoveFile(r, f)
             \/ MakeFolder(r) \/ WriteClip(r)
      PROVE  FewFiles'
  <2>1. /\ UNCHANGED <<misreads, work, asked>>
        /\ \A q \in Paths : json'[q] = json[q] \/ json'[q] = None
    BY <1>0, <1>2 DEF StartPrune, ListFolder, RemoveFolder, RemoveFile, MakeFolder, WriteClip,
                     TypeOK, disk, request, history
  <2>2. \A x \in Requests : \/ phase'[x] = phase[x] \/ phase'[x] \notin Locked
                            \/ AtWork(x) /\ AtWork(x)'
    BY <1>0, <1>2 DEF StartPrune, ListFolder, RemoveFolder, RemoveFile, MakeFolder, WriteClip,
                     TypeOK, Goto, AtWork, Locked
  <2>3. ASSUME NEW x \in Requests PROVE RoomFor(x)' /\ \A d \in Days, c \in Owners : FewAt(d, c)'
    BY <2>1, <2>2, FewerFiles DEF IsRecord, AtWork, OwnerOf, Locked
  <2> QED
    BY <1>2, <2>3 DEF FewFiles
<1>3. ASSUME NEW r \in Requests, Drop(r)
      PROVE  FewFiles'
  <2>1. /\ UNCHANGED <<misreads, asked>>
        /\ \A q \in Paths : json'[q] = json[q] \/ json'[q] = None
        /\ phase' = [phase EXCEPT ![r] = "traced"] /\ \A x \in Requests \ {r} : work'[x] = work[x]
    BY <1>0, <1>3 DEF Drop, TypeOK, Goto, request, history
  <2>2. ASSUME NEW x \in Requests PROVE RoomFor(x)' /\ \A d \in Days, c \in Owners : FewAt(d, c)'
    BY <1>0, <2>1, FewerFiles DEF IsRecord, AtWork, OwnerOf, TypeOK
  <2> QED
    BY <1>3, <2>2 DEF FewFiles
<1>4. ASSUME NEW r \in Requests, NEW p \in Paths, Create(r, p)
      PROVE  FewFiles'
  <2>1. /\ UNCHANGED <<misreads, asked>> /\ json' = [json EXCEPT ![p] = Empty]
        /\ phase' = [phase EXCEPT ![r] = "clip"] /\ \A x \in Requests \ {r} : work'[x] = work[x]
        /\ phase[r] = "create" /\ p.day = asked[r].day /\ json[p] = None
    BY <1>0, <1>4 DEF Create, TypeOK, Goto, request, history
  <2>2. \A d \in Days, c \in Owners : FilesIn(d, c)' = FilesIn(d, c)
    BY <1>0, <2>1 DEF FilesIn, IsRecord, TypeOK
  <2>3. \A d \in Days, c \in Owners : FewAt(d, c)'
    BY <2>1, <2>2 DEF FewFiles, FewAt
  <2>4. ASSUME NEW x \in Requests, x # r PROVE RoomFor(x)'
    BY <1>0, <2>1, <2>4, RoomElsewhere DEF TypeOK, Locked
  <2>5. ASSUME NEW q \in Paths, NEW c \in Owners, q = work'[r].path, c = OwnerOf(r)'
        PROVE  Cardinality(FilesIn(q.day, c)' \cup {q}) <= 1 + misreads'
    <3>1. q = p /\ c = OwnerOf(r) /\ p.day \in Days
      BY <1>0, <1>4, <2>1, <2>5 DEF Create, TypeOK, OwnerOf, Paths
    <3>2. Cardinality(FilesIn(p.day, c)) <= misreads /\ IsFiniteSet(FilesIn(p.day, c))
      BY <2>1, <3>1 DEF FewFiles, RoomFor, FewAt
    <3>3. /\ Cardinality(FilesIn(p.day, c)) \in Nat /\ Cardinality(FilesIn(p.day, c) \cup {p}) \in Nat
          /\ Cardinality(FilesIn(p.day, c) \cup {p}) <= Cardinality(FilesIn(p.day, c)) + 1
      BY <3>2, OneMore
    <3>4. Cardinality(FilesIn(p.day, c) \cup {p}) <= 1 + misreads
      BY <1>0, <3>2, <3>3
    <3> QED
      BY <2>1, <2>2, <3>1, <3>4
  <2>6. RoomFor(r)'
    BY <1>0, <2>1, <2>5 DEF RoomFor, TypeOK
  <2> QED
    BY <2>3, <2>4, <2>6 DEF FewFiles
<1>5. ASSUME NEW r \in Requests, Locate(r)
      PROVE  FewFiles'
  <2>1. /\ UNCHANGED <<json, asked>> /\ phase[r] = "waiting" /\ lock = None
        /\ misreads' \in Nat /\ misreads' >= misreads
    BY <1>0, <1>5 DEF Locate, disk, request
  <2>2. /\ \A x \in Requests \ {r} : phase'[x] = phase[x]
        /\ asked[r] # None /\ asked[r].day \in Days /\ asked[r].conv \in Convs \cup {None}
        /\ OwnerOf(r) = IF asked[r].conv = None THEN r ELSE asked[r].conv
    <3>1. \A x \in Requests \ {r} : phase'[x] = phase[x]
      BY <1>0, <1>5 DEF Locate, TypeOK, Goto
    <3>2. asked[r] # None /\ asked[r].day \in Days /\ asked[r].conv \in Convs \cup {None}
      BY <1>0, <2>1, ThreadsAsked DEF InFlight, Asks
    <3> QED
      BY <1>0, <3>1, <3>2, OwnersAre
  <2>3. ASSUME NEW d \in Days, NEW c \in Owners
        PROVE  /\ FilesIn(d, c)' = FilesIn(d, c) /\ IsFiniteSet(FilesIn(d, c))
               /\ Cardinality(FilesIn(d, c)) \in Nat /\ Cardinality(FilesIn(d, c)) <= 1 + misreads
    <3>1. FewAt(d, c) /\ FilesIn(d, c)' = FilesIn(d, c)
      BY <2>1 DEF FewFiles, FilesIn, IsRecord
    <3> QED
      BY <3>1, FS_CardinalityType DEF FewAt
  <2>4. \A d \in Days, c \in Owners : FewAt(d, c)'
    BY <1>0, <2>1, <2>3 DEF FewAt
  <2>5. ASSUME NEW x \in Requests, x # r PROVE RoomFor(x)'
    BY <2>1, <2>2, <2>5, RoomElsewhere
  <2>6. ASSUME phase' = [phase EXCEPT ![r] = "create"]
        PROVE  RoomFor(r)'
    <3>1. ASSUME NEW d \in Days, NEW c \in Owners, d = asked'[r].day, c = OwnerOf(r)'
          PROVE  Cardinality(FilesIn(d, c)') <= misreads'
      <4>1. d = asked[r].day /\ c = OwnerOf(r)
        BY <2>1, <3>1 DEF OwnerOf
      <4>2. CASE Candidates(r) # {}
        <5>1. misreads' = misreads + 1
          BY <1>0, <1>5, <2>6, <4>2 DEF Locate, TypeOK, Goto
        <5> QED
          BY <1>0, <2>3, <5>1
      <4>3. CASE Candidates(r) = {}
        <5>1. FilesIn(d, c) = {}
          <6>1. CASE asked[r].conv = None
            <7>1. c = r /\ saved[r] = None
              BY <1>0, <2>1, <2>2, <4>1, <6>1 DEF Through
            <7> QED
              BY <1>0, <7>1 DEF Through, FilesIn
          <6>2. CASE asked[r].conv # None
            BY <1>0, <2>2, <4>1, <4>3, <6>2, CandidatesAre DEF FilesIn
          <6> QED
            BY <6>1, <6>2
        <5> QED
          BY <1>0, <2>1, <2>3, <5>1, FS_EmptySet
      <4> QED
        BY <4>2, <4>3
    <3> QED
      BY <1>0, <2>6, <3>1 DEF RoomFor, AtWork, TypeOK
  <2>7. ASSUME phase' = [phase EXCEPT ![r] = "clip"]
        PROVE  RoomFor(r)'
    <3>1. ASSUME NEW p \in Paths, NEW c \in Owners, p = work'[r].path, c = OwnerOf(r)'
          PROVE  Cardinality(FilesIn(p.day, c)' \cup {p}) <= 1 + misreads'
      <4>1. PICK q \in Candidates(r) :
              /\ IsRecord(q)
              /\ work' = [work EXCEPT ![r] = [path |-> q, record |-> json[q], created |-> FALSE]]
        BY <1>0, <1>5, <2>7 DEF Locate, TypeOK, Goto
      <4>2. work'[r] = [path |-> q, record |-> json[q], created |-> FALSE]
        BY <1>0, <4>1 DEF TypeOK
      <4>3. p = q /\ work'[r].record = json[q]
        BY ONLY <3>1, <4>2
      <4>4. AtWork(r)' /\ work'[r].record.conv = OwnerOf(r)'
        <5>1. AtWork(r)' /\ WorkOf(r)'
          BY <1>0, <2>7 DEF IInv, WorkIsCurrent, AtWork, TypeOK
        <5> QED
          BY <5>1 DEF WorkOf
      <4>5. p \in FilesIn(p.day, c) /\ p.day \in Days
        BY <3>1, <4>1, <4>3, <4>4 DEF FilesIn, Paths
      <4>6. FilesIn(p.day, c) \cup {p} = FilesIn(p.day, c)
        BY <4>5
      <4>7. /\ FilesIn(p.day, c)' = FilesIn(p.day, c)
            /\ Cardinality(FilesIn(p.day, c)) \in Nat
            /\ Cardinality(FilesIn(p.day, c)) <= 1 + misreads
        BY <2>3, <4>5
      <4> QED
        BY <1>0, <2>1, <4>6, <4>7
    <3> QED
      BY <1>0, <2>7, <3>1 DEF RoomFor, TypeOK
  <2>8. RoomFor(r)'
    BY <1>5, <2>6, <2>7 DEF Locate, Goto
  <2> QED
    BY <2>4, <2>5, <2>8 DEF FewFiles
<1>6. ASSUME NEW r \in Requests, Commit(r)
      PROVE  FewFiles'
  <2>1. AtWork(r) /\ WorkOf(r) /\ work[r] # None
    BY <1>0, <1>6 DEF Commit, AtWork, WorkIsCurrent, WorkOf
  <2>2. PICK p \in Paths, old \in Records :
           p = work[r].path /\ old = work[r].record /\ old.turns \in Seq(Requests)
    BY <1>0, <2>1, TurnsTyped
  <2>3. old.conv = OwnerOf(r)
    BY <2>1, <2>2 DEF WorkOf
  <2> DEFINE new == [old EXCEPT !.turns = Append(@, r)]
  <2>4. /\ UNCHANGED misreads /\ json' = [json EXCEPT ![p] = new]
        /\ phase' = [phase EXCEPT ![r] = "traced"]
    BY <1>6, <2>2 DEF Commit, Goto
  <2>5. new.conv = OwnerOf(r)
    BY <2>2, <2>3 DEF Records
  <2> HIDE DEF new
  <2>6. \A d \in Days, c \in Owners :
          FilesIn(d, c)' \subseteq FilesIn(d, c)
            \cup (IF d = p.day /\ c = OwnerOf(r) THEN {p} ELSE {})
    BY <1>0, <2>4, <2>5 DEF FilesIn, IsRecord, TypeOK
  <2>7. ASSUME NEW d \in Days, NEW c \in Owners PROVE FewAt(d, c)'
    <3>1. /\ IsFiniteSet(FilesIn(d, c)) /\ Cardinality(FilesIn(d, c)) <= 1 + misreads
          /\ Cardinality(FilesIn(d, c)) \in Nat
      BY FS_CardinalityType DEF FewFiles, FewAt
    <3>2. CASE ~(d = p.day /\ c = OwnerOf(r))
      <4>1. FilesIn(d, c)' \in SUBSET FilesIn(d, c)
        BY <2>6, <3>2
      <4>2. /\ IsFiniteSet(FilesIn(d, c)') /\ Cardinality(FilesIn(d, c)') \in Nat
            /\ Cardinality(FilesIn(d, c)') <= Cardinality(FilesIn(d, c))
        BY <3>1, <4>1, FS_Subset, FS_CardinalityType
      <4> QED
        BY <1>0, <2>4, <3>1, <4>2 DEF FewAt
    <3>3. CASE d = p.day /\ c = OwnerOf(r)
      <4>1. FilesIn(d, c)' \in SUBSET (FilesIn(d, c) \cup {p})
        BY <2>6, <3>3
      <4>2. Cardinality(FilesIn(d, c) \cup {p}) <= 1 + misreads
        BY <2>1, <2>2, <3>3 DEF FewFiles, RoomFor
      <4>3. IsFiniteSet(FilesIn(d, c) \cup {p}) /\ Cardinality(FilesIn(d, c) \cup {p}) \in Nat
        BY <3>1, OneMore
      <4>4. /\ IsFiniteSet(FilesIn(d, c)') /\ Cardinality(FilesIn(d, c)') \in Nat
            /\ Cardinality(FilesIn(d, c)') <= Cardinality(FilesIn(d, c) \cup {p})
        BY <4>1, <4>3, FS_Subset, FS_CardinalityType
      <4> QED
        BY <1>0, <2>4, <4>2, <4>3, <4>4 DEF FewAt
    <3> QED
      BY <3>2, <3>3
  <2>8. ASSUME NEW x \in Requests, x # r PROVE RoomFor(x)'
    BY <1>0, <1>6, <2>4, <2>8, RoomElsewhere DEF Commit, TypeOK, Locked
  <2>9. RoomFor(r)'
    BY <1>0, <2>4 DEF RoomFor, AtWork, TypeOK
  <2> QED
    BY <2>7, <2>8, <2>9 DEF FewFiles
<1>7. CASE Crash
  <2>1. /\ UNCHANGED <<misreads, json>>
        /\ \A x \in Requests : phase'[x] \notin Locked
    BY <1>0, <1>7 DEF Crash, TypeOK, Locked, InFlight, disk, history
  <2>2. ASSUME NEW x \in Requests PROVE RoomFor(x)'
    BY <2>1 DEF RoomFor, AtWork, Locked
  <2>3. \A d \in Days, c \in Owners : FewAt(d, c)'
    BY <2>1 DEF FewFiles, FewAt, FilesIn, IsRecord
  <2> QED
    BY <2>2, <2>3 DEF FewFiles
<1>8. CASE NextDay \/ UNCHANGED vars
  <2>1. UNCHANGED <<misreads, json, phase, work, asked>>
    BY <1>8 DEF NextDay, vars, disk, request, history
  <2> QED
    BY <2>1 DEF FewFiles, FewAt, RoomFor, FilesIn, IsRecord, AtWork, OwnerOf
<1> QED
  BY <1>1, <1>2, <1>3, <1>4, <1>5, <1>6, <1>7, <1>8, Steps, Zenon

(***************************************************************************)
(* save_trace finds the file a conversation has in a day folder, with or   *)
(* without its mapping: there is a second one only where a file it is      *)
(* known to have could not be read, and no more of them than that.         *)
(***************************************************************************)
THEOREM FilesAreFound == Spec => []OneFilePerFolder
<1>1. Init => FewFiles
  <2> SUFFICES ASSUME Init PROVE FewFiles
    OBVIOUS
  <2>1. \A d \in Days, c \in Owners : FilesIn(d, c) = {}
    BY Basics DEF Init, FilesIn, IsRecord
  <2>2. misreads = 0 /\ \A r \in Requests : phase[r] = "new"
    BY DEF Init
  <2>3. \A d \in Days, c \in Owners : FewAt(d, c)
    BY <2>1, <2>2, FS_EmptySet DEF FewAt
  <2> QED
    BY <2>2, <2>3 DEF FewFiles, RoomFor, AtWork
<1>2. IInv /\ IInv' /\ FewFiles /\ [Next]_vars => FewFiles'
  BY FilesNext
<1>3. IInv /\ FewFiles => OneFilePerFolder
  <2> SUFFICES ASSUME IInv, FewFiles, NEW p \in Paths, IsRecord(p)
               PROVE  Cardinality(FilesIn(p.day, json[p].conv)) <= 1 + misreads
    BY DEF OneFilePerFolder, FilesIn
  <2>1. p.day \in Days /\ json[p].conv \in Owners
    BY DEF IInv, TypeOK, IsRecord, Records, Paths
  <2> QED
    BY <2>1 DEF FewFiles, FewAt
<1> QED
  BY <1>1, <1>2, <1>3, InvHolds, PTL DEF Spec
-----------------------------------------------------------------------------
(***************************************************************************)
(* The refinement: what a reader of the traces sees of a step.             *)
(***************************************************************************)
OwnerMap == [r \in Requests |-> OwnerOf(r)]
Written == {r \in Requests : saved[r] # None}
Logs == [p \in Paths |-> Shown(p)]

LogStutter == UNCHANGED <<today, OwnerMap, Written, Logs>>

LEMMA LogInit == Init => Log!Init
<1> SUFFICES ASSUME Init PROVE Log!Init
  OBVIOUS
<1>1. OwnerMap = [r \in Requests |-> None]
  BY DEF Init, OwnerMap, OwnerOf
<1>2. Written = {}
  BY DEF Init, Written
<1>3. Logs = [p \in Paths |-> None]
  BY DEF Init, Logs, Shown, IsRecord
<1> QED
  BY <1>1, <1>2, <1>3 DEF Log!Init, Init, OwnerMap, Written, Logs, Shown

\* A request gets its conversation when it comes.
LEMMA LogArrives ==
  ASSUME IInv, NEW r \in Requests, NEW c \in Convs \cup {None}, Arrive(r, c)
  PROVE  Log!Arrive(r)
<1> USE Basics
<1>0. TypeOK /\ asked[r] = None
  BY DEF IInv, Dates, Arrive
<1>1. PICK o \in Owners : o = IF c = None THEN r ELSE c
  BY DEF Owners
<1>2. /\ asked' = [asked EXCEPT ![r] = [conv |-> c, day |-> today]]
      /\ today' = today /\ saved' = saved
  BY DEF Arrive, bounds, history
<1>3. OwnerMap[r] = None
  BY <1>0 DEF OwnerMap, OwnerOf
<1>4. OwnerMap' = [OwnerMap EXCEPT ![r] = o]
  <2> DEFINE a == [conv |-> c, day |-> today]
  <2>1. asked'[r] = a /\ \A x \in Requests \ {r} : asked'[x] = asked[x]
    BY <1>0, <1>2 DEF TypeOK
  <2>2. a \in Asks /\ a.conv = c
    BY <1>0 DEF TypeOK, Asks
  <2> HIDE DEF a
  <2>3. OwnerOf(r)' = o
    BY <1>1, <2>1, <2>2 DEF OwnerOf
  <2>4. \A x \in Requests \ {r} : OwnerOf(x)' = OwnerOf(x)
    BY <2>1 DEF OwnerOf
  <2> QED
    BY <2>3, <2>4 DEF OwnerMap
<1>5. Written' = Written
  BY <1>2 DEF Written
<1>6. Logs' = Logs
  <2>1. \A p \in Paths : Shown(p)' = Shown(p)
    BY ShownStays DEF Quiet
  <2> QED
    BY <2>1 DEF Logs
<1>7. /\ OwnerMap[r] = None
      /\ OwnerMap' \in {[OwnerMap EXCEPT ![r] = q] : q \in Owners}
      /\ UNCHANGED <<today, Written, Logs>>
  BY <1>2, <1>3, <1>4, <1>5, <1>6
<1> QED
  BY <1>7 DEF Log!Arrive, OwnerMap, Written, Logs, Shown

\* What every step but the arrival leaves alone.
LEMMA OwnersStay ==
  ASSUME [Next]_vars, ~\E r \in Requests, c \in Convs \cup {None} : Arrive(r, c)
  PROVE  OwnerMap' = OwnerMap
<1>1. asked' = asked
  <2>1. ASSUME NEW r \in Requests, Quiet(r) PROVE asked' = asked
    BY <2>1 DEF Quiet, Refuse, Forwarded, StartWrite, Respond, request
  <2>2. ASSUME NEW r \in Requests,
               \/ StartPrune(r) \/ ListFolder(r) \/ RemoveFolder(r)
               \/ \E f \in sweep[r].files : RemoveFile(r, f)
               \/ MakeFolder(r) \/ Locate(r) \/ \E p \in Paths : Create(r, p)
               \/ WriteClip(r) \/ Commit(r) \/ Drop(r)
        PROVE  asked' = asked
    BY <2>2 DEF StartPrune, ListFolder, RemoveFolder, RemoveFile, MakeFolder, Locate, Create,
                WriteClip, Commit, Drop, request
  <2>3. NextDay \/ Crash \/ UNCHANGED vars => asked' = asked
    BY DEF NextDay, Crash, vars, request
  <2> QED
    BY <2>1, <2>2, <2>3, Steps, Zenon
<1> QED
  BY <1>1 DEF OwnerMap, OwnerOf

\* A commit writes the next turn of the request's conversation.
LEMMA LogWrites ==
  ASSUME IInv, NEW r \in Requests, Commit(r), OwnerMap' = OwnerMap
  PROVE  Log!Write(r)
<1> USE Basics
<1>0. TypeOK
  BY DEF IInv
<1>1. PICK p \in Paths, old \in Records : CommitTo(r, p, old)
  BY ShownByCommit
<1>2. /\ old.conv = OwnerOf(r) /\ p.day <= today /\ asked[r] # None /\ saved[r] = None
      /\ today' = today /\ saved' = [saved EXCEPT ![r] = p]
      /\ \A q \in Paths \ {p} : Shown(q)' = Shown(q)
      /\ ~Kept(p.day) => Shown(p)' = None /\ Shown(p) = None
      /\ Kept(p.day) => Shown(p)' = [old EXCEPT !.turns = Append(@, r)]
      /\ Kept(p.day) => \/ Shown(p) = None /\ old = [conv |-> OwnerOf(r), turns |-> <<>>]
                        \/ Shown(p) = old
  BY <1>1 DEF CommitTo
<1>3. OwnerMap[r] = OwnerOf(r) /\ OwnerMap[r] # None
  <2>1. OwnerOf(r) \in Owners
    BY <1>0, <1>2, OwnersAre
  <2> QED
    BY <2>1 DEF OwnerMap, Owners
<1>4. r \notin Written /\ Written' = Written \cup {r}
  BY <1>0, <1>2 DEF Written, TypeOK
<1>5. Log!Expired(p, today) <=> ~Kept(p.day)
  BY <1>0 DEF Log!Expired, Kept, TypeOK, Paths, Days
<1> DEFINE before == IF Logs[p] = None THEN [conv |-> OwnerMap[r], turns |-> <<>>] ELSE Logs[p]
<1>6. IF Log!Expired(p, today)
      THEN Logs' = Logs
      ELSE /\ before.conv = OwnerMap[r]
           /\ Logs' = [Logs EXCEPT ![p] = [before EXCEPT !.turns = Append(@, r)]]
  <2>1. CASE ~Kept(p.day)
    <3>1. \A q \in Paths : Shown(q)' = Shown(q)
      BY <1>2, <2>1
    <3> QED
      BY <1>5, <2>1, <3>1 DEF Logs
  <2>2. CASE Kept(p.day)
    <3>1. before = old
      BY <1>2, <1>3, <2>2 DEF Logs
    <3> HIDE DEF before
    <3>2. Logs' = [Logs EXCEPT ![p] = [old EXCEPT !.turns = Append(@, r)]]
      BY <1>2, <2>2 DEF Logs
    <3> QED
      BY <1>2, <1>3, <1>5, <2>2, <3>1, <3>2
  <2> QED
    BY <2>1, <2>2
<1>7. /\ OwnerMap[r] # None /\ r \notin Written
      /\ Written' = Written \cup {r}
      /\ \E q \in Paths :
           /\ q.day <= today
           /\ IF Log!Expired(q, today)
              THEN UNCHANGED Logs
              ELSE LET b == IF Logs[q] = None THEN [conv |-> OwnerMap[r], turns |-> <<>>]
                            ELSE Logs[q]
                   IN  /\ b.conv = OwnerMap[r]
                       /\ Logs' = [Logs EXCEPT ![q] = [b EXCEPT !.turns = Append(@, r)]]
      /\ UNCHANGED <<today, OwnerMap>>
  BY <1>2, <1>3, <1>4, <1>6
<1> QED
  BY <1>7 DEF Log!Write, OwnerMap, Written, Logs, Shown

\* Midnight empties what is past the retention.
LEMMA LogMidnight ==
  ASSUME IInv, NextDay, OwnerMap' = OwnerMap
  PROVE  Log!NextDay
<1> USE Basics
<1>0. TypeOK
  BY DEF IInv
<1>1. /\ saved' = saved /\ today < LastDay /\ today' = today + 1
      /\ \A p \in Paths : Shown(p)' = IF Kept(p.day)' THEN Shown(p) ELSE None
  BY <1>0, ShownAtMidnight DEF NextDay
<1>2. \A p \in Paths : Log!Expired(p, today') <=> ~Kept(p.day)'
  BY <1>0, <1>1 DEF Log!Expired, Kept, TypeOK, Paths, Days
<1>3. Logs' = [p \in Paths |-> IF Log!Expired(p, today') THEN None ELSE Logs[p]]
  BY <1>1, <1>2 DEF Logs
<1>4. Written' = Written
  BY <1>1 DEF Written
<1> QED
  BY <1>1, <1>3, <1>4 DEF Log!NextDay, OwnerMap, Written, Logs, Shown

LEMMA LogNext == IInv /\ [Next]_vars => [Log!Next]_(Log!logVars)
<1> SUFFICES ASSUME IInv, [Next]_vars, ~(UNCHANGED Log!logVars) PROVE Log!Next
  OBVIOUS
<1>1. LogStutter => UNCHANGED Log!logVars
  BY DEF LogStutter, Log!logVars, OwnerMap, Written, Logs, Shown
<1>2. ASSUME NEW r \in Requests, NEW c \in Convs \cup {None}, Arrive(r, c)
      PROVE  Log!Next
  BY <1>2, LogArrives DEF Log!Next
<1>3. CASE ~\E r \in Requests, c \in Convs \cup {None} : Arrive(r, c)
  <2>1. OwnerMap' = OwnerMap
    BY <1>3, OwnersStay
  <2>2. ASSUME NEW r \in Requests, Commit(r)
        PROVE  Log!Next
    BY <2>1, <2>2, LogWrites DEF Log!Next
  <2>3. NextDay => Log!Next
    BY <2>1, LogMidnight DEF Log!Next
  <2>4. ASSUME NEW r \in Requests,
               \/ Quiet(r) \/ StartPrune(r) \/ ListFolder(r) \/ RemoveFolder(r)
               \/ \E f \in sweep[r].files : RemoveFile(r, f)
               \/ MakeFolder(r) \/ Locate(r) \/ \E p \in Paths : Create(r, p)
               \/ WriteClip(r) \/ Drop(r)
        PROVE  LogStutter
    <3>1. UNCHANGED <<today, saved>> /\ \A p \in Paths : Shown(p)' = Shown(p)
      BY <2>4, ShownStays
    <3> QED
      BY <2>1, <3>1 DEF LogStutter, Written, Logs
  <2>5. Crash \/ UNCHANGED vars => LogStutter
    <3>1. Crash \/ UNCHANGED vars => UNCHANGED <<today, saved, json>>
      BY DEF Crash, vars, bounds, disk, history
    <3> QED
      BY <2>1, <3>1 DEF LogStutter, Written, Logs, Shown, IsRecord, Kept
  <2> QED
    BY <1>1, <2>2, <2>3, <2>4, <2>5, Steps, Zenon
<1> QED
  BY <1>2, <1>3

(***************************************************************************)
(* The threads, the disk and the crashes of the store keep the promise of  *)
(* TraceLog: to a reader of the retained files, a commit of save_trace is  *)
(* the only step that shows, and it adds one turn of a new request to a    *)
(* file of its own conversation; midnight is the only one that takes any   *)
(* away.                                                                   *)
(***************************************************************************)
THEOREM StoreImplementsLog == Spec => ImplementsTraceLog
<1>1. Init => Log!Init
  BY LogInit
<1>2. IInv /\ [Next]_vars => [Log!Next]_(Log!logVars)
  BY LogNext
<1> QED
  BY <1>1, <1>2, InvHolds, PTL DEF Spec, ImplementsTraceLog, Log!Spec
=============================================================================
