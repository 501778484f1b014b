------------------------------ MODULE TraceStore ------------------------------
(***************************************************************************)
(* The ASR routes of the gateway (src/api/v1/asr/router.py) and the traces *)
(* they leave on disk (src/api/v1/asr/trace.py): one JSON per conversation *)
(* in a folder per day, and the clips of its turns beside it.              *)
(*                                                                         *)
(* A handler awaits LitServe, then awaits a thread that saves the trace,   *)
(* then answers.  The threads share one lock and the memory of the         *)
(* process; pruning old folders is done outside the lock.  An action is    *)
(* one access to the disk, or what happens between two of them.            *)
(*                                                                         *)
(* The disk survives a crash:                                              *)
(*   folders   the day folders that exist                                  *)
(*   json      what is at a path: None, a zero-byte file, or a record      *)
(*   clips     the audio files: of which conversation file and turn, and   *)
(*             the request whose audio it is                               *)
(* The memory of the process does not:                                     *)
(*   lock, tracked, home   _lock, and the order and content of _open       *)
(*   prunedFor             _pruned_for                                     *)
(* and neither do the requests in flight:                                  *)
(*   phase, asked, meta, status   a request, what LitServe made of it, and *)
(*             the status its client got                                   *)
(*   work      the record its thread is about to extend                    *)
(*   sweep     the folders and files its thread still has to prune         *)
(*                                                                         *)
(* today is the date of the host.  saved and misreads are history: the     *)
(* path a turn was written to, and how often the file a conversation was   *)
(* known to have could not be read.  crashes bounds the exploration.       *)
(***************************************************************************)
EXTENDS Integers, Sequences, FiniteSets, SequencesExt

CONSTANTS
  Requests,
  Convs,       \* the ids callers send in X-Conversation-Id
  Bases,       \* time of day and first sentence, which a file is named from
  MaxSuffix,   \* files of one base and day, at most
  LastDay,
  MaxTracked,  \* _MAX_TRACKED
  Retention,   \* TRACE_RETENTION_DAYS, 0 keeps everything
  Outcomes,    \* what a call to LitServe may come to, as a status
  DiskFaults,  \* what may raise OSError: a subset of {"read", "write"}
  MaxCrashes,
  None, Empty, Torn

Days == 1..LastDay
Paths == [day : Days, base : Bases, n : 1..MaxSuffix]

\* "conversation_id or uuid": a request without an id is its own conversation.
Owners == Convs \cup Requests
Records == [conv : Owners, turns : Seq(Requests)]

\* What a handler knows of its request, and its thread of the file.
Asks == [conv : Convs \cup {None}, day : Days]
Works == [path : Paths, record : Records, created : BOOLEAN]

ASSUME TraceAssumption ==
  /\ IsFiniteSet(Requests) /\ IsFiniteSet(Bases)
  /\ Convs \cap Requests = {}
  /\ {MaxSuffix, MaxTracked, Retention, MaxCrashes} \subseteq Nat
  /\ LastDay \in Nat \ {0}
  /\ DiskFaults \subseteq {"read", "write"}
  /\ None \notin Convs \cup Requests \cup Paths \cup Records \cup Nat \cup {Empty}
  /\ None \notin Asks \cup Works
  /\ Empty \notin Records
  /\ Torn \notin Requests

VARIABLES today, folders, json, clips,
          lock, tracked, home, prunedFor,
          phase, asked, meta, status, work, sweep,
          saved, misreads, crashes

disk == <<folders, json, clips>>
memory == <<lock, tracked, home, prunedFor>>
request == <<asked, meta, status>>
bounds == <<today, crashes>>
history == <<saved, misreads>>
vars == <<bounds, disk, memory, phase, request, work, sweep, history>>

Locked == {"create", "clip", "commit"}

NoSweep == [doomed |-> {}, folder |-> None, files |-> {}]

Init ==
  /\ today = 1 /\ crashes = 0
  /\ folders = {} /\ json = [p \in Paths |-> None] /\ clips = {}
  /\ lock = None /\ tracked = <<>> /\ home = [c \in Convs |-> None] /\ prunedFor = None
  /\ phase = [r \in Requests |-> "new"]
  /\ asked = [r \in Requests |-> None]
  /\ meta = [r \in Requests |-> None]
  /\ status = [r \in Requests |-> None]
  /\ work = [r \in Requests |-> None]
  /\ sweep = [r \in Requests |-> NoSweep]
  /\ saved = [r \in Requests |-> None] /\ misreads = 0

Goto(r, p) == phase' = [phase EXCEPT ![r] = p]
IsRecord(p) == json[p] \notin {None, Empty}

\* A file is a path and a turn, or a path and 0 for its JSON.
FilesOf(d) ==
  {<<p, 0>> : p \in {q \in Paths : q.day = d /\ json[q] # None}}
    \cup {<<c.path, c.turn>> : c \in {x \in clips : x.path.day = d}}

ClipsBut(p, turn) == {c \in clips : c.path # p \/ c.turn # turn}

-----------------------------------------------------------------------------
\* A request that is refused unseen leaves no trace: an empty upload, a body
\* or a conversation id that does not validate.
Refuse(r) ==
  /\ phase[r] = "new"
  /\ \E code \in {"400", "422"} : status' = [status EXCEPT ![r] = code]
  /\ Goto(r, "done")
  /\ UNCHANGED <<bounds, disk, memory, asked, meta, work, sweep, history>>

\* The handler up to its first await: the date of the trace is taken here.
Arrive(r, c) ==
  /\ phase[r] = "new"
  /\ asked' = [asked EXCEPT ![r] = [conv |-> c, day |-> today]]
  /\ Goto(r, "forwarding")
  /\ UNCHANGED <<bounds, disk, memory, meta, status, work, sweep, history>>

\* LitServe answers, cannot be reached, is too slow, or sends something that
\* is not JSON.  Each is traced.
Forwarded(r, outcome, b) ==
  /\ phase[r] = "forwarding"
  /\ meta' = [meta EXCEPT ![r] = [status |-> outcome, base |-> b]]
  /\ Goto(r, "queued")
  /\ UNCHANGED <<bounds, disk, memory, asked, status, work, sweep, history>>

\* The thread starts, makes TRACE_DIR and looks whether today was pruned.
StartWrite(r) ==
  /\ phase[r] = "queued"
  /\ Goto(r, IF prunedFor = asked[r].day THEN "folder" ELSE "prune")
  /\ UNCHANGED <<bounds, disk, memory, request, work, sweep, history>>

\* A bug to be caught: the last day that is retained is pruned, too.
StartPruneEarly(r) ==
  LET day == asked[r].day
      doomed == IF Retention = 0 THEN {} ELSE {d \in folders : d <= day - Retention}
  IN  /\ phase[r] = "prune"
      /\ prunedFor' = day
      /\ sweep' = [sweep EXCEPT ![r].doomed = doomed]
      /\ Goto(r, IF doomed = {} THEN "folder" ELSE "pruning")
      /\ UNCHANGED <<bounds, disk, lock, tracked, home, request, work, history>>

\* Two threads may both get here on one day: nothing is locked yet.
StartPrune(r) ==
  LET day == asked[r].day
      doomed == IF Retention = 0 THEN {} ELSE {d \in folders : d < day - Retention}
  IN  /\ phase[r] = "prune"
      /\ prunedFor' = day
      /\ sweep' = [sweep EXCEPT ![r].doomed = doomed]
      /\ Goto(r, IF doomed = {} THEN "folder" ELSE "pruning")
      /\ UNCHANGED <<bounds, disk, lock, tracked, home, request, work, history>>

\* rmtree lists a folder, unlinks what it listed, and removes the folder if
\* nothing was put there in the meantime; errors are ignored.
ListFolder(r) ==
  /\ phase[r] = "pruning" /\ sweep[r].folder = None
  /\ \E d \in sweep[r].doomed :
       sweep' = [sweep EXCEPT ![r] =
                   [doomed |-> @.doomed \ {d}, folder |-> d, files |-> FilesOf(d)]]
  /\ UNCHANGED <<bounds, disk, memory, phase, request, work, history>>

RemoveFile(r, f) ==
  /\ phase[r] = "pruning" /\ f \in sweep[r].files
  /\ IF f[2] = 0
     THEN json' = [json EXCEPT ![f[1]] = None] /\ UNCHANGED clips
     ELSE clips' = ClipsBut(f[1], f[2]) /\ UNCHANGED json
  /\ sweep' = [sweep EXCEPT ![r].files = @ \ {f}]
  /\ UNCHANGED <<bounds, folders, memory, phase, request, work, history>>

RemoveFolder(r) ==
  LET d == sweep[r].folder
  IN  /\ phase[r] = "pruning" /\ d # None /\ sweep[r].files = {}
      /\ folders' = IF FilesOf(d) = {} THEN folders \ {d} ELSE folders
      /\ sweep' = [sweep EXCEPT ![r].folder = None]
      /\ Goto(r, IF sweep[r].doomed = {} THEN "folder" ELSE "pruning")
      /\ UNCHANGED <<bounds, json, clips, memory, request, work, history>>

MakeFolder(r) ==
  /\ phase[r] = "folder"
  /\ folders' = folders \cup {asked[r].day}
  /\ Goto(r, "waiting")
  /\ UNCHANGED <<bounds, json, clips, memory, request, work, sweep, history>>

\* A bug to be caught: there is no scan.
CandidatesInMemory(r) ==
  LET c == asked[r].conv
  IN  IF c = None \/ home[c] = None THEN {} ELSE {home[c]}

\* Where a conversation already has a file: the remembered one, or else one
\* of the folder of the request's own day.
Candidates(r) ==
  LET c == asked[r].conv
  IN  CASE c = None -> {}
        [] c # None /\ home[c] # None -> {home[c]}
        [] OTHER -> {p \in Paths : p.day = asked[r].day /\ IsRecord(p) /\ json[p].conv = c}

\* A bug to be caught: the lock is not waited for.
LocateUnlocked(r) ==
  LET readable == {p \in Candidates(r) : IsRecord(p)}
  IN  /\ phase[r] = "waiting"
      /\ lock' = r
      /\ \/ \E p \in readable :
              /\ work' = [work EXCEPT ![r] =
                            [path |-> p, record |-> json[p], created |-> FALSE]]
              /\ Goto(r, "clip") /\ UNCHANGED misreads
         \/ /\ readable = {} \/ "read" \in DiskFaults
            /\ misreads' = IF Candidates(r) = {} THEN misreads ELSE misreads + 1
            /\ Goto(r, "create") /\ UNCHANGED work
      /\ UNCHANGED <<bounds, disk, tracked, home, prunedFor, request, sweep, saved>>

\* The lock is taken and the conversation read.  A file that is gone or does
\* not parse is as good as none.
Locate(r) ==
  LET readable == {p \in Candidates(r) : IsRecord(p)}
  IN  /\ phase[r] = "waiting"
      /\ lock = None /\ lock' = r
      /\ \/ \E p \in readable :
              /\ work' = [work EXCEPT ![r] =
                            [path |-> p, record |-> json[p], created |-> FALSE]]
              /\ Goto(r, "clip") /\ UNCHANGED misreads
         \/ /\ readable = {} \/ "read" \in DiskFaults
            /\ misreads' = IF Candidates(r) = {} THEN misreads ELSE misreads + 1
            /\ Goto(r, "create") /\ UNCHANGED work
      /\ UNCHANGED <<bounds, disk, tracked, home, prunedFor, request, sweep, saved>>

\* A bug to be caught: an existing file is opened over.
CreateOver(r, p) ==
  LET c == asked[r].conv
  IN  /\ phase[r] = "create"
      /\ p.day = asked[r].day /\ p.base = meta[r].base /\ p.day \in folders /\ p.n = 1
      /\ json' = [json EXCEPT ![p] = Empty]
      /\ work' = [work EXCEPT ![r] =
                    [path |-> p, created |-> TRUE,
                     record |-> [conv |-> IF c = None THEN r ELSE c, turns |-> <<>>]]]
      /\ Goto(r, "clip")
      /\ UNCHANGED <<bounds, folders, clips, memory, request, sweep, history>>

\* _create: the first free suffix is claimed with a zero-byte file.
Create(r, p) ==
  LET c == asked[r].conv
  IN  /\ phase[r] = "create"
      /\ p.day = asked[r].day /\ p.base = meta[r].base /\ p.day \in folders
      /\ json[p] = None /\ \A m \in 1..(p.n - 1) : json[[p EXCEPT !.n = m]] # None
      /\ json' = [json EXCEPT ![p] = Empty]
      /\ work' = [work EXCEPT ![r] =
                    [path |-> p, created |-> TRUE,
                     record |-> [conv |-> IF c = None THEN r ELSE c, turns |-> <<>>]]]
      /\ Goto(r, "clip")
      /\ UNCHANGED <<bounds, folders, clips, memory, request, sweep, history>>

NextTurnFromZero(r) == Len(work[r].record.turns)  \* a bug to be caught
NextTurn(r) == Len(work[r].record.turns) + 1
ClipOf(r, audio) == [path |-> work[r].path, turn |-> NextTurn(r), audio |-> audio]
FolderThere(r) == work[r].path.day \in folders

WriteClip(r) ==
  /\ phase[r] = "clip" /\ FolderThere(r)
  /\ clips' = ClipsBut(work[r].path, NextTurn(r)) \cup {ClipOf(r, r)}
  /\ Goto(r, "commit")
  /\ UNCHANGED <<bounds, folders, json, memory, request, work, sweep, history>>

\* _open[conversation_id] = json_path, moved to the end, the coldest dropped.
Remember(c, p) ==
  LET order == Append(RemoveFirst(tracked, c), c)
      kept == IF Len(order) > MaxTracked THEN Tail(order) ELSE order
  IN  /\ tracked' = kept
      /\ home' = [d \in Convs |-> IF d \notin ToSet(kept) THEN None
                                  ELSE IF d = c THEN p ELSE home[d]]

\* The new JSON replaces the old one at once, and the lock is released.
Commit(r) ==
  LET w == work[r]
  IN  /\ phase[r] = "commit" /\ FolderThere(r)
      /\ json' = [json EXCEPT ![w.path] = [w.record EXCEPT !.turns = Append(@, r)]]
      /\ IF asked[r].conv = None
         THEN UNCHANGED <<tracked, home>>
         ELSE Remember(asked[r].conv, w.path)
      /\ lock' = None
      /\ work' = [work EXCEPT ![r] = None]
      /\ saved' = [saved EXCEPT ![r] = w.path]
      /\ Goto(r, "traced")
      /\ UNCHANGED <<bounds, folders, clips, prunedFor, request, sweep, misreads>>

\* A bug to be caught: a failed write leaves its claim behind.
DropKeepsClaim(r) ==
  /\ \/ phase[r] \in {"queued", "folder", "create"} /\ "write" \in DiskFaults
     \/ phase[r] = "prune" /\ Retention # 0 /\ "read" \in DiskFaults
     \/ phase[r] \in {"clip", "commit"} /\ ("write" \in DiskFaults \/ ~FolderThere(r))
  /\ lock' = IF phase[r] \in Locked THEN None ELSE lock
  /\ prunedFor' = IF phase[r] = "prune" THEN asked[r].day ELSE prunedFor
  /\ work' = [work EXCEPT ![r] = None]
  /\ Goto(r, "traced")
  /\ UNCHANGED <<bounds, disk, tracked, home, request, sweep, history>>

\* Something raises: a claim is taken back, the lock released, the trace
\* dropped.  A clip may be left half written, and a prune that could not list
\* the folders is not tried again that day.
Drop(r) ==
  /\ \/ phase[r] \in {"queued", "folder", "create"} /\ "write" \in DiskFaults
     \/ phase[r] = "prune" /\ Retention # 0 /\ "read" \in DiskFaults
     \/ phase[r] \in {"clip", "commit"} /\ ("write" \in DiskFaults \/ ~FolderThere(r))
  /\ IF phase[r] \in {"clip", "commit"} /\ work[r].created
     THEN json' = [json EXCEPT ![work[r].path] = None]
     ELSE UNCHANGED json
  /\ \/ UNCHANGED clips
     \/ /\ phase[r] = "clip" /\ FolderThere(r)
        /\ clips' = ClipsBut(work[r].path, NextTurn(r)) \cup {ClipOf(r, Torn)}
  /\ lock' = IF phase[r] \in Locked THEN None ELSE lock
  /\ prunedFor' = IF phase[r] = "prune" THEN asked[r].day ELSE prunedFor
  /\ work' = [work EXCEPT ![r] = None]
  /\ Goto(r, "traced")
  /\ UNCHANGED <<bounds, folders, tracked, home, request, sweep, history>>

\* A bug to be caught: a trace that fails becomes the caller's error.
RespondOrFail(r) ==
  /\ phase[r] = "traced"
  /\ status' = [status EXCEPT ![r] = IF saved[r] = None THEN "500" ELSE meta[r].status]
  /\ Goto(r, "done")
  /\ UNCHANGED <<bounds, disk, memory, asked, meta, work, sweep, history>>

\* save_trace returns whatever happened, and the handler answers.
Respond(r) ==
  /\ phase[r] = "traced"
  /\ status' = [status EXCEPT ![r] = meta[r].status]
  /\ Goto(r, "done")
  /\ UNCHANGED <<bounds, disk, memory, asked, meta, work, sweep, history>>

InFlight(r) == phase[r] \notin {"new", "done", "lost"}

\* Midnight.  A request is answered within a day.
NextDay ==
  /\ today < LastDay
  /\ \A r \in Requests : InFlight(r) => asked[r].day = today
  /\ today' = today + 1
  /\ UNCHANGED <<crashes, disk, memory, phase, request, work, sweep, history>>

\* The process dies and is started again.
Crash ==
  /\ crashes < MaxCrashes
  /\ crashes' = crashes + 1
  /\ lock' = None /\ tracked' = <<>> /\ home' = [c \in Convs |-> None] /\ prunedFor' = None
  /\ phase' = [r \in Requests |-> IF InFlight(r) THEN "lost" ELSE phase[r]]
  /\ work' = [r \in Requests |-> None]
  /\ sweep' = [r \in Requests |-> NoSweep]
  /\ UNCHANGED <<today, disk, request, history>>

Thread(r) ==
  \/ StartWrite(r)
  \/ StartPrune(r) \/ ListFolder(r) \/ RemoveFolder(r)
  \/ \E f \in sweep[r].files : RemoveFile(r, f)
  \/ MakeFolder(r) \/ Locate(r)
  \/ \E p \in Paths : Create(r, p)
  \/ WriteClip(r) \/ Commit(r) \/ Drop(r)

AllDone == (\A r \in Requests : phase[r] \in {"done", "lost"}) /\ UNCHANGED vars

Next ==
  \/ \E r \in Requests :
       \/ Refuse(r)
       \/ \E c \in Convs \cup {None} : Arrive(r, c)
       \/ \E o \in Outcomes, b \in Bases : Forwarded(r, o, b)
       \/ Thread(r)
       \/ Respond(r)
  \/ NextDay \/ Crash \/ AllDone

Spec == Init /\ [][Next]_vars

\* httpx gives up on a silent LitServe, a started thread runs on, and the
\* event loop resumes what is ready.
FairSpec ==
  /\ Spec
  /\ \A r \in Requests :
       /\ WF_vars(\E o \in Outcomes, b \in Bases : Forwarded(r, o, b))
       /\ WF_vars(Thread(r))
       /\ WF_vars(Respond(r))

-----------------------------------------------------------------------------
\* Folders no prune of today or of an earlier day may touch.
Kept(d) == Retention = 0 \/ d >= today - Retention

TurnsAt(p) == IF IsRecord(p) THEN json[p].turns ELSE <<>>

(***************************************************************************)
(* A turn whose save succeeded stays in the file it was saved to for as    *)
(* long as that day is retained: turns of one conversation that land at    *)
(* once, a write that fails, a crash, a forgotten mapping or the pruning   *)
(* of other days do not lose it.                                           *)
(***************************************************************************)
SavedTurnsAreKept ==
  \A r \in Requests :
    saved[r] # None /\ Kept(saved[r].day) => r \in ToSet(TurnsAt(saved[r]))

(***************************************************************************)
(* The audio file a turn names is there, whole, and is the audio of that   *)
(* request: a write that failed half way, or a crash, leaves its clip to   *)
(* be overwritten by the turn that gets its number.                        *)
(***************************************************************************)
TurnsHaveTheirAudio ==
  \A p \in Paths : Kept(p.day) =>
    \A i \in 1..Len(TurnsAt(p)) :
      {c \in clips : c.path = p /\ c.turn = i} =
        {[path |-> p, turn |-> i, audio |-> TurnsAt(p)[i]]}

(***************************************************************************)
(* A zero-byte JSON is the claim of a thread at work, or was left by a     *)
(* crash, one by each at most: a failed write leaves none behind.          *)
(***************************************************************************)
Claimed == {p \in Paths : json[p] = Empty}
BeingWritten == {work[r].path : r \in {x \in Requests : work[x] # None}}

EmptyFilesAreCrashes == Cardinality(Claimed \ BeingWritten) <= crashes

(***************************************************************************)
(* A conversation has one file in a day folder, also when its mapping was  *)
(* forgotten or lost in a restart: a second one takes a file it is known   *)
(* to have that cannot be read, be it pruned from another folder.          *)
(***************************************************************************)
OneFilePerFolder ==
  \A p \in Paths : IsRecord(p) =>
    Cardinality({q \in Paths : q.day = p.day /\ IsRecord(q) /\ json[q].conv = json[p].conv})
      <= 1 + misreads

(***************************************************************************)
(* The folder a thread writes to is not pruned under it, by another thread *)
(* or on another day's behalf, as long as that day is retained: from the   *)
(* moment it was made for the claim, or the conversation was found in it.  *)
(***************************************************************************)
KeptFoldersStay ==
  \A r \in Requests :
    /\ phase[r] \in {"waiting", "create"} => asked[r].day \in folders
    /\ phase[r] \in {"clip", "commit"} /\ Kept(work[r].path.day) => FolderThere(r)

(***************************************************************************)
(* Everything above is concurrency, disk and memory: to a reader of the    *)
(* traces, they are the log of TraceLog.  A turn is one of its requests'   *)
(* once, in a file of its own conversation, files only grow, turn by turn, *)
(* and none disappears before its day is past the retention.               *)
(***************************************************************************)
OwnerOf(r) ==
  CASE asked[r] = None -> None
    [] asked[r] # None /\ asked[r].conv = None -> r
    [] OTHER -> asked[r].conv

Log == INSTANCE TraceLog WITH
  owner <- [r \in Requests |-> OwnerOf(r)],
  written <- {r \in Requests : saved[r] # None},
  logs <- [p \in Paths |-> IF IsRecord(p) /\ Kept(p.day) THEN json[p] ELSE None]

ImplementsTraceLog == Log!Spec

(***************************************************************************)
(* "Tracing must never cost a caller their transcript": whatever the disk  *)
(* does, a request LitServe has dealt with is answered accordingly.        *)
(***************************************************************************)
CallersAreAnswered ==
  \A r \in Requests :
    /\ phase[r] = "forwarding" ~> phase[r] \in {"done", "lost"}
    /\ \A o \in Outcomes : meta[r] # None /\ meta[r].status = o
                             ~> status[r] = o \/ phase[r] = "lost"

(***************************************************************************)
(* "A conversation stays in the day folder it started in, even when it     *)
(* runs past midnight", and the mapping that was forgotten "is simply      *)
(* re-found by scanning on its next turn".                                 *)
(***************************************************************************)
ConversationsStayTogether ==
  \A p, q \in Paths :
    (IsRecord(p) /\ IsRecord(q) /\ json[p].conv = json[q].conv) => p = q
=============================================================================
