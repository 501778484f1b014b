----------------------------- MODULE SpeechService -----------------------------
(***************************************************************************)
(* The speech route and the model server it forwards to, with the clocks   *)
(* that part them: LitServe answers a request that sat in its queue for    *)
(* LITSERVE_TIMEOUT with a 504, and httpx raises when nothing was read for *)
(* DEFAULT_TIMEOUT = LITSERVE_TIMEOUT + 10.                                *)
(*                                                                         *)
(* An action is one of SpeechRoute, one of ModelServer, or one of each     *)
(* where a request is sent and where something sent back is read.  What    *)
(* SpeechRoute leaves to chance is brought about here: by the worker, and  *)
(* by time.  The network is slow but loses nothing, and the worker is this *)
(* repository's, which sends neither empty streams nor malformed lines;    *)
(* SpeechRoute has those faults.                                           *)
(*                                                                         *)
(*   silent   the ticks the gateway has been waiting to read               *)
(*   late     the ticks something has been on the network, and could have  *)
(*            been taken from it                                           *)
(*   quiet    the ticks the worker has said nothing to a gateway that      *)
(*            listens, up to QueueTimeout                                  *)
(***************************************************************************)
EXTENDS SpeechRoute

CONSTANTS
  Asks,     \* what callers ask for
  Workers, QueueTimeout,
  Margin,   \* the ten seconds
  Transit   \* the longest time on the network, one way

ASSUME TimeAssumption ==
  /\ Asks \subseteq Asked
  /\ {Workers, QueueTimeout} \subseteq Nat \ {0}
  /\ {Margin, Transit} \subseteq Nat
  /\ None \notin 0..MaxParts /\ None \notin {"ok", "error"}
  /\ 2 * Transit < Margin

VARIABLES place, queue, waited, of, left, sent, finished, wire,
          silent, late, quiet

\* LitServe's 504 is back in time if a request waited for less than this.
Patience == QueueTimeout + Margin - 2 * Transit

Server == INSTANCE ModelServer WITH Longest <- Patience

server == <<place, queue, waited, of, left, sent, finished, wire>>
clocks == <<silent, late, quiet>>
serviceVars == <<vars, server, clocks>>

ServiceInit ==
  /\ Init
  /\ Server!Init
  /\ silent = [r \in Requests |-> 0]
  /\ late = [r \in Requests |-> 0]
  /\ quiet = [r \in Requests |-> 0]

DeadlineOfServer == QueueTimeout  \* a bug to be caught: there is no margin
Deadline == QueueTimeout + Margin

Reading(r) == phase[r] = "opening" \/ Awaiting(r)
Listening(r) == phase[r] \in {"opening", "collecting", "sending"}
UnderWay(r) == place[r] = "coming" \/ (wire[r] # <<>> /\ Reading(r))

\* A bug to be caught: the timeout is the whole reply's.
HeardOfReply(r) ==
  /\ late' = [late EXCEPT ![r] = 0]
  /\ silent' = IF phase'[r] = "done" THEN [silent EXCEPT ![r] = 0] ELSE silent
  /\ quiet' = IF phase'[r] = "done" THEN [quiet EXCEPT ![r] = 0] ELSE quiet

\* A read is over, or there will be none.
Heard(r) ==
  /\ late' = [late EXCEPT ![r] = 0]
  /\ silent' = [silent EXCEPT ![r] = 0]
  /\ quiet' = IF phase'[r] = "done" THEN [quiet EXCEPT ![r] = 0] ELSE quiet

-----------------------------------------------------------------------------
\* A miss opens the stream.
Ask(r, a) ==
  /\ Handle(r, a)
  /\ IF cache.held[a.key] = None THEN Server!Send(r) ELSE UNCHANGED server
  /\ UNCHANGED clocks

Arrive(r) ==
  /\ Server!Arrive(r)
  /\ late' = [late EXCEPT ![r] = 0]
  /\ UNCHANGED <<vars, silent, quiet>>

\* What the server does concerns the gateway when it is read.
Serve(r) ==
  /\ \/ \E n \in 1..MaxParts : Server!Pick(r, n)
     \/ Server!Line(r, Listening(r)) \/ Server!End(r, Listening(r))
     \/ Server!Fail(r, Listening(r))
  /\ quiet' = [quiet EXCEPT ![r] = 0]
  /\ UNCHANGED <<vars, silent, late>>

Expire(r) ==
  /\ Server!Expire(r, Listening(r))
  /\ UNCHANGED <<vars, clocks>>

Receive(r) ==
  /\ \/ Server!Read(r, "line") /\ (FirstChunk(r, of[r]) \/ NextChunk(r))
     \/ Server!Read(r, "end") /\ Exhausted(r)
     \/ Server!Read(r, "cut") /\ ConnectionLost(r)
     \/ \E code \in {"422", "500", "504"} :
          Server!Read(r, code) /\ Fails(r, "rejected", code)
  /\ Heard(r)

GivesUp(r) ==
  /\ silent[r] = Deadline
  /\ TimesOutOpening(r) \/ TimesOut(r)
  /\ Server!Close(r)
  /\ Heard(r)

ClientLeaves(r) == HangUp(r) /\ Server!Close(r) /\ Heard(r)

\* What concerns neither the server nor a clock.
Decline(r) == Refuse(r) /\ UNCHANGED <<server, clocks>>
Play(r) == (Deliver(r) \/ Replayed(r)) /\ UNCHANGED <<server, clocks>>

Tick ==
  /\ \A r \in Requests : UnderWay(r) => late[r] < Transit
  /\ Server!Tick
  /\ late' = [r \in Requests |-> IF UnderWay(r) THEN late[r] + 1 ELSE late[r]]
  /\ silent' = [r \in Requests |->
                  IF Reading(r) THEN Server!Count(silent[r], Deadline) ELSE silent[r]]
  /\ quiet' = [r \in Requests |->
                 IF place[r] = "serving" /\ Listening(r)
                 THEN Server!Count(quiet[r], QueueTimeout) ELSE quiet[r]]
  /\ UNCHANGED vars

\* What is due for a request, whatever the workers do.
Due(r) ==
  \/ Arrive(r) \/ Expire(r) \/ Receive(r) \/ GivesUp(r)
  \/ Play(r) \/ ClientLeaves(r)

ServiceNext ==
  \/ \E r \in Requests :
       \/ Decline(r) \/ \E a \in Asks : Ask(r, a)
       \/ Due(r) \/ Serve(r)
  \/ Tick

ServiceSpec == ServiceInit /\ [][ServiceNext]_serviceVars

\* For as long as there is anything of this, some of it happens: time passes, what
\* is on the network arrives, LitServe looks at its queue again, httpx raises, the
\* event loop resumes what is ready, and a client takes what it is sent or goes
\* away.  Nothing is assumed of the workers.
ServiceFairSpec ==
  /\ ServiceSpec
  /\ WF_serviceVars(Tick \/ \E r \in Requests : Due(r))

-----------------------------------------------------------------------------
(***************************************************************************)
(* "Must stay above settings.LITSERVE_TIMEOUT so LitServe's own queue      *)
(* timeout returns the 504, rather than this connection aborting first and *)
(* racing it".  LitServe may look at its queue too late, and the margin is *)
(* what it has for that and for the way there and back: a request that no  *)
(* worker took, and that did not stay in the queue for longer, is told so  *)
(* by LitServe's 504, and never costs the caller the 500 of the gateway's  *)
(* own timeout.                                                            *)
(***************************************************************************)
OverloadIsTold ==
  \A r \in Requests : waited[r] < Patience =>
    /\ fault[r] = "timeout" => place[r] \in {"serving", "served"}
    /\ place[r] = "expired" /\ phase[r] = "done" => status[r] = "504"

(***************************************************************************)
(* A reply may take as long as it likes, and so may the client that takes  *)
(* it in: one that has begun is given up only when its worker has been     *)
(* silent for as long as a request may wait in the queue (or has broken    *)
(* that silence at the last moment, and the line is still on its way).     *)
(***************************************************************************)
SlowStreamsAreNotCut ==
  [][\A r \in Requests :
       fault'[r] = "timeout" /\ fault[r] # "timeout" /\ reply[r] # None =>
         quiet[r] = QueueTimeout \/ wire[r] # <<>>]_serviceVars
=============================================================================
