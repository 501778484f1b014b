----------------------------- MODULE ModelServer -----------------------------
(***************************************************************************)
(* LitServe as the gateway knows it, serving /synthesize: a queue, a few   *)
(* workers, and the responses on their way back.  LitServe is external:    *)
(* this is what src/litserver/server.py configures and what                *)
(* src/api/client.py and the README rely on, LITSERVE_TIMEOUT being "how   *)
(* long a request may sit in LitServe's queue before a 504".  What a       *)
(* worker sends is TakeSource; it may be silent for as long as it likes.   *)
(*                                                                         *)
(* Time is counted in ticks, up to the bounds the properties compare with. *)
(*                                                                         *)
(*   place    where a request is                                           *)
(*   queue    the requests that wait for a worker                          *)
(*   waited   the ticks a request that no worker took spent in the queue   *)
(*   of       the lines its take will have                                 *)
(*   left, sent, finished   see TakeSource                                 *)
(*   wire     what was sent and the gateway has not read yet: "line",      *)
(*            "end", "cut" or the status of an error                       *)
(***************************************************************************)
EXTENDS Integers, Sequences, FiniteSets, SequencesExt

CONSTANTS
  Requests,
  MaxParts,
  Workers,        \* workers of the TTS API: WORKERS_PER_DEVICE on DEVICES
  QueueTimeout,   \* LITSERVE_TIMEOUT
  Longest,        \* time in the queue is counted so far
  None

VARIABLES place, queue, waited, of, left, sent, finished, wire

serverVars ==
  <<place, queue, waited, of, left, sent, finished, wire>>

Take == INSTANCE TakeSource WITH MaxLines <- MaxParts, ended <- finished

Places == {"away", "coming", "queued", "serving", "expired", "served"}

Init ==
  /\ place = [r \in Requests |-> "away"]
  /\ queue = <<>>
  /\ waited = [r \in Requests |-> 0]
  /\ of = [r \in Requests |-> 0]
  /\ wire = [r \in Requests |-> <<>>]
  /\ Take!Init

Goto(r, p) == place' = [place EXCEPT ![r] = p]
Served == {r \in Requests : place[r] = "serving"}
FreeWorker == Cardinality(Served) < Workers

\* Something is sent to the gateway, which reads it if it still listens.
Put(r, m, listening) ==
  wire' = IF listening THEN [wire EXCEPT ![r] = Append(@, m)] ELSE wire

\* The gateway has sent a request.
Send(r) ==
  /\ place[r] = "away" /\ Goto(r, "coming")
  /\ UNCHANGED <<queue, waited, of, left, sent, finished, wire>>

Arrive(r) ==
  /\ place[r] = "coming" /\ Goto(r, "queued")
  /\ queue' = Append(queue, r)
  /\ UNCHANGED <<waited, of, left, sent, finished, wire>>

\* A free worker takes the first request; its text makes n clauses.
Pick(r, n) ==
  /\ queue # <<>> /\ Head(queue) = r /\ FreeWorker
  /\ queue' = Tail(queue)
  /\ Goto(r, "serving")
  /\ of' = [of EXCEPT ![r] = n]
  /\ Take!Start(r, n)
  /\ waited' = [waited EXCEPT ![r] = 0]
  /\ UNCHANGED <<wire>>

\* A request that waited too long is answered 504 and forgotten, when LitServe
\* comes to look at it.
Expire(r, listening) ==
  /\ place[r] = "queued" /\ waited[r] >= QueueTimeout
  /\ queue' = RemoveFirst(queue, r)
  /\ Goto(r, "expired")
  /\ Put(r, "504", listening)
  /\ UNCHANGED <<waited, of, left, sent, finished>>

Line(r, listening) ==
  /\ place[r] = "serving"
  /\ Take!Line(r)
  /\ Put(r, "line", listening)
  /\ UNCHANGED <<place, queue, waited, of>>

End(r, listening) ==
  /\ place[r] = "serving"
  /\ Take!End(r)
  /\ Put(r, "end", listening)
  /\ Goto(r, "served")
  /\ UNCHANGED <<queue, waited, of>>

\* The worker raises: a status, or a stream that breaks off.
Fail(r, listening) ==
  /\ place[r] = "serving"
  /\ Take!Fail(r)
  /\ \E code \in {"422", "500"} : Put(r, IF sent[r] = 0 THEN code ELSE "cut", listening)
  /\ Goto(r, "served")
  /\ UNCHANGED <<queue, waited, of>>

\* The gateway reads the next thing sent to it, or stops listening.
Read(r, m) ==
  /\ wire[r] # <<>> /\ Head(wire[r]) = m
  /\ wire' = [wire EXCEPT ![r] = Tail(@)]
  /\ UNCHANGED <<place, queue, waited, of, left, sent, finished>>

Close(r) ==
  /\ wire' = [wire EXCEPT ![r] = <<>>]
  /\ UNCHANGED <<place, queue, waited, of, left, sent, finished>>

Count(n, max) == IF n < max THEN n + 1 ELSE n

Tick ==
  /\ waited' = [r \in Requests |->
                  IF place[r] = "queued" THEN Count(waited[r], Longest) ELSE waited[r]]
  /\ UNCHANGED <<place, queue, of, left, sent, finished, wire>>
=============================================================================
