------------------------------ MODULE TakeSource ------------------------------
(***************************************************************************)
(* What a TTS worker promises LitServe of the requests it is handed: once  *)
(* it has cut a text into n clauses it sends a line for each, the stream   *)
(* ends well only after the last of them, and a failure ends it at once.   *)
(* When, and whether, the worker gets on with it is left open.             *)
(*                                                                         *)
(*   left    the lines still to come of a request being spoken, else None  *)
(*   sent    the lines sent for it                                         *)
(*   ended   how its stream ended: "ok", "error", or None if it did not    *)
(***************************************************************************)
EXTENDS Naturals

CONSTANTS
  Requests,
  MaxLines,  \* the longest take
  None

VARIABLES left, sent, ended

takeVars == <<left, sent, ended>>

Init ==
  /\ left = [r \in Requests |-> None]
  /\ sent = [r \in Requests |-> 0]
  /\ ended = [r \in Requests |-> None]

\* The text of r is cut into n clauses.
Start(r, n) ==
  /\ left[r] = None /\ ended[r] = None
  /\ left' = [left EXCEPT ![r] = n]
  /\ UNCHANGED <<sent, ended>>

Line(r) ==
  /\ left[r] \notin {None, 0}
  /\ left' = [left EXCEPT ![r] = @ - 1]
  /\ sent' = [sent EXCEPT ![r] = @ + 1]
  /\ UNCHANGED ended

End(r) ==
  /\ left[r] = 0
  /\ left' = [left EXCEPT ![r] = None]
  /\ ended' = [ended EXCEPT ![r] = "ok"]
  /\ UNCHANGED sent

\* The voice is unknown, or the model raises, before the first clause or later.
Fail(r) ==
  /\ ended[r] = None
  /\ left' = [left EXCEPT ![r] = None]
  /\ ended' = [ended EXCEPT ![r] = "error"]
  /\ UNCHANGED sent

Next ==
  \E r \in Requests :
    \/ \E n \in 1..MaxLines : Start(r, n)
    \/ Line(r) \/ End(r) \/ Fail(r)

Spec == Init /\ [][Next]_takeVars
=============================================================================
