------------------------------- MODULE TraceLog -------------------------------
(***************************************************************************)
(* What the traces on disk promise a reader, whatever threads, disk and    *)
(* crashes do: a retained conversation file is labelled with one           *)
(* conversation and only ever grows, by one turn of that conversation at a *)
(* time; a request becomes a turn at most once; and a file goes when       *)
(* midnight puts its day past the retention, and never otherwise.  When    *)
(* the file is unlinked after that is nobody's business, so an expired     *)
(* path is empty here at once.                                             *)
(*                                                                         *)
(*   owner     the conversation a request belongs to, None before it comes *)
(*   written   the requests that have become turns                         *)
(*   logs      what is at a retained path: None or a record                *)
(***************************************************************************)
EXTENDS Integers, Sequences

CONSTANTS Requests, Owners, Paths, LastDay, Retention, None

VARIABLES today, owner, written, logs

logVars == <<today, owner, written, logs>>

Init ==
  /\ today = 1
  /\ owner = [r \in Requests |-> None]
  /\ written = {}
  /\ logs = [p \in Paths |-> None]

Expired(p, day) == Retention # 0 /\ p.day < day - Retention

Arrive(r) ==
  /\ owner[r] = None
  /\ owner' \in {[owner EXCEPT ![r] = c] : c \in Owners}
  /\ UNCHANGED <<today, written, logs>>

\* The file of a conversation is started or extended with the turn of r.  A
\* turn that is added to an expired file goes the way of the file.
Write(r) ==
  /\ owner[r] # None /\ r \notin written
  /\ written' = written \cup {r}
  /\ \E p \in Paths :
       /\ p.day <= today
       /\ IF Expired(p, today)
          THEN UNCHANGED logs
          ELSE LET old == IF logs[p] = None THEN [conv |-> owner[r], turns |-> <<>>] ELSE logs[p]
               IN  /\ old.conv = owner[r]
                   /\ logs' = [logs EXCEPT ![p] = [old EXCEPT !.turns = Append(@, r)]]
  /\ UNCHANGED <<today, owner>>

NextDay ==
  /\ today < LastDay
  /\ today' = today + 1
  /\ logs' = [p \in Paths |-> IF Expired(p, today') THEN None ELSE logs[p]]
  /\ UNCHANGED <<owner, written>>

Next == NextDay \/ \E r \in Requests : Arrive(r) \/ Write(r)

Spec == Init /\ [][Next]_logVars
=============================================================================
