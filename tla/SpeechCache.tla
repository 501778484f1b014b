----------------------------- MODULE SpeechCache -----------------------------
(***************************************************************************)
(* The promise of the cache: every call takes effect at one instant, as if *)
(* the calls of all threads had been made one after the other.  got[t] is  *)
(* what the last lookup of thread t answered.  Whether a thread asks, and  *)
(* when, is left open: this is what callers may rely on, not a schedule.   *)
(***************************************************************************)
EXTENDS SpeechLRU

CONSTANT Threads

VARIABLES enabled, cache, got

cacheVars == <<enabled, cache, got>>

Init ==
  /\ enabled \in BOOLEAN
  /\ cache = Cold
  /\ got = [t \in Threads |-> None]

\* get: a disabled cache answers None and counts nothing.
Get(t, k) ==
  /\ got' = [got EXCEPT ![t] = IF enabled THEN cache.held[k] ELSE None]
  /\ cache' = IF enabled THEN AfterGet(cache, k) ELSE cache
  /\ UNCHANGED enabled

\* put: a disabled cache stores nothing, which is a stuttering step.
Put(k, s) ==
  /\ enabled
  /\ cache' = AfterPut(cache, k, s)
  /\ UNCHANGED <<enabled, got>>

\* clear
Clear ==
  /\ cache' = Cold
  /\ UNCHANGED <<enabled, got>>

Next ==
  \/ \E t \in Threads, k \in Keys : Get(t, k)
  \/ \E k \in Keys, s \in Speech : Put(k, s)
  \/ Clear

Spec == Init /\ [][Next]_cacheVars
=============================================================================
