------------------------------ MODULE SpeechLRU ------------------------------
(***************************************************************************)
(* What one call does to the gateway's cache of synthesized replies, class *)
(* SpeechCache of src/api/v1/tts/cache.py, when nothing else runs at the   *)
(* same time.  A cache is a record                                         *)
(*                                                                         *)
(*   order  the cached keys, coldest first: the order of the OrderedDict   *)
(*   held   key -> the reply stored under it, or None                      *)
(*   hits, misses, evictions, rejections   the counters of stats()         *)
(*                                                                         *)
(* A key stands for the hash of text, voice and description; a reply (a    *)
(* Speech of the code) is a value of which only the size is known.         *)
(* SpeechCacheThreads shows that the locked, step-by-step code of the      *)
(* class does exactly this.                                                *)
(***************************************************************************)
EXTENDS Integers, Sequences, FiniteSets, SequencesExt

CONSTANTS
  Keys,      \* what SpeechCache.key can return
  Speech,    \* the replies that may be stored
  NBytes,    \* NBytes[s]: Speech.nbytes, the bytes of audio of s
  MaxBytes,  \* SpeechCache.max_bytes
  None       \* the None a lookup answers on a miss

ASSUME SpeechAssumption ==
  /\ IsFiniteSet(Keys)
  /\ NBytes \in [Speech -> Nat]
  /\ MaxBytes \in Nat
  /\ None \notin Speech

Counters == {"hits", "misses", "evictions", "rejections"}

Cache ==
  [order : Seq(Keys), held : [Keys -> Speech \cup {None}],
   hits : Nat, misses : Nat, evictions : Nat, rejections : Nat]

Cold ==
  [order |-> <<>>, held |-> [k \in Keys |-> None],
   hits |-> 0, misses |-> 0, evictions |-> 0, rejections |-> 0]

\* The keys that have an entry.
Cached(held) == {k \in Keys : held[k] # None}

\* The audio held, byte by byte, and how much it is: what the running total
\* _nbytes of the code is meant to be.  No entry is longer than MaxBytes.
AudioOf(held) ==
  {kb \in Keys \X (1..MaxBytes) : held[kb[1]] # None /\ kb[2] <= NBytes[held[kb[1]]]}
BytesIn(held) == Cardinality(AudioOf(held))

\* The bytes of what OrderedDict.pop returns.
Size(e) == IF e = None THEN 0 ELSE NBytes[e]

\* The keys of an OrderedDict: a sequence without repetitions.
Distinct(q) == \A i, j \in 1..Len(q) : q[i] = q[j] => i = j

\* OrderedDict.move_to_end, and deletion followed by insertion at the end.
MoveToEnd(order, k) == Append(RemoveFirst(order, k), k)

\* held restricted to a sequence of keys.
Only(held, order) == [k \in Keys |-> IF k \in ToSet(order) THEN held[k] ELSE None]

\* The entries left when the n coldest have been popped.
Newest(order, n) == SubSeq(order, n + 1, Len(order))

\* How many of the coldest entries have to go before the rest fits: popping
\* fewer is not enough.
Excess(order, held) ==
  Cardinality({n \in 0..Len(order) :
                 BytesIn(Only(held, Newest(order, n))) > MaxBytes})

\* SpeechCache.get of an enabled cache: what it answers, and what it changes.
AfterGet(c, k) ==
  IF c.held[k] = None
  THEN [c EXCEPT !.misses = @ + 1]
  ELSE [c EXCEPT !.order = MoveToEnd(@, k), !.hits = @ + 1]

\* The coldest entries popped until the rest fits: the loop of put.
Shrunk(c) ==
  LET n == Excess(c.order, c.held)
      rest == Newest(c.order, n)
  IN  [c EXCEPT !.order = rest, !.held = Only(@, rest), !.evictions = @ + n]

\* s stored under k, in the place of what was there, as the newest entry.
Stored(c, k, s) == [c EXCEPT !.order = MoveToEnd(@, k), !.held[k] = s]

\* SpeechCache.put of an enabled cache.
AfterPut(c, k, s) ==
  IF NBytes[s] > MaxBytes
  THEN [c EXCEPT !.rejections = @ + 1]
  ELSE Shrunk(Stored(c, k, s))
=============================================================================
