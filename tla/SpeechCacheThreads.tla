-------------------------- MODULE SpeechCacheThreads --------------------------
(***************************************************************************)
(* Class SpeechCache of src/api/v1/tts/cache.py, statement by statement,   *)
(* called by several threads.  The class says why it is locked: "FastAPI   *)
(* runs sync dependencies and TestClient requests on a threadpool".        *)
(*                                                                         *)
(*   lock    threading.Lock: the thread inside, or None                    *)
(*   order, held   the OrderedDict _entries, coldest key first             *)
(*   nbytes  the running total _nbytes                                     *)
(*   count   hits, misses, evictions, rejections                           *)
(*   pc, req where each thread is, and the arguments of its call           *)
(*   got     what the last lookup of each thread answered                  *)
(*                                                                         *)
(* calls only bounds the exploration: MaxCalls calls are made in all.      *)
(* recent is a history variable that nothing in the code reads: every key  *)
(* ever hit or stored, the one used last at the end, evicted or not.       *)
(***************************************************************************)
EXTENDS SpeechLRU

CONSTANTS Threads, MaxCalls

ASSUME ThreadsAssumption ==
  /\ None \notin Threads
  /\ MaxCalls \in Nat

VARIABLES enabled, lock, order, held, nbytes, count, pc, req, got, calls, recent

entries == <<order, held, nbytes>>
vars == <<enabled, lock, order, held, nbytes, count, pc, req, got, calls, recent>>

Labels == {"idle", "get", "put", "clear", "lookup", "pop", "insert", "fit", "wipe"}
Inside == {"lookup", "pop", "insert", "fit", "wipe"}

Init ==
  /\ enabled \in BOOLEAN
  /\ lock = None
  /\ order = <<>> /\ held = [k \in Keys |-> None] /\ nbytes = 0
  /\ count = [c \in Counters |-> 0]
  /\ pc = [t \in Threads |-> "idle"]
  /\ req = [t \in Threads |-> [key |-> None, speech |-> None]]
  /\ got = [t \in Threads |-> None]
  /\ calls = 0
  /\ recent = <<>>

Goto(t, label) == pc' = [pc EXCEPT ![t] = label]
Count(c) == count' = [count EXCEPT ![c] = @ + 1]

\* A thread calls a method with these arguments and reaches the label.
Call(t, k, s, label) ==
  /\ pc[t] = "idle"
  /\ calls < MaxCalls
  /\ calls' = calls + 1
  /\ req' = [req EXCEPT ![t] = [key |-> k, speech |-> s]]
  /\ Goto(t, label)
  /\ UNCHANGED <<enabled, lock, entries, recent>>

\* get up to its lock; a disabled cache answers before it.
CallGet(t, k) ==
  /\ Call(t, k, None, IF enabled THEN "get" ELSE "idle")
  /\ got' = IF enabled THEN got ELSE [got EXCEPT ![t] = None]
  /\ UNCHANGED count

\* A bug to be caught: any reply is stored, however long.
CallPutUnchecked(t, k, s) ==
  /\ Call(t, k, s, IF enabled THEN "put" ELSE "idle")
  /\ UNCHANGED <<count, got>>

\* put up to its lock: the size is compared, and a rejection counted, outside.
CallPut(t, k, s) ==
  LET fits == NBytes[s] <= MaxBytes
  IN  /\ Call(t, k, s, IF enabled /\ fits THEN "put" ELSE "idle")
      /\ IF enabled /\ ~fits THEN Count("rejections") ELSE UNCHANGED count
      /\ UNCHANGED got

CallClear(t) ==
  /\ Call(t, None, None, "clear")
  /\ UNCHANGED <<count, got>>

\* A bug to be caught: the lock is not waited for.
AcquireUnlocked(t) ==
  /\ lock' = t
  /\ \/ pc[t] = "get" /\ Goto(t, "lookup")
     \/ pc[t] = "put" /\ Goto(t, "pop")
     \/ pc[t] = "clear" /\ Goto(t, "wipe")
  /\ UNCHANGED <<enabled, entries, count, req, got, calls, recent>>

\* "with self._lock": the thread enters the critical section of its method.
Acquire(t) ==
  /\ lock = None
  /\ lock' = t
  /\ \/ pc[t] = "get" /\ Goto(t, "lookup")
     \/ pc[t] = "put" /\ Goto(t, "pop")
     \/ pc[t] = "clear" /\ Goto(t, "wipe")
  /\ UNCHANGED <<enabled, entries, count, req, got, calls, recent>>

\* The critical section ends and its method returns.
Return(t) == lock' = None /\ Goto(t, "idle")

\* A bug to be caught: a hit does not make its entry the newest.
LookupInPlace(t) ==
  /\ pc[t] = "lookup"
  /\ LET k == req[t].key
     IN  /\ got' = [got EXCEPT ![t] = held[k]]
         /\ IF held[k] = None
            THEN Count("misses") /\ UNCHANGED recent
            ELSE Count("hits") /\ recent' = MoveToEnd(recent, k)
  /\ Return(t)
  /\ UNCHANGED <<enabled, entries, req, calls>>

\* The critical section of get.
Lookup(t) ==
  /\ pc[t] = "lookup"
  /\ LET k == req[t].key
     IN  /\ got' = [got EXCEPT ![t] = held[k]]
         /\ IF held[k] = None
            THEN Count("misses") /\ UNCHANGED <<order, recent>>
            ELSE /\ order' = MoveToEnd(order, k)
                 /\ recent' = MoveToEnd(recent, k)
                 /\ Count("hits")
  /\ Return(t)
  /\ UNCHANGED <<enabled, held, nbytes, req, calls>>

\* A bug to be caught: the replaced entry stays in the total.
PopUncounted(t) ==
  /\ pc[t] = "pop"
  /\ order' = RemoveFirst(order, req[t].key)
  /\ held' = [held EXCEPT ![req[t].key] = None]
  /\ Goto(t, "insert")
  /\ UNCHANGED <<enabled, lock, nbytes, count, req, got, calls, recent>>

\* put takes the entry it replaces, if there is one, off the total.
PopExisting(t) ==
  /\ pc[t] = "pop"
  /\ LET k == req[t].key
     IN  /\ order' = RemoveFirst(order, k)
         /\ held' = [held EXCEPT ![k] = None]
         /\ nbytes' = nbytes - Size(held[k])
  /\ Goto(t, "insert")
  /\ UNCHANGED <<enabled, lock, count, req, got, calls, recent>>

\* put inserts its own entry last.
Insert(t) ==
  /\ pc[t] = "insert"
  /\ LET k == req[t].key
     IN  /\ order' = Append(order, k)
         /\ held' = [held EXCEPT ![k] = req[t].speech]
         /\ nbytes' = nbytes + Size(req[t].speech)
         /\ recent' = MoveToEnd(recent, k)
  /\ Goto(t, "fit")
  /\ UNCHANGED <<enabled, lock, count, req, got, calls>>

\* A bug to be caught: the coldest is moved to the end and not popped.
EvictByMoving(t) ==
  /\ pc[t] = "fit" /\ nbytes > MaxBytes /\ order # <<>>
  /\ order' = Append(Tail(order), Head(order))
  /\ UNCHANGED <<enabled, lock, held, nbytes, count, pc, req, got, calls, recent>>

\* One turn of the eviction loop.  popitem of an empty dict would raise.
EvictOne(t) ==
  /\ pc[t] = "fit"
  /\ nbytes > MaxBytes
  /\ order # <<>>
  /\ order' = Tail(order)
  /\ held' = [held EXCEPT ![Head(order)] = None]
  /\ nbytes' = nbytes - Size(held[Head(order)])
  /\ Count("evictions")
  /\ UNCHANGED <<enabled, lock, pc, req, got, calls, recent>>

\* A bug to be caught: put returns without looking at the total again.
FinishAnyway(t) ==
  /\ pc[t] = "fit"
  /\ Return(t)
  /\ UNCHANGED <<enabled, entries, count, req, got, calls, recent>>

\* The loop ends, and put with it.
FinishPut(t) ==
  /\ pc[t] = "fit"
  /\ nbytes <= MaxBytes
  /\ Return(t)
  /\ UNCHANGED <<enabled, entries, count, req, got, calls, recent>>

\* A bug to be caught: clear resets the numbers and keeps the entries.
WipeNumbers(t) ==
  /\ pc[t] = "wipe"
  /\ nbytes' = 0
  /\ count' = [c \in Counters |-> 0]
  /\ Return(t)
  /\ UNCHANGED <<enabled, order, held, req, got, calls, recent>>

\* The critical section of clear.
Wipe(t) ==
  /\ pc[t] = "wipe"
  /\ order' = <<>> /\ held' = [k \in Keys |-> None] /\ nbytes' = 0
  /\ count' = [c \in Counters |-> 0]
  /\ Return(t)
  /\ UNCHANGED <<enabled, req, got, calls, recent>>

Ask(t) ==
  \/ \E k \in Keys : CallGet(t, k)
  \/ \E k \in Keys, s \in Speech : CallPut(t, k, s)
  \/ CallClear(t)

Proceed(t) ==
  \/ Acquire(t)
  \/ Lookup(t)
  \/ PopExisting(t) \/ Insert(t) \/ EvictOne(t) \/ FinishPut(t)
  \/ Wipe(t)

\* Every call the exploration allows has returned.
Quiet ==
  /\ calls = MaxCalls
  /\ \A t \in Threads : pc[t] = "idle"
  /\ UNCHANGED vars

Next == (\E t \in Threads : Ask(t) \/ Proceed(t)) \/ Quiet

Spec == Init /\ [][Next]_vars

\* A thread that is inside a call is eventually scheduled.
FairSpec == Spec /\ \A t \in Threads : WF_vars(Proceed(t))

-----------------------------------------------------------------------------
Requests == [key : Keys \cup {None}, speech : Speech \cup {None}]

(***************************************************************************)
(* Every variable stays in its range; the running total of the bytes never *)
(* goes below zero.                                                        *)
(***************************************************************************)
TypeOK ==
  /\ enabled \in BOOLEAN
  /\ lock \in Threads \cup {None}
  /\ order \in Seq(Keys)
  /\ held \in [Keys -> Speech \cup {None}]
  /\ nbytes \in Nat
  /\ count \in [Counters -> Nat]
  /\ pc \in [Threads -> Labels]
  /\ req \in [Threads -> Requests]
  /\ got \in [Threads -> Speech \cup {None}]
  /\ calls \in 0..MaxCalls
  /\ recent \in Seq(Keys)

(***************************************************************************)
(* The total the eviction loop compares with the cap is the audio really   *)
(* held, at every statement: a replaced entry is taken off exactly once, a *)
(* popped one too, whichever threads are calling.                          *)
(***************************************************************************)
Accounting == nbytes = BytesIn(held)

(***************************************************************************)
(* Outside the critical section of a put the cache is within its cap, and  *)
(* inside it never exceeds the cap by more than the one entry being        *)
(* stored, which is what bounds the memory of the gateway.                 *)
(***************************************************************************)
WithinCap ==
  /\ lock = None => nbytes <= MaxBytes
  /\ nbytes <= MaxBytes + MaxBytes

(***************************************************************************)
(* The eviction loop always finds an entry to pop (popitem of an empty     *)
(* dict raises KeyError), and never pops the entry being stored: a reply   *)
(* accepted by put is in the cache when put returns.                       *)
(***************************************************************************)
EvictionSparesTheNewEntry ==
  \A t \in Threads : pc[t] = "fit" =>
    /\ held[req[t].key] = req[t].speech
    /\ nbytes > MaxBytes => order # <<>> /\ Head(order) # req[t].key

\* In the sequence q, x comes somewhere before y.
Before(q, x, y) == \E i, j \in 1..Len(q) : i < j /\ q[i] = x /\ q[j] = y

(***************************************************************************)
(* The eviction order is the order of last use: of two entries held, the   *)
(* one hit or stored longer ago is popped first, whatever was replaced,    *)
(* evicted or cleared in between and whoever did it.                       *)
(***************************************************************************)
ColdestFirst ==
  \A x, y \in Cached(held) : Before(order, x, y) <=> Before(recent, x, y)

(***************************************************************************)
(* The inductive invariant behind the four above.  The lock is held by the *)
(* thread inside and nobody else; the dict lists every key it holds once;  *)
(* no entry is longer than the cap; and each stage of a put knows what the *)
(* stages before it left behind.                                           *)
(***************************************************************************)
LockOwner == \A t \in Threads : pc[t] \in Inside <=> lock = t

DictInv ==
  /\ Distinct(order) /\ Distinct(recent)
  /\ ToSet(order) = Cached(held)
  /\ \A k \in Keys : held[k] # None => NBytes[held[k]] <= MaxBytes

CapInv ==
  /\ nbytes <= MaxBytes \/ \E t \in Threads : pc[t] = "fit"
  /\ nbytes <= MaxBytes + MaxBytes

Stage(t) ==
  /\ pc[t] \in {"get", "lookup"} => req[t].key \in Keys
  /\ pc[t] \in {"put", "pop", "insert", "fit"} =>
       /\ req[t].key \in Keys /\ req[t].speech \in Speech
       /\ NBytes[req[t].speech] <= MaxBytes
  /\ pc[t] = "insert" => held[req[t].key] = None
  /\ pc[t] = "fit" =>
       /\ held[req[t].key] = req[t].speech
       /\ order # <<>> /\ order[Len(order)] = req[t].key

CacheInv ==
  LockOwner /\ DictInv /\ Accounting /\ CapInv /\ \A t \in Threads : Stage(t)

(***************************************************************************)
(* A method that was called returns: no thread keeps the lock, and the     *)
(* eviction loop ends.                                                     *)
(***************************************************************************)
CallsReturn == \A t \in Threads : pc[t] # "idle" ~> pc[t] = "idle"

(***************************************************************************)
(* The calls of the threads are linearizable: the cache, its counters and  *)
(* the answers of the lookups change as if each call happened at one       *)
(* instant.  A put takes effect where it drops the entry it replaces; until *)
(* it returns, the cache it promises is the one its loop will leave behind. *)
(***************************************************************************)
Now ==
  [order |-> order, held |-> held,
   hits |-> count["hits"], misses |-> count["misses"],
   evictions |-> count["evictions"], rejections |-> count["rejections"]]

Storing == {t \in Threads : pc[t] \in {"insert", "fit"}}

Promised ==
  IF Storing = {} THEN Now
  ELSE LET own == req[CHOOSE t \in Storing : TRUE]
       IN  Shrunk(Stored(Now, own.key, own.speech))

Promise == INSTANCE SpeechCache WITH cache <- Promised

(***************************************************************************)
(* The locked code implements the atomic cache of module SpeechCache.      *)
(***************************************************************************)
Linearizable == Promise!Spec
=============================================================================
