-------------------------- MODULE SpeechCacheProofs --------------------------
(***************************************************************************)
(* What is proved of SpeechCacheThreads for every number of threads, keys, *)
(* replies, sizes and every cap: its invariants, and that it implements    *)
(* the atomic cache of SpeechCache.                                        *)
(***************************************************************************)
EXTENDS SpeechCacheThreads, SequenceFacts

-----------------------------------------------------------------------------
(***************************************************************************)
(* The audio of a cache of finitely many keys is a finite set.             *)
(***************************************************************************)
LEMMA AudioFinite ==
  ASSUME NEW h
  PROVE  IsFiniteSet(AudioOf(h)) /\ BytesIn(h) \in Nat
<1>1. IsFiniteSet(1..MaxBytes)
  BY FS_Interval, SpeechAssumption
<1>2. IsFiniteSet(Keys \X (1..MaxBytes))
  BY <1>1, FS_Product, SpeechAssumption
<1>3. AudioOf(h) \in SUBSET (Keys \X (1..MaxBytes))
  BY DEF AudioOf
<1>4. IsFiniteSet(AudioOf(h))
  BY <1>2, <1>3, FS_Subset
<1> QED
  BY <1>4, FS_CardinalityType DEF BytesIn

(***************************************************************************)
(* Storing a reply under a key that has none adds exactly its size.        *)
(***************************************************************************)
LEMMA BytesAdded ==
  ASSUME NEW h \in [Keys -> Speech \cup {None}],
         NEW k \in Keys, h[k] = None,
         NEW s \in Speech, NBytes[s] <= MaxBytes
  PROVE  BytesIn([h EXCEPT ![k] = s]) = BytesIn(h) + NBytes[s]
<1> DEFINE n == NBytes[s]
           own == {k} \X (1..n)
           g == [h EXCEPT ![k] = s]
<1>1. n \in Nat /\ MaxBytes \in Nat /\ n <= MaxBytes /\ s # None
  BY SpeechAssumption
<1>2. IsFiniteSet(1..n) /\ Cardinality(1..n) = n
  <2> HIDE DEF n
  <2>1. \A b \in Int : IsFiniteSet(1..b) /\ Cardinality(1..b) = IF 1 > b THEN 0 ELSE b - 1 + 1
    BY FS_Interval
  <2> QED
    BY <2>1, <1>1
<1>3. IsFiniteSet(own) /\ Cardinality(own) = n
  <2>1. IsFiniteSet({k}) /\ Cardinality({k}) = 1
    BY FS_Singleton
  <2>2. IsFiniteSet({k} \X (1..n)) /\ Cardinality({k} \X (1..n)) = 1 * n
    <3>1. /\ IsFiniteSet({k} \X (1..n))
          /\ Cardinality({k} \X (1..n)) = Cardinality({k}) * Cardinality(1..n)
      <4> HIDE DEF n
      <4> QED BY <2>1, <1>2, FS_Product, Zenon
    <3> QED BY <2>1, <1>2, <3>1
  <2> QED
    BY <2>2, <1>1
<1>4. AudioOf(g) = AudioOf(h) \cup own
  <2> SUFFICES ASSUME NEW x, NEW b
               PROVE  <<x, b>> \in AudioOf(g) <=> <<x, b>> \in AudioOf(h) \cup own
    BY DEF AudioOf
  <2>1. CASE x = k
    BY <2>1, <1>1 DEF AudioOf
  <2>2. CASE x # k
    BY <2>2 DEF AudioOf
  <2> QED
    BY <2>1, <2>2
<1>5. AudioOf(h) \cap own = {}
  BY DEF AudioOf
<1>6. Cardinality(AudioOf(h) \cap own) = 0
  BY <1>5, FS_EmptySet
<1>7. Cardinality(AudioOf(h) \cup own) = BytesIn(h) + n - 0
  BY <1>3, <1>6, AudioFinite, FS_Union DEF BytesIn
<1>8. BytesIn(g) = BytesIn(h) + n
  <2> HIDE DEF n, own, g
  <2> QED BY <1>1, <1>4, <1>7, AudioFinite DEF BytesIn
<1> QED
  BY <1>8

(***************************************************************************)
(* Dropping the entry of a key, if it has one, takes off exactly its size. *)
(***************************************************************************)
LEMMA BytesRemoved ==
  ASSUME NEW h \in [Keys -> Speech \cup {None}],
         NEW k \in Keys, h[k] # None => NBytes[h[k]] <= MaxBytes
  PROVE  BytesIn([h EXCEPT ![k] = None]) = BytesIn(h) - Size(h[k])
<1> DEFINE g == [h EXCEPT ![k] = None]
<1>1. CASE h[k] = None
  <2>1. g = h /\ Size(h[k]) = 0
    BY <1>1 DEF Size
  <2>2. BytesIn(g) = BytesIn(h) /\ BytesIn(h) - 0 = BytesIn(h)
    <3> HIDE DEF g
    <3> QED BY <2>1, AudioFinite
  <2> QED
    BY <2>1, <2>2
<1>2. CASE h[k] # None
  <2>1. g \in [Keys -> Speech \cup {None}] /\ g[k] = None /\ h[k] \in Speech
    BY <1>2
  <2>2. [g EXCEPT ![k] = h[k]] = h
    OBVIOUS
  <2>3. BytesIn(h) = BytesIn(g) + NBytes[h[k]]
    <3> HIDE DEF g
    <3> QED BY <1>2, <2>1, <2>2, BytesAdded
  <2>4. NBytes[h[k]] \in Nat /\ Size(h[k]) = NBytes[h[k]]
    BY <1>2, <2>1, SpeechAssumption DEF Size
  <2> QED
    BY <2>3, <2>4, AudioFinite
<1> QED
  BY <1>1, <1>2

(***************************************************************************)
(* A cache without entries holds no audio.                                 *)
(***************************************************************************)
LEMMA BytesOfNothing ==
  ASSUME NEW h, \A k \in Keys : h[k] = None
  PROVE  BytesIn(h) = 0
<1>1. AudioOf(h) = {}
  BY DEF AudioOf
<1> QED
  BY <1>1, FS_EmptySet DEF BytesIn

(***************************************************************************)
(* A cache whose only entry is that of k holds the audio of that entry.    *)
(***************************************************************************)
LEMMA BytesOfOne ==
  ASSUME NEW h \in [Keys -> Speech \cup {None}],
         NEW k \in Keys, h[k] # None, NBytes[h[k]] <= MaxBytes,
         \A x \in Keys : h[x] # None => x = k
  PROVE  BytesIn(h) = NBytes[h[k]]
<1> DEFINE g == [h EXCEPT ![k] = None]
<1>1. BytesIn(g) = BytesIn(h) - Size(h[k])
  BY BytesRemoved
<1>2. BytesIn(g) = 0
  BY BytesOfNothing
<1>3. Size(h[k]) = NBytes[h[k]] /\ NBytes[h[k]] \in Nat /\ BytesIn(h) \in Nat
  BY SpeechAssumption, AudioFinite DEF Size
<1> QED
  BY <1>1, <1>2, <1>3

(***************************************************************************)
(* What the operations of an OrderedDict do to its keys.                   *)
(***************************************************************************)
LEMMA KeyRemoved ==
  ASSUME NEW q \in Seq(Keys), NEW k, Distinct(q)
  PROVE  LET r == RemoveFirst(q, k)
         IN  r \in Seq(Keys) /\ Distinct(r) /\ ToSet(r) = ToSet(q) \ {k}
BY RemoveFirstProperties DEF Distinct, NoRepeats

LEMMA KeyAdded ==
  ASSUME NEW q \in Seq(Keys), NEW k \in Keys, Distinct(q), k \notin ToSet(q)
  PROVE  LET r == Append(q, k)
         IN  /\ r \in Seq(Keys) /\ Distinct(r) /\ ToSet(r) = ToSet(q) \cup {k}
             /\ r # <<>> /\ r[Len(r)] = k
BY AppendDistinct DEF Distinct, NoRepeats

LEMMA KeyPopped ==
  ASSUME NEW q \in Seq(Keys), Distinct(q), q # <<>>
  PROVE  /\ Tail(q) \in Seq(Keys) /\ Distinct(Tail(q)) /\ Head(q) \in Keys
         /\ ToSet(Tail(q)) = ToSet(q) \ {Head(q)}
         /\ Len(q) # 1 => Tail(q) # <<>> /\ Tail(q)[Len(Tail(q))] = q[Len(q)]
         /\ Len(q) = 1 => ToSet(q) = {q[1]}
         /\ Len(q) # 1 => Head(q) # q[Len(q)]
BY TailDistinct DEF Distinct, NoRepeats

LEMMA KeyMoved ==
  ASSUME NEW q \in Seq(Keys), NEW k \in Keys, Distinct(q)
  PROVE  LET r == MoveToEnd(q, k)
         IN  r \in Seq(Keys) /\ Distinct(r) /\ ToSet(r) = ToSet(q) \cup {k}
BY MoveToEndProperties DEF Distinct, NoRepeats, MoveToEnd

(***************************************************************************)
(* How many entries an eviction pops is a number, at most all of them: a   *)
(* cache without entries holds no audio.                                   *)
(***************************************************************************)
LEMMA ExcessType ==
  ASSUME NEW q \in Seq(Keys), NEW h
  PROVE  Excess(q, h) \in 0..Len(q)
<1> DEFINE N == {n \in 0..Len(q) : BytesIn(Only(h, Newest(q, n))) > MaxBytes}
<1>1. Len(q) \in Nat
  BY LenProperties
<1>2. Len(q) \notin N
  <2>1. Newest(q, Len(q)) = <<>>
    <3>1. SubSeq(q, Len(q) + 1, Len(q)) = <<>>
      BY <1>1, SubSeqEmpty
    <3> QED
      BY <3>1 DEF Newest
  <2>2. \A k \in Keys : Only(h, Newest(q, Len(q)))[k] = None
    BY <2>1 DEF Only, ToSet
  <2>3. AudioOf(Only(h, Newest(q, Len(q)))) = {}
    BY <2>2 DEF AudioOf
  <2>4. BytesIn(Only(h, Newest(q, Len(q)))) = 0
    BY <2>3, FS_EmptySet DEF BytesIn
  <2> QED
    BY <2>4, SpeechAssumption
<1>3. N \in SUBSET (0..Len(q))
  OBVIOUS
<1> HIDE DEF N
<1> QED
  BY <1>1, <1>2, <1>3, CountBelow DEF Excess, N

-----------------------------------------------------------------------------
Inv == TypeOK /\ CacheInv

(***************************************************************************)
(* An empty cache satisfies the invariant.                                 *)
(***************************************************************************)
LEMMA InitInv == Init => Inv
<1> SUFFICES ASSUME Init PROVE Inv
  OBVIOUS
<1>1. TypeOK
  BY SpeechAssumption, ThreadsAssumption
     DEF Init, TypeOK, Requests, Counters, Labels
<1>2. BytesIn(held) = 0
  BY BytesOfNothing DEF Init
<1>3. DictInv
  BY DEF Init, DictInv, Distinct, ToSet, Cached
<1>4. LockOwner /\ CapInv /\ \A t \in Threads : Stage(t)
  BY SpeechAssumption, ThreadsAssumption DEF Init, LockOwner, CapInv, Stage, Inside
<1> QED
  BY <1>1, <1>2, <1>3, <1>4 DEF Inv, CacheInv, Accounting, Init

(***************************************************************************)
(* At most one thread is inside a critical section.                        *)
(***************************************************************************)
LEMMA OneInside ==
  ASSUME LockOwner, NEW t \in Threads, pc[t] \in Inside
  PROVE  lock = t /\ \A u \in Threads : u # t => pc[u] \notin Inside
BY DEF LockOwner

(***************************************************************************)
(* A new call touches neither the cache nor the lock.                      *)
(***************************************************************************)
LEMMA AskInv ==
  ASSUME Inv, NEW t \in Threads, Ask(t)
  PROVE  Inv'
<1>1. /\ UNCHANGED <<enabled, lock, order, held, nbytes, recent>>
      /\ calls' \in 0..MaxCalls
      /\ got' \in [Threads -> Speech \cup {None}]
      /\ count' \in [Counters -> Nat]
  <2>1. UNCHANGED <<enabled, lock, order, held, nbytes, recent>>
    BY DEF Ask, CallGet, CallPut, CallClear, Call, entries
  <2>2. calls' \in 0..MaxCalls
    <3>1. calls < MaxCalls /\ calls' = calls + 1
      BY DEF Ask, CallGet, CallPut, CallClear, Call
    <3> QED
      BY <3>1, ThreadsAssumption DEF Inv, TypeOK
  <2>3. got' \in [Threads -> Speech \cup {None}]
    <3>1. got' = got \/ got' = [got EXCEPT ![t] = None]
      BY DEF Ask, CallGet, CallPut, CallClear
    <3> QED
      BY <3>1 DEF Inv, TypeOK
  <2>4. count' \in [Counters -> Nat]
    <3>1. count' = count \/ count' = [count EXCEPT !["rejections"] = @ + 1]
      BY DEF Ask, CallGet, CallPut, CallClear, Count
    <3> QED
      BY <3>1 DEF Inv, TypeOK, Counters
  <2> QED
    BY <2>1, <2>2, <2>3, <2>4
<1>2. PICK k \in Keys \cup {None}, s \in Speech \cup {None}, label \in Labels :
        /\ pc[t] = "idle"
        /\ pc' = [pc EXCEPT ![t] = label]
        /\ req' = [req EXCEPT ![t] = [key |-> k, speech |-> s]]
        /\ label \in {"idle", "get", "put", "clear"}
        /\ label = "get" => k \in Keys
        /\ label = "put" => k \in Keys /\ s \in Speech /\ NBytes[s] <= MaxBytes
  BY DEF Ask, CallGet, CallPut, CallClear, Call, Goto, Labels
<1>3. TypeOK'
  BY <1>1, <1>2 DEF Inv, TypeOK, Requests
<1>4. LockOwner'
  BY <1>1, <1>2 DEF Inv, TypeOK, CacheInv, LockOwner, Inside
<1>5. DictInv' /\ Accounting'
  BY <1>1 DEF Inv, CacheInv, DictInv, Accounting, Cached
<1>6. CapInv'
  BY <1>1, <1>2 DEF Inv, TypeOK, CacheInv, CapInv
<1>7. ASSUME NEW u \in Threads PROVE Stage(u)'
  BY <1>1, <1>2 DEF Inv, TypeOK, CacheInv, Stage
<1> QED
  BY <1>3, <1>4, <1>5, <1>6, <1>7 DEF Inv, CacheInv

(***************************************************************************)
(* Entering a critical section changes nothing but who is inside.          *)
(***************************************************************************)
LEMMA AcquireInv ==
  ASSUME Inv, NEW t \in Threads, Acquire(t)
  PROVE  Inv'
<1>1. UNCHANGED <<enabled, order, held, nbytes, count, req, got, calls, recent>>
  BY DEF Acquire, entries
<1>2. /\ lock = None /\ lock' = t
      /\ \/ pc[t] = "get" /\ pc' = [pc EXCEPT ![t] = "lookup"]
         \/ pc[t] = "put" /\ pc' = [pc EXCEPT ![t] = "pop"]
         \/ pc[t] = "clear" /\ pc' = [pc EXCEPT ![t] = "wipe"]
  BY DEF Acquire, Goto
<1>3. TypeOK'
  BY <1>1, <1>2 DEF Inv, TypeOK, Labels
<1>4. LockOwner'
  BY <1>2, ThreadsAssumption DEF Inv, TypeOK, CacheInv, LockOwner, Inside
<1>5. DictInv' /\ Accounting'
  BY <1>1 DEF Inv, CacheInv, DictInv, Accounting, Cached
<1>6. CapInv'
  BY <1>1, <1>2 DEF Inv, TypeOK, CacheInv, CapInv
<1>7. ASSUME NEW u \in Threads PROVE Stage(u)'
  BY <1>1, <1>2 DEF Inv, TypeOK, CacheInv, Stage
<1> QED
  BY <1>3, <1>4, <1>5, <1>6, <1>7 DEF Inv, CacheInv

(***************************************************************************)
(* A lookup reorders the keys at most.                                     *)
(***************************************************************************)
LEMMA LookupInv ==
  ASSUME Inv, NEW t \in Threads, Lookup(t)
  PROVE  Inv'
<1> DEFINE k == req[t].key
<1>1. /\ UNCHANGED <<enabled, held, nbytes, req, calls>>
      /\ pc[t] = "lookup" /\ pc' = [pc EXCEPT ![t] = "idle"] /\ lock' = None
      /\ got' = [got EXCEPT ![t] = held[k]]
  BY DEF Lookup, Return, Goto
<1>2. k \in Keys
  BY <1>1 DEF Inv, CacheInv, Stage
<1>3. count' \in [Counters -> Nat]
  BY DEF Inv, TypeOK, Lookup, Count, Counters
<1>4. \A u \in Threads : u # t => pc[u] \notin Inside
  BY <1>1, OneInside DEF Inv, CacheInv, Inside
<1>5. /\ order' \in Seq(Keys) /\ Distinct(order') /\ ToSet(order') = ToSet(order)
      /\ recent' \in Seq(Keys) /\ Distinct(recent')
  <2>1. CASE held[k] = None
    BY <2>1 DEF Lookup, Inv, TypeOK, CacheInv, DictInv
  <2>2. CASE held[k] # None
    <3>1. order' = MoveToEnd(order, k) /\ recent' = MoveToEnd(recent, k)
      BY <2>2 DEF Lookup
    <3>2. k \in ToSet(order)
      BY <1>2, <2>2 DEF Inv, CacheInv, DictInv, Cached
    <3>3. /\ order \in Seq(Keys) /\ Distinct(order)
          /\ recent \in Seq(Keys) /\ Distinct(recent)
      BY DEF Inv, TypeOK, CacheInv, DictInv
    <3> HIDE DEF k
    <3>4. /\ order' \in Seq(Keys) /\ Distinct(order')
          /\ ToSet(order') = ToSet(order) \cup {k}
      BY <1>2, <3>1, <3>3, KeyMoved, Zenon
    <3>5. recent' \in Seq(Keys) /\ Distinct(recent')
      BY <1>2, <3>1, <3>3, KeyMoved, Zenon
    <3> QED
      BY <3>2, <3>4, <3>5
  <2> QED
    BY <2>1, <2>2
<1>6. TypeOK'
  BY <1>1, <1>2, <1>3, <1>5, ThreadsAssumption DEF Inv, TypeOK, Labels
<1>7. LockOwner'
  BY <1>1, <1>4, ThreadsAssumption DEF Inv, TypeOK, LockOwner, Inside
<1>8. DictInv' /\ Accounting'
  BY <1>1, <1>5 DEF Inv, CacheInv, DictInv, Accounting, Cached
<1>9. CapInv'
  BY <1>1, <1>4 DEF Inv, TypeOK, CacheInv, CapInv, Inside
<1>10. ASSUME NEW u \in Threads PROVE Stage(u)'
  BY <1>1, <1>4 DEF Inv, TypeOK, CacheInv, Stage, Inside
<1> QED
  BY <1>6, <1>7, <1>8, <1>9, <1>10 DEF Inv, CacheInv

(***************************************************************************)
(* Dropping the entry to be replaced takes exactly its bytes off.          *)
(***************************************************************************)
LEMMA PopExistingInv ==
  ASSUME Inv, NEW t \in Threads, PopExisting(t)
  PROVE  Inv'
<1> DEFINE k == req[t].key
<1>1. /\ UNCHANGED <<enabled, lock, count, req, got, calls, recent>>
      /\ pc[t] = "pop" /\ pc' = [pc EXCEPT ![t] = "insert"]
      /\ order' = RemoveFirst(order, k)
      /\ held' = [held EXCEPT ![k] = None]
      /\ nbytes' = nbytes - Size(held[k])
  BY DEF PopExisting, Goto
<1>2. k \in Keys
  BY <1>1 DEF Inv, CacheInv, Stage
<1>3. \A u \in Threads : u # t => pc[u] \notin Inside
  BY <1>1, OneInside DEF Inv, CacheInv, Inside
<1>4. nbytes' = BytesIn(held') /\ nbytes' \in Nat /\ nbytes' <= nbytes
  <2>1. /\ held \in [Keys -> Speech \cup {None}]
        /\ held[k] # None => NBytes[held[k]] <= MaxBytes
    BY <1>2 DEF Inv, TypeOK, CacheInv, DictInv
  <2>2. BytesIn([held EXCEPT ![k] = None]) = BytesIn(held) - Size(held[k])
    <3> HIDE DEF k
    <3> QED BY <1>2, <2>1, BytesRemoved
  <2>3. nbytes = BytesIn(held) /\ nbytes \in Nat
    BY DEF Inv, TypeOK, CacheInv, Accounting
  <2>4. Size(held[k]) \in Nat
    BY <1>2, <2>1, SpeechAssumption DEF Size
  <2>5. nbytes' = BytesIn(held') /\ BytesIn(held') \in Nat
    <3> HIDE DEF k
    <3> QED BY <1>1, <2>2, <2>3, AudioFinite
  <2> QED
    BY <1>1, <2>3, <2>4, <2>5
<1>5. order' \in Seq(Keys) /\ Distinct(order') /\ ToSet(order') = ToSet(order) \ {k}
  <2>1. order \in Seq(Keys) /\ Distinct(order)
    BY DEF Inv, TypeOK, CacheInv, DictInv
  <2> HIDE DEF k
  <2> QED
    BY <1>1, <2>1, KeyRemoved, Zenon
<1>6. TypeOK'
  BY <1>1, <1>2, <1>4, <1>5 DEF Inv, TypeOK, Labels
<1>7. LockOwner'
  BY <1>1 DEF Inv, TypeOK, CacheInv, LockOwner, Inside
<1>8. DictInv'
  <2>1. ToSet(order') = Cached(held')
    BY <1>1, <1>2, <1>5 DEF Inv, TypeOK, CacheInv, DictInv, Cached
  <2>2. \A x \in Keys : held'[x] # None => NBytes[held'[x]] <= MaxBytes
    BY <1>1, <1>2 DEF Inv, TypeOK, CacheInv, DictInv
  <2> QED
    BY <1>1, <1>5, <2>1, <2>2 DEF Inv, CacheInv, DictInv
<1>9. CapInv'
  <2>1. nbytes <= MaxBytes
    BY <1>1, <1>3 DEF Inv, CacheInv, CapInv, Inside
  <2> QED
    BY <1>4, <2>1, SpeechAssumption DEF Inv, TypeOK, CapInv
<1>10. ASSUME NEW u \in Threads PROVE Stage(u)'
  <2>1. CASE u = t
    BY <1>1, <1>2, <2>1 DEF Inv, TypeOK, CacheInv, Stage
  <2>2. CASE u # t
    BY <1>1, <1>3, <2>2 DEF Inv, TypeOK, CacheInv, Stage, Inside
  <2> QED
    BY <2>1, <2>2
<1> QED
  BY <1>4, <1>6, <1>7, <1>8, <1>9, <1>10 DEF Inv, CacheInv, Accounting

(***************************************************************************)
(* Inserting the new entry adds exactly its bytes, at most MaxBytes.       *)
(***************************************************************************)
LEMMA InsertInv ==
  ASSUME Inv, NEW t \in Threads, Insert(t)
  PROVE  Inv'
<1> DEFINE k == req[t].key
           s == req[t].speech
<1>1. /\ UNCHANGED <<enabled, lock, count, req, got, calls>>
      /\ pc[t] = "insert" /\ pc' = [pc EXCEPT ![t] = "fit"]
      /\ order' = Append(order, k) /\ recent' = MoveToEnd(recent, k)
      /\ held' = [held EXCEPT ![k] = s]
      /\ nbytes' = nbytes + Size(s)
  BY DEF Insert, Goto
<1>2. k \in Keys /\ s \in Speech /\ NBytes[s] <= MaxBytes /\ held[k] = None
  BY <1>1 DEF Inv, CacheInv, Stage
<1>3. \A u \in Threads : u # t => pc[u] \notin Inside
  BY <1>1, OneInside DEF Inv, CacheInv, Inside
<1>4. /\ held \in [Keys -> Speech \cup {None}]
      /\ order \in Seq(Keys) /\ Distinct(order) /\ ToSet(order) = Cached(held)
      /\ recent \in Seq(Keys) /\ Distinct(recent)
      /\ nbytes = BytesIn(held) /\ nbytes \in Nat
      /\ nbytes <= MaxBytes
  BY <1>1, <1>3 DEF Inv, TypeOK, CacheInv, DictInv, Accounting, CapInv, Inside
<1>5. Size(s) = NBytes[s] /\ NBytes[s] \in Nat /\ MaxBytes \in Nat /\ s # None
  BY <1>2, SpeechAssumption DEF Size
<1>6. nbytes' = BytesIn(held') /\ nbytes' \in Nat /\ nbytes' <= MaxBytes + MaxBytes
  <2>1. BytesIn([held EXCEPT ![k] = s]) = BytesIn(held) + NBytes[s]
    <3> HIDE DEF k, s
    <3> QED BY <1>2, <1>4, BytesAdded
  <2>2. nbytes' = BytesIn(held')
    <3> HIDE DEF k, s
    <3> QED BY <1>1, <1>4, <1>5, <2>1
  <2>3. nbytes' \in Nat /\ nbytes' <= MaxBytes + MaxBytes
    <3> HIDE DEF k, s
    <3> QED BY <1>1, <1>2, <1>4, <1>5
  <2> QED
    BY <2>2, <2>3
<1>7. /\ order' \in Seq(Keys) /\ Distinct(order') /\ ToSet(order') = ToSet(order) \cup {k}
      /\ order' # <<>> /\ order'[Len(order')] = k
  <2>1. k \notin ToSet(order)
    BY <1>2, <1>4 DEF Cached
  <2> HIDE DEF k, s
  <2> QED
    BY <1>1, <1>2, <1>4, <2>1, KeyAdded, Zenon
<1>8. recent' \in Seq(Keys) /\ Distinct(recent')
  <2> HIDE DEF k, s
  <2> QED
    BY <1>1, <1>2, <1>4, KeyMoved, Zenon
<1>9. TypeOK'
  BY <1>1, <1>2, <1>6, <1>7, <1>8 DEF Inv, TypeOK, Labels
<1>10. LockOwner'
  BY <1>1 DEF Inv, TypeOK, CacheInv, LockOwner, Inside
<1>11. DictInv'
  <2>1. ToSet(order') = Cached(held')
    BY <1>1, <1>2, <1>4, <1>5, <1>7 DEF Cached
  <2>2. \A x \in Keys : held'[x] # None => NBytes[held'[x]] <= MaxBytes
    BY <1>1, <1>2, <1>4 DEF Inv, CacheInv, DictInv
  <2> QED
    BY <1>7, <1>8, <2>1, <2>2 DEF DictInv
<1>12. CapInv'
  BY <1>1, <1>6 DEF Inv, TypeOK, CapInv
<1>13. ASSUME NEW u \in Threads PROVE Stage(u)'
  <2>1. CASE u = t
    BY <1>1, <1>2, <1>4, <1>7, <2>1 DEF Inv, TypeOK, CacheInv, Stage
  <2>2. CASE u # t
    BY <1>1, <1>3, <2>2 DEF Inv, TypeOK, CacheInv, Stage, Inside
  <2> QED
    BY <2>1, <2>2
<1> QED
  BY <1>6, <1>9, <1>10, <1>11, <1>12, <1>13 DEF Inv, CacheInv, Accounting

(***************************************************************************)
(* While the cache is over its cap, the coldest entry is not the one being *)
(* stored: if that were the only one, its size alone would fit.            *)
(***************************************************************************)
LEMMA ColdestIsAnother ==
  ASSUME Inv, NEW t \in Threads, pc[t] = "fit", nbytes > MaxBytes
  PROVE  order # <<>> /\ Len(order) # 1 /\ Head(order) # req[t].key
<1> DEFINE k == req[t].key
<1>1. /\ k \in Keys /\ held[k] \in Speech /\ NBytes[held[k]] <= MaxBytes
      /\ order # <<>> /\ order[Len(order)] = k
  BY DEF Inv, CacheInv, Stage
<1>2. /\ order \in Seq(Keys) /\ Distinct(order) /\ ToSet(order) = Cached(held)
      /\ held \in [Keys -> Speech \cup {None}]
      /\ nbytes = BytesIn(held)
  BY DEF Inv, TypeOK, CacheInv, DictInv, Accounting
<1>3. Len(order) # 1
  <2> SUFFICES ASSUME Len(order) = 1 PROVE FALSE
    OBVIOUS
  <2>1. Cached(held) = {k}
    BY <1>1, <1>2, KeyPopped
  <2>2. \A x \in Keys : held[x] # None => x = k
    BY <2>1 DEF Cached
  <2>3. BytesIn(held) = NBytes[held[k]]
    <3>1. held[k] # None
      BY <1>1, SpeechAssumption
    <3> HIDE DEF k
    <3> QED BY <1>1, <1>2, <2>2, <3>1, BytesOfOne
  <2>4. NBytes[held[k]] \in Nat
    BY <1>1, SpeechAssumption
  <2> QED
    BY <1>1, <1>2, <2>3, <2>4, SpeechAssumption
<1> QED
  BY <1>1, <1>2, <1>3, KeyPopped

(***************************************************************************)
(* Popping the coldest entry takes exactly its bytes off.                  *)
(***************************************************************************)
LEMMA EvictOneInv ==
  ASSUME Inv, NEW t \in Threads, EvictOne(t)
  PROVE  Inv'
<1> DEFINE k == req[t].key
           h == Head(order)
<1>1. /\ UNCHANGED <<enabled, lock, pc, req, got, calls, recent>>
      /\ pc[t] = "fit" /\ nbytes > MaxBytes /\ order # <<>>
      /\ order' = Tail(order)
      /\ held' = [held EXCEPT ![h] = None]
      /\ nbytes' = nbytes - Size(held[h])
      /\ count' = [count EXCEPT !["evictions"] = @ + 1]
  BY DEF EvictOne, Count
<1>2. /\ order \in Seq(Keys) /\ Distinct(order) /\ ToSet(order) = Cached(held)
      /\ held \in [Keys -> Speech \cup {None}]
      /\ nbytes = BytesIn(held) /\ nbytes \in Nat /\ nbytes <= MaxBytes + MaxBytes
      /\ order[Len(order)] = k /\ held[k] = req[t].speech
  BY <1>1 DEF Inv, TypeOK, CacheInv, DictInv, Accounting, CapInv, Stage
<1>3. Len(order) # 1 /\ h # k
  BY <1>1, ColdestIsAnother
<1>4. /\ order' \in Seq(Keys) /\ Distinct(order') /\ h \in Keys
      /\ ToSet(order') = ToSet(order) \ {h}
      /\ order' # <<>> /\ order'[Len(order')] = k
  BY <1>1, <1>2, <1>3, KeyPopped
<1>5. \A u \in Threads : u # t => pc[u] \notin Inside
  BY <1>1, OneInside DEF Inv, CacheInv, Inside
<1> HIDE DEF h, k
<1>6. nbytes' = BytesIn(held') /\ nbytes' \in Nat /\ nbytes' <= nbytes
  <2>1. held[h] # None => NBytes[held[h]] <= MaxBytes
    BY <1>4 DEF Inv, CacheInv, DictInv
  <2>2. BytesIn(held') = nbytes - Size(held[h])
    BY <1>1, <1>2, <1>4, <2>1, BytesRemoved
  <2>3. Size(held[h]) \in Nat
    BY <1>2, <1>4, SpeechAssumption DEF Size
  <2>4. BytesIn(held') \in Nat
    BY AudioFinite
  <2> QED
    BY <1>1, <1>2, <2>2, <2>3, <2>4
<1>7. TypeOK'
  <2>1. count' \in [Counters -> Nat]
    BY <1>1 DEF Inv, TypeOK, Counters
  <2> QED
    BY <1>1, <1>4, <1>6, <2>1 DEF Inv, TypeOK
<1>8. LockOwner'
  BY <1>1 DEF Inv, CacheInv, LockOwner
<1>9. DictInv'
  <2>1. ToSet(order') = Cached(held')
    BY <1>1, <1>2, <1>4 DEF Cached
  <2>2. \A x \in Keys : held'[x] # None => NBytes[held'[x]] <= MaxBytes
    BY <1>1, <1>2, <1>4 DEF Inv, CacheInv, DictInv
  <2> QED
    BY <1>1, <1>4, <2>1, <2>2 DEF Inv, CacheInv, DictInv
<1>10. CapInv'
  BY <1>1, <1>2, <1>6, SpeechAssumption DEF CapInv
<1>11. ASSUME NEW u \in Threads PROVE Stage(u)'
  <2>1. CASE u = t
    BY <1>1, <1>2, <1>3, <1>4, <2>1 DEF Inv, CacheInv, Stage, k
  <2>2. CASE u # t
    BY <1>1, <1>5, <2>2 DEF Inv, CacheInv, Stage, Inside
  <2> QED
    BY <2>1, <2>2
<1> QED
  BY <1>6, <1>7, <1>8, <1>9, <1>10, <1>11 DEF Inv, CacheInv, Accounting

(***************************************************************************)
(* The loop of put ends with the cache within its cap.                     *)
(***************************************************************************)
LEMMA FinishPutInv ==
  ASSUME Inv, NEW t \in Threads, FinishPut(t)
  PROVE  Inv'
<1>1. /\ UNCHANGED <<enabled, order, held, nbytes, count, req, got, calls, recent>>
      /\ pc[t] = "fit" /\ nbytes <= MaxBytes
      /\ pc' = [pc EXCEPT ![t] = "idle"] /\ lock' = None
  BY DEF FinishPut, Return, Goto, entries
<1>2. \A u \in Threads : u # t => pc[u] \notin Inside
  BY <1>1, OneInside DEF Inv, CacheInv, Inside
<1>3. TypeOK'
  BY <1>1 DEF Inv, TypeOK, Labels
<1>4. LockOwner'
  BY <1>1, <1>2, ThreadsAssumption DEF Inv, TypeOK, LockOwner, Inside
<1>5. DictInv' /\ Accounting'
  BY <1>1 DEF Inv, CacheInv, DictInv, Accounting, Cached
<1>6. CapInv'
  BY <1>1, SpeechAssumption DEF Inv, TypeOK, CapInv
<1>7. ASSUME NEW u \in Threads PROVE Stage(u)'
  BY <1>1, <1>2 DEF Inv, TypeOK, CacheInv, Stage, Inside
<1> QED
  BY <1>3, <1>4, <1>5, <1>6, <1>7 DEF Inv, CacheInv

(***************************************************************************)
(* clear leaves an empty cache, whatever it finds.                         *)
(***************************************************************************)
LEMMA WipeInv ==
  ASSUME Inv, NEW t \in Threads, Wipe(t)
  PROVE  Inv'
<1>1. /\ UNCHANGED <<enabled, req, got, calls, recent>>
      /\ order' = <<>> /\ held' = [k \in Keys |-> None] /\ nbytes' = 0
      /\ count' = [c \in Counters |-> 0]
      /\ pc[t] = "wipe" /\ pc' = [pc EXCEPT ![t] = "idle"] /\ lock' = None
  BY DEF Wipe, Return, Goto
<1>2. \A u \in Threads : u # t => pc[u] \notin Inside
  BY <1>1, OneInside DEF Inv, CacheInv, Inside
<1>3. TypeOK'
  BY <1>1 DEF Inv, TypeOK, Labels
<1>4. LockOwner'
  BY <1>1, <1>2, ThreadsAssumption DEF Inv, TypeOK, LockOwner, Inside
<1>5. DictInv'
  BY <1>1 DEF Inv, CacheInv, DictInv, Distinct, ToSet, Cached
<1>6. BytesIn(held') = 0
  BY <1>1, BytesOfNothing
<1>7. CapInv'
  BY <1>1, SpeechAssumption DEF CapInv
<1>8. ASSUME NEW u \in Threads PROVE Stage(u)'
  BY <1>1, <1>2 DEF Inv, TypeOK, CacheInv, Stage, Inside
<1> QED
  BY <1>1, <1>3, <1>4, <1>5, <1>6, <1>7, <1>8 DEF Inv, CacheInv, Accounting

(***************************************************************************)
(* Every step of every thread preserves the invariant.                     *)
(***************************************************************************)
LEMMA NextInv == Inv /\ [Next]_vars => Inv'
<1> SUFFICES ASSUME Inv, [Next]_vars PROVE Inv'
  OBVIOUS
<1>1. CASE UNCHANGED vars
  BY <1>1 DEF vars, Inv, TypeOK, CacheInv, LockOwner, DictInv, Accounting, CapInv,
              Stage, Cached
<1>2. ASSUME NEW t \in Threads, Ask(t) PROVE Inv'
  BY <1>2, AskInv
<1>3. ASSUME NEW t \in Threads, Proceed(t) PROVE Inv'
  BY <1>3, AcquireInv, LookupInv, PopExistingInv, InsertInv, EvictOneInv,
     FinishPutInv, WipeInv DEF Proceed
<1> QED
  BY <1>1, <1>2, <1>3 DEF Next, Quiet

(***************************************************************************)
(* Type correctness of the locked cache, in every reachable state.         *)
(***************************************************************************)
THEOREM CacheTypeCorrect == Spec => []TypeOK
<1>1. Inv => TypeOK
  BY DEF Inv
<1> QED
  BY InitInv, NextInv, <1>1, PTL DEF Spec

(***************************************************************************)
(* The running total is always the audio held: no interleaving of calls    *)
(* makes the eviction loop work with a wrong number.                       *)
(***************************************************************************)
THEOREM TotalIsExact == Spec => []Accounting
<1>1. Inv => Accounting
  BY DEF Inv, CacheInv
<1> QED
  BY InitInv, NextInv, <1>1, PTL DEF Spec

(***************************************************************************)
(* The cache never holds more than its cap between calls, nor more than    *)
(* twice its cap inside one.                                               *)
(***************************************************************************)
THEOREM CapHolds == Spec => []WithinCap
<1>1. Inv => WithinCap
  <2> SUFFICES ASSUME Inv PROVE WithinCap
    OBVIOUS
  <2>1. CASE lock = None
    <3>1. \A t \in Threads : pc[t] # "fit"
      BY <2>1, ThreadsAssumption DEF Inv, CacheInv, LockOwner, Inside
    <3> QED
      BY <3>1 DEF Inv, CacheInv, CapInv, WithinCap
  <2>2. CASE lock # None
    BY <2>2 DEF Inv, CacheInv, CapInv, WithinCap
  <2> QED
    BY <2>1, <2>2
<1> QED
  BY InitInv, NextInv, <1>1, PTL DEF Spec

(***************************************************************************)
(* A put neither pops from an empty dict nor evicts its own entry, so an   *)
(* accepted reply is cached when put returns.                              *)
(***************************************************************************)
THEOREM NewEntrySpared == Spec => []EvictionSparesTheNewEntry
<1>1. Inv => EvictionSparesTheNewEntry
  <2> SUFFICES ASSUME Inv, NEW t \in Threads, pc[t] = "fit"
               PROVE  /\ held[req[t].key] = req[t].speech
                      /\ nbytes > MaxBytes => order # <<>> /\ Head(order) # req[t].key
    BY DEF EvictionSparesTheNewEntry
  <2>1. held[req[t].key] = req[t].speech
    BY DEF Inv, CacheInv, Stage
  <2> QED
    BY <2>1, ColdestIsAnother
<1> QED
  BY InitInv, NextInv, <1>1, PTL DEF Spec

-----------------------------------------------------------------------------
(***************************************************************************)
(* Removing a key leaves the others in their order.                        *)
(***************************************************************************)
LEMMA BeforeRemove ==
  ASSUME NEW q \in Seq(Keys), Distinct(q), NEW k, NEW x, NEW y, x # k, y # k
  PROVE  Before(RemoveFirst(q, k), x, y) <=> Before(q, x, y)
<1> DEFINE r == RemoveFirst(q, k)
<1>1. CASE ~ \E i \in 1..Len(q) : q[i] = k
  BY <1>1 DEF RemoveFirst
<1>2. CASE \E i \in 1..Len(q) : q[i] = k
  <2>1. PICK p \in 1..Len(q) : q[p] = k
    BY <1>2
  <2>2. /\ Len(r) = Len(q) - 1 /\ Len(q) \in Nat
        /\ \A i \in 1..Len(r) : r[i] = IF i < p THEN q[i] ELSE q[i + 1]
    BY <2>1, RemoveFirstShape DEF Distinct, NoRepeats
  <2> HIDE DEF r
  <2>3. ASSUME Before(r, x, y) PROVE Before(q, x, y)
    <3>1. PICK i \in 1..Len(r), j \in 1..Len(r) : i < j /\ r[i] = x /\ r[j] = y
      BY <2>3 DEF Before
    <3> DEFINE at(m) == IF m < p THEN m ELSE m + 1
    <3>2. /\ at(i) \in 1..Len(q) /\ at(j) \in 1..Len(q) /\ at(i) < at(j)
          /\ q[at(i)] = x /\ q[at(j)] = y
      <4>1. at(i) \in 1..Len(q) /\ at(j) \in 1..Len(q) /\ at(i) < at(j)
        BY <2>1, <2>2, <3>1
      <4>2. q[at(i)] = x
        BY <2>1, <2>2, <3>1
      <4>3. q[at(j)] = y
        BY <2>1, <2>2, <3>1
      <4> QED
        BY <4>1, <4>2, <4>3
    <3> QED
      BY <3>2 DEF Before
  <2>4. ASSUME Before(q, x, y) PROVE Before(r, x, y)
    <3>1. PICK i \in 1..Len(q), j \in 1..Len(q) : i < j /\ q[i] = x /\ q[j] = y
      BY <2>4 DEF Before
    <3>2. i # p /\ j # p
      BY <2>1, <3>1
    <3> DEFINE at(m) == IF m < p THEN m ELSE m - 1
    <3>3. /\ at(i) \in 1..Len(r) /\ at(j) \in 1..Len(r) /\ at(i) < at(j)
          /\ r[at(i)] = x /\ r[at(j)] = y
      <4>1. at(i) \in 1..Len(r) /\ at(j) \in 1..Len(r) /\ at(i) < at(j)
        BY <2>1, <2>2, <3>1, <3>2
      <4>2. r[at(i)] = x
        BY <2>1, <2>2, <3>1, <3>2
      <4>3. r[at(j)] = y
        BY <2>1, <2>2, <3>1, <3>2
      <4> QED
        BY <4>1, <4>2, <4>3
    <3> QED
      BY <3>3 DEF Before
  <2> QED
    BY <2>3, <2>4 DEF r
<1> QED
  BY <1>1, <1>2

(***************************************************************************)
(* A key appended comes after every key listed, and before none.           *)
(***************************************************************************)
LEMMA BeforeAppend ==
  ASSUME NEW q \in Seq(Keys), NEW k \in Keys, k \notin ToSet(q),
         NEW x \in ToSet(q) \cup {k}, NEW y \in ToSet(q) \cup {k}
  PROVE  Before(Append(q, k), x, y) <=>
           x # k /\ (y = k \/ Before(q, x, y))
<1> DEFINE r == Append(q, k)
           n == Len(q)
<1>1. /\ n \in Nat /\ Len(r) = n + 1 /\ r[n + 1] = k
      /\ \A i \in 1..n : r[i] = q[i] /\ q[i] # k
  BY LenProperties, AppendProperties DEF ToSet
<1> HIDE DEF r, n
<1>2. ASSUME Before(r, x, y) PROVE x # k /\ (y = k \/ Before(q, x, y))
  <2>1. PICK i \in 1..Len(r), j \in 1..Len(r) : i < j /\ r[i] = x /\ r[j] = y
    BY <1>2 DEF Before
  <2>2. i \in 1..n /\ x = q[i] /\ x # k
    BY <1>1, <2>1
  <2>3. CASE j = n + 1
    BY <1>1, <2>1, <2>2, <2>3
  <2>4. CASE j # n + 1
    <3>1. j \in 1..n /\ y = q[j]
      BY <1>1, <2>1, <2>4
    <3> QED
      BY <2>1, <2>2, <3>1 DEF Before, n
  <2> QED
    BY <2>3, <2>4
<1>3. ASSUME x # k, y = k PROVE Before(r, x, y)
  <2>1. PICK i \in 1..n : q[i] = x
    BY <1>3 DEF ToSet, n
  <2>2. /\ i \in 1..Len(r) /\ n + 1 \in 1..Len(r) /\ i < n + 1
        /\ r[i] = x /\ r[n + 1] = y
    BY <1>1, <1>3, <2>1
  <2> QED
    BY <2>2 DEF Before
<1>4. ASSUME Before(q, x, y) PROVE Before(r, x, y)
  <2>1. PICK i \in 1..n, j \in 1..n : i < j /\ q[i] = x /\ q[j] = y
    BY <1>4 DEF Before, n
  <2>2. i \in 1..Len(r) /\ j \in 1..Len(r) /\ r[i] = x /\ r[j] = y
    BY <1>1, <2>1
  <2> QED
    BY <2>1, <2>2 DEF Before
<1> QED
  BY <1>2, <1>3, <1>4 DEF r

(***************************************************************************)
(* So moving a key to the end puts it after the others.                    *)
(***************************************************************************)
LEMMA BeforeMove ==
  ASSUME NEW q \in Seq(Keys), Distinct(q), NEW k \in Keys,
         NEW x \in ToSet(q) \cup {k}, NEW y \in ToSet(q) \cup {k}
  PROVE  Before(MoveToEnd(q, k), x, y) <=>
           x # k /\ (y = k \/ Before(q, x, y))
<1> DEFINE p == RemoveFirst(q, k)
<1>1. p \in Seq(Keys) /\ ToSet(p) = ToSet(q) \ {k}
  BY KeyRemoved
<1>2. x # k /\ y # k => (Before(p, x, y) <=> Before(q, x, y))
  BY BeforeRemove
<1> HIDE DEF p
<1>3. Before(Append(p, k), x, y) <=> x # k /\ (y = k \/ Before(p, x, y))
  BY <1>1, BeforeAppend
<1> QED
  BY <1>2, <1>3 DEF MoveToEnd, p

(***************************************************************************)
(* Popping the coldest key leaves the others in their order.               *)
(***************************************************************************)
LEMMA BeforeTail ==
  ASSUME NEW q \in Seq(Keys), q # <<>>, NEW x, NEW y, x # Head(q)
  PROVE  Before(Tail(q), x, y) <=> Before(q, x, y)
<1> DEFINE r == Tail(q)
<1>1. /\ Len(r) = Len(q) - 1 /\ Head(q) = q[1] /\ Len(q) \in Nat \ {0}
      /\ \A i \in 1..Len(r) : r[i] = q[i + 1]
  BY HeadTailProperties
<1> HIDE DEF r
<1>2. ASSUME Before(r, x, y) PROVE Before(q, x, y)
  <2>1. PICK i \in 1..Len(r), j \in 1..Len(r) : i < j /\ r[i] = x /\ r[j] = y
    BY <1>2 DEF Before
  <2>2. i + 1 \in 1..Len(q) /\ j + 1 \in 1..Len(q) /\ i + 1 < j + 1
        /\ q[i + 1] = x /\ q[j + 1] = y
    BY <1>1, <2>1
  <2> QED
    BY <2>2 DEF Before
<1>3. ASSUME Before(q, x, y) PROVE Before(r, x, y)
  <2>1. PICK i \in 1..Len(q), j \in 1..Len(q) : i < j /\ q[i] = x /\ q[j] = y
    BY <1>3 DEF Before
  <2>2. i # 1
    BY <1>1, <2>1
  <2>3. i - 1 \in 1..Len(r) /\ j - 1 \in 1..Len(r) /\ i - 1 < j - 1
        /\ r[i - 1] = x /\ r[j - 1] = y
    BY <1>1, <2>1, <2>2
  <2> QED
    BY <2>3 DEF Before
<1> QED
  BY <1>2, <1>3 DEF r

(***************************************************************************)
(* What is added to Inv for the order of eviction: whatever is held was    *)
(* used, and the two orders agree on it.                                   *)
(***************************************************************************)
Used == Cached(held) \subseteq ToSet(recent)

LEMMA OrderInit == Init => Used /\ ColdestFirst
BY DEF Init, Used, ColdestFirst, Cached

LEMMA OrderNext == Inv /\ Used /\ ColdestFirst /\ [Next]_vars => Used' /\ ColdestFirst'
<1> SUFFICES ASSUME Inv, Used, ColdestFirst, [Next]_vars
             PROVE  Used' /\ ColdestFirst'
  OBVIOUS
<1>1. /\ order \in Seq(Keys) /\ Distinct(order) /\ ToSet(order) = Cached(held)
      /\ recent \in Seq(Keys) /\ Distinct(recent)
      /\ held \in [Keys -> Speech \cup {None}]
  BY DEF Inv, TypeOK, CacheInv, DictInv
<1>2. CASE UNCHANGED <<order, held, recent>>
  <2>1. order' = order /\ recent' = recent /\ Cached(held') = Cached(held)
    BY <1>2 DEF Cached
  <2> QED
    BY <2>1 DEF Used, ColdestFirst
<1>3. ASSUME NEW t \in Threads, Lookup(t) PROVE Used' /\ ColdestFirst'
  <2> DEFINE k == req[t].key
  <2>1. k \in Keys
    BY <1>3 DEF Lookup, Inv, CacheInv, Stage
  <2>2. CASE held[k] = None
    BY <1>2, <1>3, <2>2 DEF Lookup
  <2>3. CASE held[k] # None
    <3>1. /\ order' = MoveToEnd(order, k) /\ recent' = MoveToEnd(recent, k)
          /\ held' = held
      BY <1>3, <2>3 DEF Lookup
    <3>2. k \in Cached(held) /\ Cached(held') = Cached(held)
      BY <2>1, <2>3, <3>1 DEF Cached
    <3> HIDE DEF k
    <3>3. ToSet(recent') = ToSet(recent) \cup {k}
      BY <1>1, <2>1, <3>1, KeyMoved, Zenon
    <3>4. ASSUME NEW x \in Cached(held), NEW y \in Cached(held)
          PROVE  Before(order', x, y) <=> Before(recent', x, y)
      <4>1. /\ x \in ToSet(order) \cup {k} /\ y \in ToSet(order) \cup {k}
            /\ x \in ToSet(recent) \cup {k} /\ y \in ToSet(recent) \cup {k}
        BY <1>1 DEF Used
      <4>2. Before(order', x, y) <=> x # k /\ (y = k \/ Before(order, x, y))
        BY <1>1, <2>1, <3>1, <4>1, BeforeMove, Zenon
      <4>3. Before(recent', x, y) <=> x # k /\ (y = k \/ Before(recent, x, y))
        BY <1>1, <2>1, <3>1, <4>1, BeforeMove, Zenon
      <4> QED
        BY <4>2, <4>3 DEF ColdestFirst
    <3> QED
      BY <3>2, <3>3, <3>4 DEF Used, ColdestFirst
  <2> QED
    BY <2>2, <2>3
<1>4. ASSUME NEW t \in Threads, PopExisting(t) PROVE Used' /\ ColdestFirst'
  <2> DEFINE k == req[t].key
  <2>1. k \in Keys
    BY <1>4 DEF PopExisting, Inv, CacheInv, Stage
  <2>2. /\ order' = RemoveFirst(order, k) /\ recent' = recent
        /\ held' = [held EXCEPT ![k] = None]
    BY <1>4 DEF PopExisting
  <2>3. Cached(held') = Cached(held) \ {k}
    BY <1>1, <2>1, <2>2 DEF Cached
  <2> HIDE DEF k
  <2>4. ASSUME NEW x \in Cached(held'), NEW y \in Cached(held')
        PROVE  Before(order', x, y) <=> Before(recent', x, y)
    <3>1. Before(order', x, y) <=> Before(order, x, y)
      BY <1>1, <2>2, <2>3, BeforeRemove
    <3> QED
      BY <2>2, <2>3, <3>1 DEF ColdestFirst
  <2> QED
    BY <2>2, <2>3, <2>4 DEF Used, ColdestFirst
<1>5. ASSUME NEW t \in Threads, Insert(t) PROVE Used' /\ ColdestFirst'
  <2> DEFINE k == req[t].key
  <2>1. k \in Keys /\ k \notin Cached(held) /\ req[t].speech # None
    BY <1>5, SpeechAssumption DEF Insert, Inv, CacheInv, Stage, Cached
  <2>2. /\ order' = Append(order, k) /\ recent' = MoveToEnd(recent, k)
        /\ held' = [held EXCEPT ![k] = req[t].speech]
    BY <1>5 DEF Insert
  <2>3. Cached(held') = Cached(held) \cup {k}
    BY <1>1, <2>1, <2>2 DEF Cached
  <2> HIDE DEF k
  <2>4. ToSet(recent') = ToSet(recent) \cup {k}
    BY <1>1, <2>1, <2>2, KeyMoved, Zenon
  <2>5. ASSUME NEW x \in Cached(held'), NEW y \in Cached(held')
        PROVE  Before(order', x, y) <=> Before(recent', x, y)
    <3>1. /\ x \in ToSet(order) \cup {k} /\ y \in ToSet(order) \cup {k}
          /\ x \in ToSet(recent) \cup {k} /\ y \in ToSet(recent) \cup {k}
      BY <1>1, <2>3 DEF Used
    <3>2. Before(order', x, y) <=> x # k /\ (y = k \/ Before(order, x, y))
      <4>1. k \notin ToSet(order)
        BY <1>1, <2>1
      <4> QED
        BY <1>1, <2>1, <2>2, <3>1, <4>1, BeforeAppend
    <3>3. Before(recent', x, y) <=> x # k /\ (y = k \/ Before(recent, x, y))
      BY <1>1, <2>1, <2>2, <3>1, BeforeMove, Zenon
    <3>4. x # k /\ y # k => (Before(order, x, y) <=> Before(recent, x, y))
      BY <2>3 DEF ColdestFirst
    <3> QED
      BY <3>2, <3>3, <3>4
  <2> QED
    BY <2>3, <2>4, <2>5 DEF Used, ColdestFirst
<1>6. ASSUME NEW t \in Threads, EvictOne(t) PROVE Used' /\ ColdestFirst'
  <2> DEFINE h == Head(order)
  <2>1. /\ order # <<>> /\ order' = Tail(order) /\ recent' = recent
        /\ held' = [held EXCEPT ![h] = None]
    BY <1>6 DEF EvictOne
  <2>2. h \in Keys
    BY <1>1, <2>1, KeyPopped
  <2>3. Cached(held') = Cached(held) \ {h}
    BY <1>1, <2>1, <2>2 DEF Cached
  <2>4. ASSUME NEW x \in Cached(held'), NEW y \in Cached(held')
        PROVE  Before(order', x, y) <=> Before(recent', x, y)
    <3>1. x # Head(order)
      BY <2>3
    <3>2. Before(order', x, y) <=> Before(order, x, y)
      BY <1>1, <2>1, <3>1, BeforeTail
    <3> QED
      BY <2>1, <2>3, <3>2 DEF ColdestFirst
  <2> QED
    BY <2>1, <2>3, <2>4 DEF Used, ColdestFirst
<1>7. ASSUME NEW t \in Threads, Wipe(t) PROVE Used' /\ ColdestFirst'
  BY <1>7 DEF Wipe, Used, ColdestFirst, Cached
<1>8. CASE UNCHANGED vars
  BY <1>2, <1>8 DEF vars
<1>9. ASSUME NEW t \in Threads, Ask(t) \/ Acquire(t) \/ FinishPut(t)
      PROVE  Used' /\ ColdestFirst'
  BY <1>2, <1>9 DEF Ask, CallGet, CallPut, CallClear, Call, Acquire, FinishPut, entries
<1> QED
  BY <1>3, <1>4, <1>5, <1>6, <1>7, <1>8, <1>9 DEF Next, Quiet, Proceed

(***************************************************************************)
(* put evicts by last use (cache.py:175-185): however the calls of the     *)
(* threads interleave, of two entries held the one used longer ago is the  *)
(* one popped first.                                                       *)
(***************************************************************************)
THEOREM EvictionIsByLastUse == Spec => []ColdestFirst
BY InitInv, NextInv, OrderInit, OrderNext, PTL DEF Spec

-----------------------------------------------------------------------------
(***************************************************************************)
(* The rest shows that the locked, statement-by-statement cache keeps the  *)
(* promise of SpeechCache: it is linearizable.                             *)
(***************************************************************************)
(***************************************************************************)
(* What is left when the coldest is popped first and m more after it.      *)
(***************************************************************************)
LEMMA NewestTail ==
  ASSUME NEW q \in Seq(Keys), q # <<>>, NEW m \in 0..(Len(q) - 1)
  PROVE  Newest(Tail(q), m) = Newest(q, m + 1)
<1> DEFINE r == Tail(q)
           a == SubSeq(r, m + 1, Len(r))
           b == SubSeq(q, m + 2, Len(q))
<1>1. /\ r \in Seq(Keys) /\ Len(r) = Len(q) - 1 /\ Len(q) \in Nat \ {0} /\ m \in Nat
      /\ \A i \in 1..Len(r) : r[i] = q[i + 1]
  BY HeadTailProperties
<1> HIDE DEF r
<1>2. /\ a \in Seq(Keys) /\ Len(a) = Len(q) - 1 - m
      /\ \A i \in 1..Len(a) : a[i] = r[m + i]
  <2>1. \A i \in 1..Len(r) : r[i] \in Keys
    BY <1>1, ElementOfSeq
  <2>2. /\ a \in Seq(Keys)
        /\ Len(a) = IF m + 1 <= Len(r) THEN Len(r) - (m + 1) + 1 ELSE 0
        /\ \A i \in 1..(Len(r) - (m + 1) + 1) : a[i] = r[m + 1 + i - 1]
    BY <1>1, <2>1, SubSeqProperties
  <2> HIDE DEF a
  <2> QED
    BY <1>1, <2>2
<1>3. /\ b \in Seq(Keys) /\ Len(b) = Len(q) - 1 - m
      /\ \A i \in 1..Len(b) : b[i] = q[m + 1 + i]
  <2>1. \A i \in 1..Len(q) : q[i] \in Keys
    BY <1>1, ElementOfSeq
  <2>2. /\ b \in Seq(Keys)
        /\ Len(b) = IF m + 2 <= Len(q) THEN Len(q) - (m + 2) + 1 ELSE 0
        /\ \A i \in 1..(Len(q) - (m + 2) + 1) : b[i] = q[m + 2 + i - 1]
    BY <1>1, <2>1, SubSeqProperties
  <2> HIDE DEF b
  <2> QED
    BY <1>1, <2>2
<1> HIDE DEF a, b
<1>4. ASSUME NEW i \in 1..Len(a) PROVE a[i] = b[i]
  <2>1. i \in Nat /\ m + i \in 1..Len(r) /\ (m + i) + 1 = m + 1 + i
    BY <1>1, <1>2
  <2>2. a[i] = r[m + i] /\ b[i] = q[m + 1 + i]
    BY <1>2, <1>3
  <2>3. r[m + i] = q[(m + i) + 1]
    BY <1>1, <2>1
  <2> QED
    BY <2>1, <2>2, <2>3, Zenon
<1>5. a = b
  BY <1>2, <1>3, <1>4, SeqEqual
<1>6. m + 1 + 1 = m + 2
  BY <1>1
<1> QED
  BY <1>5, <1>6 DEF Newest, a, b, r

(***************************************************************************)
(* Popping nothing leaves everything.                                      *)
(***************************************************************************)
LEMMA NewestAll ==
  ASSUME NEW q \in Seq(Keys) PROVE Newest(q, 0) = q
<1> DEFINE a == SubSeq(q, 1, Len(q))
<1>1. Len(q) \in Nat /\ \A i \in 1..Len(q) : q[i] \in Keys
  BY LenProperties, ElementOfSeq
<1>2. /\ a \in Seq(Keys) /\ Len(a) = IF 1 <= Len(q) THEN Len(q) - 1 + 1 ELSE 0
      /\ \A i \in 1..(Len(q) - 1 + 1) : a[i] = q[1 + i - 1]
  BY <1>1, SubSeqProperties
<1> HIDE DEF a
<1>3. Len(a) = Len(q) /\ \A i \in 1..Len(a) : a[i] = q[i]
  BY <1>1, <1>2
<1>4. a = q
  BY <1>2, <1>3, SeqEqual
<1> QED
  BY <1>4 DEF Newest, a

(***************************************************************************)
(* The entries of a part of the keys hold no more audio than all of them.  *)
(***************************************************************************)
LEMMA OnlyIsLess ==
  ASSUME NEW h, NEW q
  PROVE  BytesIn(Only(h, q)) <= BytesIn(h)
<1>1. AudioOf(Only(h, q)) \in SUBSET AudioOf(h)
  BY DEF AudioOf, Only
<1> QED
  BY <1>1, AudioFinite, FS_Subset DEF BytesIn

(***************************************************************************)
(* The entries of all the keys listed are all the entries.                 *)
(***************************************************************************)
LEMMA OnlyAll ==
  ASSUME NEW h \in [Keys -> Speech \cup {None}], NEW q, ToSet(q) = Cached(h)
  PROVE  Only(h, q) = h
BY DEF Only, Cached

(***************************************************************************)
(* A cache that fits loses nothing.                                        *)
(***************************************************************************)
LEMMA ExcessNone ==
  ASSUME NEW q, NEW h, BytesIn(h) <= MaxBytes
  PROVE  Excess(q, h) = 0
<1> DEFINE N == {n \in 0..Len(q) : BytesIn(Only(h, Newest(q, n))) > MaxBytes}
<1>1. ASSUME NEW n \in N PROVE FALSE
  <2>1. BytesIn(Only(h, Newest(q, n))) <= BytesIn(h)
    BY OnlyIsLess
  <2>2. BytesIn(Only(h, Newest(q, n))) \in Nat /\ BytesIn(h) \in Nat
    BY AudioFinite
  <2> QED
    BY <2>1, <2>2, SpeechAssumption
<1>2. N = {}
  BY <1>1
<1> QED
  BY <1>2, FS_EmptySet DEF Excess

(***************************************************************************)
(* The entry popped first is one of those that have to go, and the others  *)
(* are those that have to go when it is gone.                              *)
(***************************************************************************)
LEMMA OnlyAfterEviction ==
  ASSUME NEW q \in Seq(Keys), q # <<>>, Distinct(q),
         NEW h \in [Keys -> Speech \cup {None}], NEW m \in 0..(Len(q) - 1)
  PROVE  Only([h EXCEPT ![Head(q)] = None], Newest(Tail(q), m))
           = Only(h, Newest(q, m + 1))
<1> DEFINE rest == Newest(q, m + 1)
<1>1. Newest(Tail(q), m) = rest
  BY NewestTail
<1>2. Head(q) \notin ToSet(rest)
  <2>1. /\ Tail(q) \in Seq(Keys) /\ Len(Tail(q)) = Len(q) - 1 /\ Len(q) \in Nat
        /\ Head(q) \notin ToSet(Tail(q))
    BY KeyPopped, HeadTailProperties
  <2>2. ToSet(Newest(Tail(q), m)) \subseteq ToSet(Tail(q))
    <3> DEFINE r == Tail(q)
    <3>1. r \in Seq(Keys) /\ m \in 0..Len(r)
      BY <2>1
    <3> HIDE DEF r
    <3>2. Len(r) \in Nat /\ \A i \in 1..Len(r) : r[i] \in Keys
      BY <3>1, LenProperties, ElementOfSeq
    <3> DEFINE a == SubSeq(r, m + 1, Len(r))
    <3>3. /\ a \in Seq(Keys)
          /\ Len(a) = IF m + 1 <= Len(r) THEN Len(r) - (m + 1) + 1 ELSE 0
          /\ \A i \in 1..(Len(r) - (m + 1) + 1) : a[i] = r[m + 1 + i - 1]
      BY <3>1, <3>2, SubSeqProperties
    <3> HIDE DEF a
    <3>4. \A i \in 1..Len(a) : m + i \in 1..Len(r) /\ a[i] = r[m + i]
      <4>1. m \in Nat /\ m <= Len(r) /\ Len(a) = Len(r) - m
        BY <3>1, <3>2, <3>3
      <4>2. ASSUME NEW i \in 1..Len(a)
            PROVE  i \in 1..(Len(r) - (m + 1) + 1) /\ m + 1 + i - 1 = m + i
        BY <3>2, <4>1
      <4>3. \A i \in 1..Len(a) : m + i \in 1..Len(r)
        BY <3>2, <4>1
      <4> QED
        BY <3>3, <4>2, <4>3
    <3>5. ToSet(a) \subseteq ToSet(r)
      <4>1. DOMAIN a = 1..Len(a) /\ DOMAIN r = 1..Len(r)
        BY <3>1, <3>3, LenProperties
      <4> QED
        BY <3>4, <4>1 DEF ToSet
    <3> QED
      BY <3>5 DEF Newest, a, r
  <2> QED
    BY <1>1, <2>1, <2>2
<1> HIDE DEF rest
<1>3. Only([h EXCEPT ![Head(q)] = None], rest) = Only(h, rest)
  BY <1>2 DEF Only
<1> QED
  BY <1>1, <1>3 DEF rest

LEMMA ExcessStep ==
  ASSUME NEW q \in Seq(Keys), q # <<>>, Distinct(q),
         NEW h \in [Keys -> Speech \cup {None}], ToSet(q) = Cached(h),
         BytesIn(h) > MaxBytes
  PROVE  Excess(q, h) = Excess(Tail(q), [h EXCEPT ![Head(q)] = None]) + 1
<1> DEFINE r == Tail(q)
           g == [h EXCEPT ![Head(q)] = None]
           Over(p, f, n) == BytesIn(Only(f, Newest(p, n))) > MaxBytes
           N == {n \in 0..Len(q) : Over(q, h, n)}
           M == {m \in 0..Len(r) : Over(r, g, m)}
           f == [m \in M |-> m + 1]
<1>1. Len(r) = Len(q) - 1 /\ Len(q) \in Nat \ {0}
  BY HeadTailProperties
<1>2. Over(q, h, 0)
  BY NewestAll, OnlyAll
<1>3. \A m \in 0..Len(r) : Over(r, g, m) <=> Over(q, h, m + 1)
  BY <1>1, OnlyAfterEviction
<1> HIDE DEF r, g, Over
<1>4. 0 \in N /\ N \subseteq 0..Len(q)
  BY <1>1, <1>2
<1>5. f \in Bijection(M, N \ {0})
  <2>1. f \in [M -> N \ {0}]
    BY <1>1, <1>3
  <2>2. \A m, n \in M : f[m] = f[n] => m = n
    BY <1>1
  <2>3. ASSUME NEW n \in N \ {0} PROVE \E m \in M : f[m] = n
    <3>1. n - 1 \in 0..Len(r) /\ (n - 1) + 1 = n
      BY <1>1
    <3>2. n - 1 \in M
      BY <1>3, <3>1
    <3> QED
      BY <3>1, <3>2
  <2> HIDE DEF f, M, N
  <2> QED
    BY <2>1, <2>2, <2>3 DEF Bijection, Injection, Surjection, IsInjective
<1>6. IsFiniteSet(N) /\ IsFiniteSet(M)
  <2>1. IsFiniteSet(0..Len(q)) /\ IsFiniteSet(0..Len(r))
    BY <1>1, FS_Interval
  <2>2. N \in SUBSET (0..Len(q)) /\ M \in SUBSET (0..Len(r))
    OBVIOUS
  <2> HIDE DEF M, N
  <2> QED
    BY <2>1, <2>2, FS_Subset
<1> HIDE DEF f, M, N
<1>7. Cardinality(N \ {0}) = Cardinality(M)
  BY <1>5, <1>6, FS_Bijection DEF ExistsBijection
<1>8. Cardinality(N \ {0}) = Cardinality(N) - 1 /\ Cardinality(N) \in Nat
  BY <1>4, <1>6, FS_RemoveElement, FS_CardinalityType
<1>9. Cardinality(M) + 1 = Cardinality(N)
  BY <1>7, <1>8
<1> QED
  BY <1>9 DEF Excess, N, M, Over, r, g

-----------------------------------------------------------------------------
\* A cache by its parts, and what the operators of SpeechLRU make of them.
Rec(o, h, hi, mi, ev, re) ==
  [order |-> o, held |-> h, hits |-> hi, misses |-> mi, evictions |-> ev,
   rejections |-> re]

LEMMA RecFields ==
  ASSUME NEW o, NEW h, NEW hi, NEW mi, NEW ev, NEW re
  PROVE  LET c == Rec(o, h, hi, mi, ev, re)
         IN  /\ c.order = o /\ c.held = h /\ c.hits = hi /\ c.misses = mi
             /\ c.evictions = ev /\ c.rejections = re
BY DEF Rec

LEMMA RecShrunk ==
  ASSUME NEW o, NEW h, NEW hi, NEW mi, NEW ev, NEW re
  PROVE  LET n == Excess(o, h)
             rest == Newest(o, n)
         IN  Shrunk(Rec(o, h, hi, mi, ev, re))
               = Rec(rest, Only(h, rest), hi, mi, ev + n, re)
<1> DEFINE c == Rec(o, h, hi, mi, ev, re)
           n == Excess(o, h)
           rest == Newest(o, n)
           left == Only(h, rest)
           total == ev + n
<1>1. c.order = o /\ c.held = h /\ c.evictions = ev
  BY RecFields
<1>2. [c EXCEPT !.order = rest] = Rec(rest, h, hi, mi, ev, re)
  <2> HIDE DEF rest
  <2> QED BY DEF Rec
<1>3. [Rec(rest, h, hi, mi, ev, re) EXCEPT !.held = left] = Rec(rest, left, hi, mi, ev, re)
  <2> HIDE DEF rest, left
  <2> QED BY DEF Rec
<1>4. [Rec(rest, left, hi, mi, ev, re) EXCEPT !.evictions = total]
        = Rec(rest, left, hi, mi, total, re)
  <2> HIDE DEF rest, left, total
  <2> QED BY DEF Rec
<1> HIDE DEF c
<1>5. Shrunk(c) = [[[c EXCEPT !.order = rest] EXCEPT !.held = left] EXCEPT !.evictions = total]
  BY <1>1 DEF Shrunk
<1> HIDE DEF n, rest, left, total
<1>6. Shrunk(c) = Rec(rest, left, hi, mi, total, re)
  BY <1>2, <1>3, <1>4, <1>5, Zenon
<1> QED
  BY <1>6 DEF c, n, rest, left, total

LEMMA RecGet ==
  ASSUME NEW o, NEW h, NEW hi, NEW mi, NEW ev, NEW re, NEW k
  PROVE  AfterGet(Rec(o, h, hi, mi, ev, re), k) =
           IF h[k] = None THEN Rec(o, h, hi, mi + 1, ev, re)
           ELSE Rec(MoveToEnd(o, k), h, hi + 1, mi, ev, re)
<1> DEFINE c == Rec(o, h, hi, mi, ev, re)
           line == MoveToEnd(o, k)
           hit == hi + 1
           miss == mi + 1
<1>1. c.order = o /\ c.held = h /\ c.hits = hi /\ c.misses = mi
  BY RecFields
<1>2. [c EXCEPT !.misses = miss] = Rec(o, h, hi, miss, ev, re)
  <2> HIDE DEF miss
  <2> QED BY DEF Rec
<1>3. [c EXCEPT !.order = line] = Rec(line, h, hi, mi, ev, re)
  <2> HIDE DEF line
  <2> QED BY DEF Rec
<1>4. [Rec(line, h, hi, mi, ev, re) EXCEPT !.hits = hit] = Rec(line, h, hit, mi, ev, re)
  <2> HIDE DEF line, hit
  <2> QED BY DEF Rec
<1> HIDE DEF c
<1>5. AfterGet(c, k) = IF h[k] = None THEN [c EXCEPT !.misses = miss]
                       ELSE [[c EXCEPT !.order = line] EXCEPT !.hits = hit]
  BY <1>1 DEF AfterGet
<1> HIDE DEF line, hit, miss
<1>6. AfterGet(c, k) = IF h[k] = None THEN Rec(o, h, hi, miss, ev, re)
                       ELSE Rec(line, h, hit, mi, ev, re)
  BY <1>2, <1>3, <1>4, <1>5, Zenon
<1> QED
  BY <1>6 DEF c, line, hit, miss

LEMMA RecStored ==
  ASSUME NEW o, NEW h, NEW hi, NEW mi, NEW ev, NEW re, NEW k, NEW s
  PROVE  Stored(Rec(o, h, hi, mi, ev, re), k, s)
           = Rec(MoveToEnd(o, k), [h EXCEPT ![k] = s], hi, mi, ev, re)
<1> DEFINE c == Rec(o, h, hi, mi, ev, re)
           line == MoveToEnd(o, k)
           with == [h EXCEPT ![k] = s]
<1>1. c.order = o /\ c.held = h
  BY RecFields
<1>2. [c EXCEPT !.order = line] = Rec(line, h, hi, mi, ev, re)
  <2> HIDE DEF line
  <2> QED BY DEF Rec
<1>3. [Rec(line, h, hi, mi, ev, re) EXCEPT !.held = with] = Rec(line, with, hi, mi, ev, re)
  <2> HIDE DEF line, with
  <2> QED BY DEF Rec
<1> HIDE DEF c
<1>4. Stored(c, k, s) = [[c EXCEPT !.order = line] EXCEPT !.held = with]
  BY <1>1 DEF Stored
<1> HIDE DEF line, with
<1>5. [[c EXCEPT !.order = line] EXCEPT !.held = with] = Rec(line, with, hi, mi, ev, re)
  BY <1>2, <1>3, Zenon
<1> QED
  BY <1>4, <1>5 DEF c, line, with

LEMMA RecPut ==
  ASSUME NEW o, NEW h, NEW hi, NEW mi, NEW ev, NEW re, NEW k, NEW s
  PROVE  AfterPut(Rec(o, h, hi, mi, ev, re), k, s) =
           IF NBytes[s] > MaxBytes THEN Rec(o, h, hi, mi, ev, re + 1)
           ELSE Shrunk(Rec(MoveToEnd(o, k), [h EXCEPT ![k] = s], hi, mi, ev, re))
<1> DEFINE c == Rec(o, h, hi, mi, ev, re)
           more == re + 1
<1>1. c.rejections = re
  BY RecFields
<1>2. [c EXCEPT !.rejections = more] = Rec(o, h, hi, mi, ev, more)
  <2> HIDE DEF more
  <2> QED BY DEF Rec
<1>3. Stored(c, k, s) = Rec(MoveToEnd(o, k), [h EXCEPT ![k] = s], hi, mi, ev, re)
  BY RecStored
<1> HIDE DEF c
<1>4. [c EXCEPT !.rejections = @ + 1] = [c EXCEPT !.rejections = more]
  BY <1>1
<1> QED
  BY <1>2, <1>3, <1>4 DEF AfterPut, c

(***************************************************************************)
(* The abstract cache is defined over the same operators.                  *)
(***************************************************************************)
LEMMA SameOperators ==
  /\ Promise!Cold = Cold
  /\ \A c, k : Promise!AfterGet(c, k) = AfterGet(c, k)
  /\ \A c, k, s : Promise!AfterPut(c, k, s) = AfterPut(c, k, s)
<1>1. Promise!Cold = Cold
  BY DEF Promise!Cold, Cold
<1>2. \A q, k : Promise!MoveToEnd(q, k) = MoveToEnd(q, k)
  <2>1. \A q, k : Promise!RemoveFirst(q, k) = RemoveFirst(q, k)
    BY DEF Promise!RemoveFirst, RemoveFirst, Promise!RemoveAt, RemoveAt,
           Promise!SelectInSeq, SelectInSeq, Promise!Min, Min
  <2> QED
    BY <2>1 DEF Promise!MoveToEnd, MoveToEnd
<1>3. \A h : Promise!BytesIn(h) = BytesIn(h)
  BY DEF Promise!BytesIn, BytesIn, Promise!AudioOf, AudioOf,
         Promise!Cardinality, Cardinality
<1>4. \A q, n : Promise!Newest(q, n) = Newest(q, n)
  BY DEF Promise!Newest, Newest
<1>5. \A h, q : Promise!Only(h, q) = Only(h, q)
  BY DEF Promise!Only, Only, Promise!ToSet, ToSet
<1>6. \A q, h : Promise!Excess(q, h) = Excess(q, h)
  BY <1>3, <1>4, <1>5 DEF Promise!Excess, Excess, Promise!Cardinality, Cardinality
<1>7. \A c : Promise!Shrunk(c) = Shrunk(c)
  BY <1>4, <1>5, <1>6 DEF Promise!Shrunk, Shrunk
<1>8. \A c, k : Promise!AfterGet(c, k) = AfterGet(c, k)
  BY <1>2 DEF Promise!AfterGet, AfterGet
<1>9. \A c, k, s : Promise!AfterPut(c, k, s) = AfterPut(c, k, s)
  <2>1. \A c, k, s : Promise!Stored(c, k, s) = Stored(c, k, s)
    <3> SUFFICES ASSUME NEW c, NEW k, NEW s
                 PROVE  Promise!Stored(c, k, s) = Stored(c, k, s)
      OBVIOUS
    <3>1. Promise!MoveToEnd(c.order, k) = MoveToEnd(c.order, k)
      BY <1>2
    <3> QED
      BY <3>1, Zenon DEF Promise!Stored, Stored
  <2> QED
    BY <1>7, <2>1 DEF Promise!AfterPut, AfterPut
<1> QED
  BY <1>1, <1>8, <1>9

-----------------------------------------------------------------------------
\* What Promised is of the places of the threads, their arguments and the cache.
PromiseOf(p, r, c) ==
  LET storing == {t \in Threads : p[t] \in {"insert", "fit"}}
  IN  IF storing = {} THEN c
      ELSE LET own == r[CHOOSE t \in storing : TRUE]
           IN  Shrunk(Stored(c, own.key, own.speech))

LEMMA PromisedNow ==
  /\ Promised = PromiseOf(pc, req, Now)
  /\ Promised' = PromiseOf(pc', req', Now')
BY DEF Promised, PromiseOf, Storing

LEMMA NoneStoring ==
  ASSUME NEW p, NEW r, NEW c, \A u \in Threads : p[u] \notin {"insert", "fit"}
  PROVE  PromiseOf(p, r, c) = c
BY DEF PromiseOf

LEMMA OneStoring ==
  ASSUME NEW p, NEW r, NEW c, NEW t \in Threads, p[t] \in {"insert", "fit"},
         \A u \in Threads : u # t => p[u] \notin {"insert", "fit"}
  PROVE  PromiseOf(p, r, c) = Shrunk(Stored(c, r[t].key, r[t].speech))
<1>1. {u \in Threads : p[u] \in {"insert", "fit"}} = {t}
  OBVIOUS
<1>2. (CHOOSE u \in {t} : TRUE) = t
  OBVIOUS
<1> QED
  BY <1>1, <1>2 DEF PromiseOf

\* The cache with the counters as they are.
Parted(o, h, n) ==
  Rec(o, h, n["hits"], n["misses"], n["evictions"], n["rejections"])

LEMMA NowParted ==
  /\ Now = Parted(order, held, count)
  /\ Now' = Parted(order', held', count')
BY DEF Now, Parted, Rec

LEMMA PartedStored ==
  ASSUME NEW o, NEW h, NEW n, NEW k, NEW s
  PROVE  Stored(Parted(o, h, n), k, s)
           = Parted(MoveToEnd(o, k), [h EXCEPT ![k] = s], n)
BY RecStored DEF Parted

-----------------------------------------------------------------------------
(***************************************************************************)
(* No call passes the check of the enabled flag of a disabled cache.       *)
(***************************************************************************)
Admitted ==
  \A t \in Threads :
    pc[t] \in {"get", "lookup", "put", "pop", "insert", "fit"} => enabled

LEMMA AdmittedInit == Init => Admitted
BY DEF Init, Admitted

LEMMA AdmittedNext == Inv /\ Admitted /\ [Next]_vars => Admitted'
<1> SUFFICES ASSUME Inv, Admitted, [Next]_vars PROVE Admitted'
  OBVIOUS
<1>0. pc \in [Threads -> Labels]
  BY DEF Inv, TypeOK
<1>1. CASE UNCHANGED vars
  BY <1>1 DEF vars, Admitted
<1>2. ASSUME NEW t \in Threads, Ask(t) PROVE Admitted'
  BY <1>0, <1>2 DEF Ask, CallGet, CallPut, CallClear, Call, Goto, Admitted
<1>3. ASSUME NEW t \in Threads, Proceed(t) PROVE Admitted'
  BY <1>0, <1>3 DEF Proceed, Acquire, Lookup, PopExisting, Insert, EvictOne,
     FinishPut, Wipe, Return, Goto, Admitted
<1> QED
  BY <1>1, <1>2, <1>3 DEF Next, Quiet

(***************************************************************************)
(* A step of the abstract cache, in the terms of this module.              *)
(***************************************************************************)
LEMMA AbstractGet ==
  ASSUME NEW t \in Threads, NEW k \in Keys, UNCHANGED enabled,
         got' = [got EXCEPT ![t] = IF enabled THEN Promised.held[k] ELSE None],
         Promised' = IF enabled THEN AfterGet(Promised, k) ELSE Promised
  PROVE  Promise!Next
BY SameOperators DEF Promise!Next, Promise!Get

LEMMA AbstractPut ==
  ASSUME NEW k \in Keys, NEW s \in Speech, enabled, UNCHANGED <<enabled, got>>,
         Promised' = AfterPut(Promised, k, s)
  PROVE  Promise!Next
BY SameOperators DEF Promise!Next, Promise!Put

LEMMA AbstractClear ==
  ASSUME UNCHANGED <<enabled, got>>, Promised' = Cold
  PROVE  Promise!Next
BY SameOperators DEF Promise!Next, Promise!Clear

-----------------------------------------------------------------------------
(***************************************************************************)
(* Entering a critical section changes nothing of the promise.             *)
(***************************************************************************)
LEMMA AcquirePromise ==
  ASSUME Inv, NEW t \in Threads, Acquire(t)
  PROVE  UNCHANGED <<enabled, Promised, got>>
<1>1. UNCHANGED <<enabled, order, held, count, got>>
  BY DEF Acquire, entries
<1>2. /\ \A u \in Threads : pc[u] \notin {"insert", "fit"}
      /\ \A u \in Threads : pc'[u] \notin {"insert", "fit"}
  <2>1. lock = None
    BY DEF Acquire
  <2>2. \A u \in Threads : pc[u] \notin Inside
    BY <2>1, ThreadsAssumption DEF Inv, CacheInv, LockOwner
  <2> QED
    BY <2>2 DEF Acquire, Goto, Inv, TypeOK, Inside
<1>3. Promised = Now /\ Promised' = Now'
  BY <1>2, NoneStoring, PromisedNow
<1>4. Now' = Now
  BY <1>1, NowParted
<1> QED
  BY <1>1, <1>3, <1>4

(***************************************************************************)
(* A lookup happens where its critical section does.                       *)
(***************************************************************************)
LEMMA LookupPromise ==
  ASSUME Inv, Admitted, NEW t \in Threads, Lookup(t)
  PROVE  Promise!Next
<1> DEFINE k == req[t].key
<1>1. /\ UNCHANGED <<enabled, held>>
      /\ pc[t] = "lookup" /\ pc' = [pc EXCEPT ![t] = "idle"]
      /\ got' = [got EXCEPT ![t] = held[k]]
  BY DEF Lookup, Return, Goto
<1>2. k \in Keys /\ enabled /\ pc \in [Threads -> Labels] /\ count \in [Counters -> Nat]
  BY <1>1 DEF Inv, TypeOK, CacheInv, Stage, Admitted
<1>3. \A u \in Threads : u # t => pc[u] \notin Inside
  BY <1>1, OneInside DEF Inv, CacheInv, Inside
<1>4. Promised = Now /\ Promised' = Now'
  <2>1. \A u \in Threads : pc[u] \notin {"insert", "fit"} /\ pc'[u] \notin {"insert", "fit"}
    BY <1>1, <1>2, <1>3 DEF Inside
  <2> QED
    BY <2>1, NoneStoring, PromisedNow
<1>5. Now = Parted(order, held, count) /\ Now' = Parted(order', held, count')
  BY <1>1, NowParted
<1>6. Now.held = held
  BY DEF Now
<1>7. Now' = AfterGet(Now, k)
  <2>1. CASE held[k] = None
    <3>1. order' = order /\ count' = [count EXCEPT !["misses"] = @ + 1]
      BY <2>1 DEF Lookup, Count
    <3>2. /\ count'["misses"] = count["misses"] + 1
          /\ count'["hits"] = count["hits"]
          /\ count'["evictions"] = count["evictions"]
          /\ count'["rejections"] = count["rejections"]
      BY <1>2, <3>1 DEF Counters
    <3>3. AfterGet(Parted(order, held, count), k)
            = Rec(order, held, count["hits"], count["misses"] + 1,
                  count["evictions"], count["rejections"])
      BY <2>1, RecGet DEF Parted
    <3> QED
      BY <1>5, <3>1, <3>2, <3>3 DEF Parted
  <2>2. CASE held[k] # None
    <3>1. order' = MoveToEnd(order, k) /\ count' = [count EXCEPT !["hits"] = @ + 1]
      BY <2>2 DEF Lookup, Count
    <3>2. /\ count'["hits"] = count["hits"] + 1
          /\ count'["misses"] = count["misses"]
          /\ count'["evictions"] = count["evictions"]
          /\ count'["rejections"] = count["rejections"]
      BY <1>2, <3>1 DEF Counters
    <3>3. AfterGet(Parted(order, held, count), k)
            = Rec(MoveToEnd(order, k), held, count["hits"] + 1, count["misses"],
                  count["evictions"], count["rejections"])
      BY <2>2, RecGet DEF Parted
    <3> QED
      BY <1>5, <3>1, <3>2, <3>3 DEF Parted
  <2> QED
    BY <2>1, <2>2
<1> HIDE DEF k
<1> QED
  BY <1>1, <1>2, <1>4, <1>6, <1>7, AbstractGet

(***************************************************************************)
(* clear happens where its critical section does.                          *)
(***************************************************************************)
LEMMA WipePromise ==
  ASSUME Inv, NEW t \in Threads, Wipe(t)
  PROVE  Promise!Next
<1>1. /\ UNCHANGED <<enabled, got>>
      /\ order' = <<>> /\ held' = [k \in Keys |-> None]
      /\ count' = [c \in Counters |-> 0]
      /\ pc[t] = "wipe" /\ pc' = [pc EXCEPT ![t] = "idle"]
  BY DEF Wipe, Return, Goto
<1>2. \A u \in Threads : pc'[u] \notin {"insert", "fit"}
  <2>1. \A u \in Threads : u # t => pc[u] \notin Inside
    BY <1>1, OneInside DEF Inv, CacheInv, Inside
  <2> QED
    BY <1>1, <2>1 DEF Inv, TypeOK, Inside
<1>3. Promised' = Now'
  BY <1>2, NoneStoring, PromisedNow
<1>4. Now' = Cold
  <2>1. Now' = Parted(<<>>, [k \in Keys |-> None], [c \in Counters |-> 0])
    BY <1>1, NowParted
  <2> QED
    BY <2>1 DEF Parted, Rec, Cold, Counters
<1> QED
  BY <1>1, <1>3, <1>4, AbstractClear

(***************************************************************************)
(* The end of a put changes nothing: what fits is what was promised.       *)
(***************************************************************************)
LEMMA ShrunkFits ==
  ASSUME NEW q \in Seq(Keys), NEW h \in [Keys -> Speech \cup {None}],
         ToSet(q) = Cached(h), BytesIn(h) <= MaxBytes, NEW n \in [Counters -> Nat]
  PROVE  Shrunk(Parted(q, h, n)) = Parted(q, h, n)
<1>1. Excess(q, h) = 0
  BY ExcessNone
<1>2. Newest(q, 0) = q /\ Only(h, q) = h
  BY NewestAll, OnlyAll
<1>3. n["evictions"] + 0 = n["evictions"]
  BY DEF Counters
<1> QED
  BY <1>1, <1>2, <1>3, RecShrunk DEF Parted

\* Moving the key that is last to the end, or storing what is stored.
LEMMA LastStays ==
  ASSUME NEW q \in Seq(Keys), Distinct(q), q # <<>>
  PROVE  MoveToEnd(q, q[Len(q)]) = q
<1> DEFINE k == q[Len(q)]
           r == RemoveFirst(q, k)
<1>1. Len(q) \in Nat \ {0} /\ Len(q) \in 1..Len(q)
  BY EmptySeq, LenProperties
<1>2. k \in Keys
  BY <1>1, ElementOfSeq
<1>3. /\ r \in Seq(Keys) /\ Len(r) = Len(q) - 1
      /\ \A i \in 1..Len(r) : r[i] = IF i < Len(q) THEN q[i] ELSE q[i + 1]
  BY <1>1, RemoveFirstShape DEF Distinct, NoRepeats
<1> HIDE DEF r
<1>4. /\ Append(r, k) \in Seq(Keys) /\ Len(Append(r, k)) = Len(q)
      /\ \A i \in 1..Len(r) : Append(r, k)[i] = r[i]
      /\ Append(r, k)[Len(r) + 1] = k
  BY <1>1, <1>2, <1>3, AppendProperties
<1>5. \A i \in 1..Len(q) : Append(r, k)[i] = q[i]
  BY <1>1, <1>3, <1>4
<1>6. Append(r, k) = q
  BY <1>4, <1>5, SeqEqual
<1> QED
  BY <1>6 DEF MoveToEnd, r

LEMMA FinishPromise ==
  ASSUME Inv, NEW t \in Threads, FinishPut(t)
  PROVE  UNCHANGED <<enabled, Promised, got>>
<1> DEFINE k == req[t].key
           s == req[t].speech
<1>1. /\ UNCHANGED <<enabled, order, held, count, got>>
      /\ pc[t] = "fit" /\ pc' = [pc EXCEPT ![t] = "idle"] /\ nbytes <= MaxBytes
  BY DEF FinishPut, Return, Goto, entries
<1>2. /\ order \in Seq(Keys) /\ Distinct(order) /\ ToSet(order) = Cached(held)
      /\ held \in [Keys -> Speech \cup {None}] /\ count \in [Counters -> Nat]
      /\ BytesIn(held) <= MaxBytes /\ pc \in [Threads -> Labels]
      /\ k \in Keys /\ held[k] = s /\ order # <<>> /\ order[Len(order)] = k
  BY <1>1 DEF Inv, TypeOK, CacheInv, DictInv, Accounting, Stage
<1>3. \A u \in Threads : u # t => pc[u] \notin {"insert", "fit"}
  BY <1>1, OneInside DEF Inv, CacheInv, Inside
<1>4. Promised = Shrunk(Stored(Now, k, s)) /\ Promised' = Now'
  <2>1. \A u \in Threads : pc'[u] \notin {"insert", "fit"}
    BY <1>1, <1>2, <1>3
  <2>2. Promised' = Now'
    BY <2>1, NoneStoring, PromisedNow
  <2>3. Promised = Shrunk(Stored(Now, k, s))
    BY <1>1, <1>3, OneStoring, PromisedNow
  <2> QED
    BY <2>2, <2>3
<1>5. Stored(Now, k, s) = Now
  <2>1. MoveToEnd(order, k) = order
    BY <1>2, LastStays
  <2>2. [held EXCEPT ![k] = s] = held
    BY <1>2
  <2> HIDE DEF k, s
  <2> QED
    BY <2>1, <2>2, NowParted, PartedStored
<1>6. Shrunk(Now) = Now /\ Now' = Now
  BY <1>1, <1>2, NowParted, ShrunkFits
<1> QED
  BY <1>1, <1>4, <1>5, <1>6

(***************************************************************************)
(* A put takes effect where it drops the entry it replaces.                *)
(***************************************************************************)
LEMMA PopPromise ==
  ASSUME Inv, Inv', Admitted, NEW t \in Threads, PopExisting(t)
  PROVE  Promise!Next
<1> DEFINE k == req[t].key
           s == req[t].speech
<1>1. /\ UNCHANGED <<enabled, count, got, req>>
      /\ pc[t] = "pop" /\ pc' = [pc EXCEPT ![t] = "insert"]
      /\ order' = RemoveFirst(order, k)
      /\ held' = [held EXCEPT ![k] = None]
  BY DEF PopExisting, Goto
<1>2. /\ order \in Seq(Keys) /\ Distinct(order) /\ pc \in [Threads -> Labels]
      /\ held \in [Keys -> Speech \cup {None}] /\ enabled
      /\ k \in Keys /\ s \in Speech /\ NBytes[s] <= MaxBytes
  BY <1>1 DEF Inv, TypeOK, CacheInv, DictInv, Stage, Admitted
<1>3. \A u \in Threads : u # t => pc[u] \notin Inside
  BY <1>1, OneInside DEF Inv, CacheInv, Inside
<1>4. Promised = Now
  <2>1. \A u \in Threads : pc[u] \notin {"insert", "fit"}
    BY <1>1, <1>3 DEF Inside
  <2> QED
    BY <2>1, NoneStoring, PromisedNow
<1>5. Promised' = Shrunk(Stored(Now', k, s))
  <2>1. pc'[t] = "insert" /\ \A u \in Threads : u # t => pc'[u] \notin {"insert", "fit"}
    BY <1>1, <1>2, <1>3 DEF Inside
  <2>2. PromiseOf(pc', req', Now') = Shrunk(Stored(Now', req'[t].key, req'[t].speech))
    BY <2>1, OneStoring
  <2> QED
    BY <1>1, <2>2, PromisedNow
<1>6. Stored(Now', k, s) = Parted(MoveToEnd(order, k), [held EXCEPT ![k] = s], count)
  <2>1. k \notin ToSet(RemoveFirst(order, k))
    <3> HIDE DEF k
    <3> QED BY <1>2, KeyRemoved
  <2>2. MoveToEnd(order', k) = MoveToEnd(order, k)
    <3>1. order' \in Seq(Keys) /\ \A i \in 1..Len(order') : order'[i] # k
      BY <1>1, <2>1 DEF ToSet, Inv, TypeOK
    <3>2. RemoveFirst(order', k) = order'
      BY <3>1 DEF RemoveFirst
    <3> QED
      BY <1>1, <3>2 DEF MoveToEnd
  <2>3. [held' EXCEPT ![k] = s] = [held EXCEPT ![k] = s]
    BY <1>1, <1>2
  <2> HIDE DEF k, s
  <2>4. Stored(Now', k, s) = Parted(MoveToEnd(order', k), [held' EXCEPT ![k] = s], count')
    BY NowParted, PartedStored
  <2> QED
    BY <1>1, <2>2, <2>3, <2>4
<1>7. AfterPut(Now, k, s)
        = Shrunk(Parted(MoveToEnd(order, k), [held EXCEPT ![k] = s], count))
  <2>1. ~(NBytes[s] > MaxBytes)
    BY <1>2, SpeechAssumption
  <2>2. Stored(Now, k, s) = Parted(MoveToEnd(order, k), [held EXCEPT ![k] = s], count)
    BY NowParted, PartedStored
  <2> HIDE DEF k, s
  <2> QED
    BY <2>1, <2>2 DEF AfterPut
<1>8. Promised' = AfterPut(Promised, k, s)
  BY <1>4, <1>5, <1>6, <1>7
<1> HIDE DEF k, s
<1> QED
  BY <1>1, <1>2, <1>8, AbstractPut

(***************************************************************************)
(* Inserting the entry is part of what was promised.                       *)
(***************************************************************************)
LEMMA InsertPromise ==
  ASSUME Inv, NEW t \in Threads, Insert(t)
  PROVE  UNCHANGED <<enabled, Promised, got>>
<1> DEFINE k == req[t].key
           s == req[t].speech
<1>1. /\ UNCHANGED <<enabled, count, got, req>>
      /\ pc[t] = "insert" /\ pc' = [pc EXCEPT ![t] = "fit"]
      /\ order' = Append(order, k)
      /\ held' = [held EXCEPT ![k] = s]
  BY DEF Insert, Goto
<1>2. /\ order \in Seq(Keys) /\ Distinct(order) /\ ToSet(order) = Cached(held)
      /\ held \in [Keys -> Speech \cup {None}] /\ pc \in [Threads -> Labels]
      /\ k \in Keys /\ held[k] = None
  BY <1>1 DEF Inv, TypeOK, CacheInv, DictInv, Stage
<1>3. \A u \in Threads : u # t => pc[u] \notin {"insert", "fit"}
  BY <1>1, OneInside DEF Inv, CacheInv, Inside
<1>4. Promised = Shrunk(Stored(Now, k, s))
  BY <1>1, <1>3, OneStoring, PromisedNow
<1>5. Promised' = Shrunk(Stored(Now', k, s))
  <2>1. pc'[t] = "fit" /\ \A u \in Threads : u # t => pc'[u] \notin {"insert", "fit"}
    BY <1>1, <1>2, <1>3
  <2>2. PromiseOf(pc', req', Now') = Shrunk(Stored(Now', req'[t].key, req'[t].speech))
    BY <2>1, OneStoring
  <2> QED
    BY <1>1, <2>2, PromisedNow
<1>6. Stored(Now', k, s) = Stored(Now, k, s)
  <2>1. k \notin ToSet(order)
    BY <1>2 DEF Cached
  <2>2. MoveToEnd(order, k) = order'
    <3>1. \A i \in 1..Len(order) : order[i] # k
      BY <1>2, <2>1 DEF ToSet
    <3>2. RemoveFirst(order, k) = order
      BY <3>1 DEF RemoveFirst
    <3> QED
      BY <1>1, <3>2 DEF MoveToEnd
  <2>3. MoveToEnd(order', k) = order'
    <3> HIDE DEF k
    <3>1. /\ order' \in Seq(Keys) /\ Distinct(order') /\ order' # <<>>
          /\ order'[Len(order')] = k
      BY <1>1, <1>2, <2>1, KeyAdded, Zenon
    <3> QED
      BY <3>1, LastStays
  <2>4. [held' EXCEPT ![k] = s] = [held EXCEPT ![k] = s]
    BY <1>1, <1>2
  <2>5. Stored(Now, k, s) = Parted(order', [held EXCEPT ![k] = s], count)
    <3> HIDE DEF k, s
    <3> QED BY <2>2, NowParted, PartedStored
  <2>6. Stored(Now', k, s) = Parted(order', [held EXCEPT ![k] = s], count)
    <3> HIDE DEF k, s
    <3>1. Stored(Now', k, s) = Parted(MoveToEnd(order', k), [held' EXCEPT ![k] = s], count')
      BY NowParted, PartedStored
    <3> QED
      BY <1>1, <2>3, <2>4, <3>1
  <2> QED
    BY <2>5, <2>6
<1> QED
  BY <1>1, <1>4, <1>5, <1>6

(***************************************************************************)
(* So is popping the coldest entry: one of those that have to go.          *)
(***************************************************************************)
LEMMA ShrunkStep ==
  ASSUME NEW q \in Seq(Keys), q # <<>>, Distinct(q),
         NEW h \in [Keys -> Speech \cup {None}], ToSet(q) = Cached(h),
         BytesIn(h) > MaxBytes, NEW n \in [Counters -> Nat],
         NEW m, m = [n EXCEPT !["evictions"] = @ + 1]
  PROVE  Shrunk(Parted(Tail(q), [h EXCEPT ![Head(q)] = None], m))
           = Shrunk(Parted(q, h, n))
<1> DEFINE r == Tail(q)
           g == [h EXCEPT ![Head(q)] = None]
           i == Excess(r, g)
<1>1. r \in Seq(Keys) /\ Len(r) = Len(q) - 1 /\ Len(q) \in Nat \ {0}
  BY HeadTailProperties
<1>2. i \in 0..(Len(q) - 1)
  <2> HIDE DEF r, g
  <2> QED BY <1>1, ExcessType
<1>3. Excess(q, h) = i + 1
  BY ExcessStep
<1>4. Newest(r, i) = Newest(q, i + 1)
  <2> HIDE DEF i
  <2> QED BY <1>2, NewestTail
<1>5. Only(g, Newest(r, i)) = Only(h, Newest(q, i + 1))
  <2> HIDE DEF i
  <2> QED BY <1>2, OnlyAfterEviction
<1>6. /\ m["hits"] = n["hits"] /\ m["misses"] = n["misses"]
      /\ m["rejections"] = n["rejections"]
      /\ m["evictions"] + i = n["evictions"] + (i + 1)
  <2>1. /\ m["hits"] = n["hits"] /\ m["misses"] = n["misses"]
        /\ m["rejections"] = n["rejections"] /\ n["evictions"] \in Nat
        /\ m["evictions"] = n["evictions"] + 1
    BY DEF Counters
  <2>2. i \in Nat
    <3> HIDE DEF i
    <3> QED BY <1>1, <1>2
  <2>3. \A a, b \in Nat : (a + 1) + b = a + (b + 1)
    OBVIOUS
  <2> HIDE DEF i
  <2>4. (n["evictions"] + 1) + i = n["evictions"] + (i + 1)
    BY <2>1, <2>2, <2>3, Zenon
  <2> QED
    BY <2>1, <2>4, Zenon
<1> HIDE DEF r, g, i
<1>7. Shrunk(Parted(r, g, m))
        = Rec(Newest(r, i), Only(g, Newest(r, i)), m["hits"], m["misses"],
              m["evictions"] + i, m["rejections"])
  BY RecShrunk DEF Parted, i
<1>8. Shrunk(Parted(q, h, n))
        = Rec(Newest(q, i + 1), Only(h, Newest(q, i + 1)), n["hits"], n["misses"],
              n["evictions"] + (i + 1), n["rejections"])
  BY <1>3, RecShrunk DEF Parted
<1> QED
  BY <1>4, <1>5, <1>6, <1>7, <1>8 DEF r, g

LEMMA EvictPromise ==
  ASSUME Inv, Inv', NEW t \in Threads, EvictOne(t)
  PROVE  UNCHANGED <<enabled, Promised, got>>
<1> DEFINE k == req[t].key
           s == req[t].speech
<1>1. /\ UNCHANGED <<enabled, pc, got, req>>
      /\ pc[t] = "fit" /\ nbytes > MaxBytes /\ order # <<>>
      /\ order' = Tail(order)
      /\ held' = [held EXCEPT ![Head(order)] = None]
      /\ count' = [count EXCEPT !["evictions"] = @ + 1]
  BY DEF EvictOne, Count
<1>2. /\ order \in Seq(Keys) /\ Distinct(order) /\ ToSet(order) = Cached(held)
      /\ held \in [Keys -> Speech \cup {None}] /\ count \in [Counters -> Nat]
      /\ BytesIn(held) > MaxBytes
      /\ k \in Keys /\ held[k] = s /\ order[Len(order)] = k
  BY <1>1 DEF Inv, TypeOK, CacheInv, DictInv, Accounting, Stage
<1>3. /\ order' \in Seq(Keys) /\ Distinct(order') /\ order' # <<>>
      /\ held' \in [Keys -> Speech \cup {None}]
      /\ held'[k] = s /\ order'[Len(order')] = k
  BY <1>1 DEF Inv, TypeOK, CacheInv, DictInv, Stage
<1>4. \A u \in Threads : u # t => pc[u] \notin {"insert", "fit"}
  BY <1>1, OneInside DEF Inv, CacheInv, Inside
<1>5. Promised = Shrunk(Stored(Now, k, s))
  BY <1>1, <1>4, OneStoring, PromisedNow
<1>6. Promised' = Shrunk(Stored(Now', k, s))
  <2>1. PromiseOf(pc', req', Now') = Shrunk(Stored(Now', req'[t].key, req'[t].speech))
    BY <1>1, <1>4, OneStoring
  <2> QED
    BY <1>1, <2>1, PromisedNow
<1> HIDE DEF k, s
<1>7. Stored(Now, k, s) = Parted(order, held, count)
  <2>1. MoveToEnd(order, k) = order
    BY <1>1, <1>2, LastStays
  <2>2. [held EXCEPT ![k] = s] = held
    BY <1>2
  <2> QED
    BY <2>1, <2>2, NowParted, PartedStored
<1>8. Stored(Now', k, s) = Parted(order', held', count')
  <2>1. MoveToEnd(order', k) = order'
    BY <1>3, LastStays
  <2>2. [held' EXCEPT ![k] = s] = held'
    BY <1>3
  <2> QED
    BY <2>1, <2>2, NowParted, PartedStored
<1>9. Shrunk(Parted(order', held', count')) = Shrunk(Parted(order, held, count))
  <2>1. /\ order' = Tail(order) /\ held' = [held EXCEPT ![Head(order)] = None]
        /\ order # <<>> /\ count' = [count EXCEPT !["evictions"] = @ + 1]
    BY <1>1
  <2>2. /\ order \in Seq(Keys) /\ Distinct(order) /\ ToSet(order) = Cached(held)
        /\ held \in [Keys -> Speech \cup {None}] /\ count \in [Counters -> Nat]
        /\ BytesIn(held) > MaxBytes
    BY <1>2
  <2>3. Shrunk(Parted(Tail(order), [held EXCEPT ![Head(order)] = None], count'))
          = Shrunk(Parted(order, held, count))
    BY <2>1, <2>2, ShrunkStep
  <2> QED
    BY <2>1, <2>3, Zenon
<1>10. Promised' = Promised
  BY <1>5, <1>6, <1>7, <1>8, <1>9, Zenon
<1> QED
  BY <1>1, <1>10

-----------------------------------------------------------------------------
\* A reply that is too long changes one counter.
LEMMA RecRejected ==
  ASSUME NEW o, NEW h, NEW hi, NEW mi, NEW ev, NEW re, NEW k, NEW s,
         NBytes[s] > MaxBytes
  PROVE  AfterPut(Rec(o, h, hi, mi, ev, re), k, s) = Rec(o, h, hi, mi, ev, re + 1)
<1> DEFINE c == Rec(o, h, hi, mi, ev, re)
           more == re + 1
<1>1. c.rejections = re
  BY RecFields
<1>2. [c EXCEPT !.rejections = more] = Rec(o, h, hi, mi, ev, more)
  <2> HIDE DEF more
  <2> QED BY DEF Rec
<1> HIDE DEF c
<1>3. AfterPut(c, k, s) = [c EXCEPT !.rejections = more]
  BY <1>1 DEF AfterPut
<1> QED
  BY <1>2, <1>3 DEF c, more

\* The counters m are n with one rejection more.
OneRejected(n, m) ==
  /\ m["hits"] = n["hits"] /\ m["misses"] = n["misses"]
  /\ m["evictions"] = n["evictions"] /\ m["rejections"] = n["rejections"] + 1

\* A rejection changes no more of a cache whose loop is still to run.
LEMMA RejectionCounted ==
  ASSUME NEW q, NEW h, NEW n, NEW m, NEW k, NEW s, OneRejected(n, m), NBytes[s] > MaxBytes
  PROVE  /\ AfterPut(Parted(q, h, n), k, s) = Parted(q, h, m)
         /\ AfterPut(Shrunk(Parted(q, h, n)), k, s) = Shrunk(Parted(q, h, m))
<1> DEFINE hi == n["hits"]
           mi == n["misses"]
           ev == n["evictions"]
           re == n["rejections"]
           i == Excess(q, h)
           rest == Newest(q, i)
           left == Only(h, rest)
           more == ev + i
<1>1. /\ m["hits"] = hi /\ m["misses"] = mi
      /\ m["evictions"] = ev /\ m["rejections"] = re + 1
  BY DEF OneRejected
<1>2. Parted(q, h, n) = Rec(q, h, hi, mi, ev, re) /\ Parted(q, h, m) = Rec(q, h, hi, mi, ev, re + 1)
  BY <1>1 DEF Parted
<1> HIDE DEF hi, mi, ev, re
<1>3. Shrunk(Rec(q, h, hi, mi, ev, re)) = Rec(rest, left, hi, mi, more, re)
  BY RecShrunk
<1> DEFINE rejected == re + 1
<1>4. Shrunk(Rec(q, h, hi, mi, ev, rejected)) = Rec(rest, left, hi, mi, more, rejected)
  <2> HIDE DEF rejected
  <2> QED BY RecShrunk
<1> HIDE DEF i, rest, left, more
<1>5. AfterPut(Rec(rest, left, hi, mi, more, re), k, s) = Rec(rest, left, hi, mi, more, rejected)
  BY RecRejected
<1>6. AfterPut(Rec(q, h, hi, mi, ev, re), k, s) = Rec(q, h, hi, mi, ev, rejected)
  BY RecRejected
<1>7. Parted(q, h, m) = Rec(q, h, hi, mi, ev, rejected)
  BY <1>2
<1> HIDE DEF rejected
<1> QED
  BY <1>2, <1>3, <1>4, <1>5, <1>6, <1>7, Zenon

\* What a beginning call leaves in the counters and the answers.
LEMMA AskCases ==
  ASSUME Inv, NEW t \in Threads, Ask(t)
  PROVE  \/ UNCHANGED <<count, got>>
         \/ /\ ~enabled /\ UNCHANGED count
            /\ Keys # {} /\ got' = [got EXCEPT ![t] = None]
         \/ \E k \in Keys, s \in Speech :
              /\ enabled /\ UNCHANGED got /\ NBytes[s] > MaxBytes
              /\ count' = [count EXCEPT !["rejections"] = @ + 1]
<1>1. ASSUME NEW k \in Keys, CallGet(t, k)
      PROVE  \/ UNCHANGED <<count, got>>
             \/ ~enabled /\ UNCHANGED count /\ got' = [got EXCEPT ![t] = None]
  BY <1>1 DEF CallGet
<1>2. ASSUME NEW k \in Keys, NEW s \in Speech, CallPut(t, k, s)
      PROVE  \/ UNCHANGED <<count, got>>
             \/ /\ enabled /\ UNCHANGED got /\ NBytes[s] > MaxBytes
                /\ count' = [count EXCEPT !["rejections"] = @ + 1]
  BY <1>2, SpeechAssumption DEF CallPut, Count
<1>3. CallClear(t) => UNCHANGED <<count, got>>
  BY DEF CallClear
<1> QED
  BY <1>1, <1>2, <1>3 DEF Ask

(***************************************************************************)
(* A call that begins is no step of the abstract cache, unless it is over  *)
(* before the lock: an answer of a disabled cache, or a rejection, which   *)
(* is counted while other threads are anywhere in theirs.                  *)
(***************************************************************************)
LEMMA AskPromise ==
  ASSUME Inv, NEW t \in Threads, Ask(t)
  PROVE  Promise!Next \/ UNCHANGED <<enabled, Promised, got>>
<1>1. /\ UNCHANGED <<enabled, order, held>>
      /\ pc[t] = "idle" /\ pc'[t] \notin {"insert", "fit"}
      /\ \A u \in Threads : u # t => pc'[u] = pc[u] /\ req'[u] = req[u]
  <2>1. pc \in [Threads -> Labels] /\ req \in [Threads -> Requests]
    BY DEF Inv, TypeOK
  <2> QED
    BY <2>1 DEF Ask, CallGet, CallPut, CallClear, Call, Goto, entries
<1>2. count \in [Counters -> Nat]
  BY DEF Inv, TypeOK
<1>3. Now = Parted(order, held, count) /\ Now' = Parted(order, held, count')
  BY <1>1, NowParted
<1>4. /\ count' = count => Promised' = Promised
      /\ \A k, s : NBytes[s] > MaxBytes /\ OneRejected(count, count')
                   => Promised' = AfterPut(Promised, k, s)
  <2>1. CASE \A u \in Threads : pc[u] \notin {"insert", "fit"}
    <3>1. \A u \in Threads : pc'[u] \notin {"insert", "fit"}
      BY <1>1, <2>1
    <3>2. Promised = Now /\ Promised' = Now'
      BY <2>1, <3>1, NoneStoring, PromisedNow
    <3>3. ASSUME NEW k, NEW s, NBytes[s] > MaxBytes,
                 OneRejected(count, count')
          PROVE  AfterPut(Parted(order, held, count), k, s) = Parted(order, held, count')
      BY <3>3, RejectionCounted
    <3> QED
      BY <1>3, <3>2, <3>3
  <2>2. ASSUME NEW u \in Threads, pc[u] \in {"insert", "fit"}
        PROVE  <1>4
    <3> DEFINE own == req[u].key
               kept == req[u].speech
               line == MoveToEnd(order, own)
               all == [held EXCEPT ![own] = kept]
    <3>1. u # t /\ \A v \in Threads : v # u => pc[v] \notin {"insert", "fit"}
      BY <1>1, <2>2, OneInside DEF Inv, CacheInv, Inside
    <3>2. /\ pc'[u] \in {"insert", "fit"} /\ req'[u] = req[u]
          /\ \A v \in Threads : v # u => pc'[v] \notin {"insert", "fit"}
      BY <1>1, <2>2, <3>1
    <3>3. Promised = Shrunk(Stored(Now, own, kept))
      BY <2>2, <3>1, OneStoring, PromisedNow
    <3>4. Promised' = Shrunk(Stored(Now', own, kept))
      <4>1. PromiseOf(pc', req', Now') = Shrunk(Stored(Now', req'[u].key, req'[u].speech))
        BY <3>2, OneStoring
      <4> QED
        BY <3>2, <4>1, PromisedNow
    <3> HIDE DEF own, kept
    <3>5. Promised = Shrunk(Parted(line, all, count))
      BY <1>3, <3>3, PartedStored
    <3>6. Promised' = Shrunk(Parted(line, all, count'))
      BY <1>3, <3>4, PartedStored
    <3> HIDE DEF line, all
    <3>7. ASSUME NEW k, NEW s, NBytes[s] > MaxBytes,
                 OneRejected(count, count')
          PROVE  AfterPut(Shrunk(Parted(line, all, count)), k, s) = Shrunk(Parted(line, all, count'))
      BY <3>7, RejectionCounted
    <3> QED
      BY <3>5, <3>6, <3>7
  <2> QED
    BY <2>1, <2>2
<1>5. CASE UNCHANGED <<count, got>>
  BY <1>1, <1>4, <1>5
<1>6. ASSUME ~enabled, UNCHANGED count, NEW k \in Keys, got' = [got EXCEPT ![t] = None]
      PROVE  Promise!Next
  BY <1>1, <1>4, <1>6, AbstractGet
<1>7. ASSUME NEW k \in Keys, NEW s \in Speech, enabled, UNCHANGED got,
             NBytes[s] > MaxBytes, count' = [count EXCEPT !["rejections"] = @ + 1]
      PROVE  Promise!Next
  <2>1. OneRejected(count, count')
    BY <1>2, <1>7 DEF OneRejected, Counters
  <2>2. Promised' = AfterPut(Promised, k, s)
    BY <1>4, <1>7, <2>1
  <2> QED
    BY <1>1, <1>7, <2>2, AbstractPut
<1> QED
  BY <1>5, <1>6, <1>7, AskCases

-----------------------------------------------------------------------------
LEMMA PromiseInit == Init => Promise!Init
<1> SUFFICES ASSUME Init PROVE Promise!Init
  OBVIOUS
<1>1. Promised = Now
  BY NoneStoring, PromisedNow DEF Init
<1>2. Now = Cold
  BY DEF Now, Cold, Init, Counters
<1> QED
  BY <1>1, <1>2, SameOperators DEF Init, Promise!Init

LEMMA PromiseNext ==
  Inv /\ Inv' /\ Admitted /\ [Next]_vars => [Promise!Next]_(Promise!cacheVars)
<1> SUFFICES ASSUME Inv, Inv', Admitted, [Next]_vars
             PROVE  Promise!Next \/ UNCHANGED <<enabled, Promised, got>>
  BY DEF Promise!cacheVars
<1>1. CASE UNCHANGED vars
  <2>1. /\ UNCHANGED <<enabled, got, pc, req, order, held, count>>
    BY <1>1 DEF vars
  <2>2. Now' = Now
    BY <2>1, NowParted
  <2> QED
    BY <2>1, <2>2, PromisedNow
<1>2. ASSUME NEW t \in Threads, Ask(t)
      PROVE  Promise!Next \/ UNCHANGED <<enabled, Promised, got>>
  BY <1>2, AskPromise
<1>3. ASSUME NEW t \in Threads, Proceed(t)
      PROVE  Promise!Next \/ UNCHANGED <<enabled, Promised, got>>
  BY <1>3, AcquirePromise, LookupPromise, PopPromise, InsertPromise, EvictPromise,
     FinishPromise, WipePromise DEF Proceed
<1> QED
  BY <1>1, <1>2, <1>3 DEF Next, Quiet

(***************************************************************************)
(* The locked, statement-by-statement code is linearizable: every call     *)
(* changes the cache, its counters and its caller's answer as if it had    *)
(* happened at one instant, whatever the other threads are doing.          *)
(***************************************************************************)
THEOREM CacheIsLinearizable == Spec => Linearizable
<1>1. Inv /\ Admitted /\ [Next]_vars => Inv' /\ Admitted'
  BY NextInv, AdmittedNext
<1>2. Inv /\ Inv' /\ Admitted /\ [Next]_vars => [Promise!Next]_(Promise!cacheVars)
  BY PromiseNext
<1> QED
  BY <1>1, <1>2, InitInv, AdmittedInit, PromiseInit, PTL
     DEF Spec, Linearizable, Promise!Spec
=============================================================================
