---------------------------- MODULE SequenceFacts ----------------------------
(***************************************************************************)
(* Facts about sequences and numbers that the proofs of several components *)
(* rest on: what joining sequences makes of them, which says what was      *)
(* spoken of a text and heard of a caller; queues in which nothing is      *)
(* twice, as the cache's order and the waiters of a semaphore; what can be *)
(* sorted, and how much is below a place of what is sorted.                *)
(***************************************************************************)
EXTENDS Integers, SequencesExt, SequenceTheorems, WellFoundedInduction,
        FiniteSetTheorems, TLAPS

-----------------------------------------------------------------------------
(***************************************************************************)
(* A set of naturals that is not empty has a least element: the searches   *)
(* of the chunker find one, and the proofs below are by a least            *)
(* counterexample.                                                         *)
(***************************************************************************)
LEMMA Least ==
  ASSUME NEW T \in SUBSET Nat, T # {}
  PROVE  \E n \in T : \A m \in T : n <= m
<1> DEFINE R == OpToRel(<, Nat)
<1>1. IsWellFoundedOn(R, Nat)
  BY NatLessThanWellFounded
<1>2. \A m, n \in Nat : <<m, n>> \in R <=> m < n
  BY DEF OpToRel
<1> HIDE DEF R
<1>3. PICK n \in T : \A m \in T : ~(<<m, n>> \in R)
  BY <1>1, WFMin
<1>4. \A m \in T : m \in Nat /\ n \in Nat /\ ~(m < n)
  BY <1>2, <1>3
<1>5. \A m \in T : n <= m
  BY <1>4
<1> QED
  BY <1>5

-----------------------------------------------------------------------------
(***************************************************************************)
(* f[i] is what the first i of the sequences in s make when they are       *)
(* joined.  What FlattenSeq computes is such an f, and there is only one:  *)
(* a least index at which two of them differ cannot exist.                 *)
(***************************************************************************)
Joins(s, f, m) ==
  \A i \in 1..m : f[i] = IF i = 1 THEN s[i] ELSE f[i - 1] \o s[i]

LEMMA JoinsAgree ==
  ASSUME NEW s, NEW t, NEW f, NEW g, NEW m \in Nat, Joins(s, f, m), Joins(t, g, m),
         \A i \in 1..m : s[i] = t[i]
  PROVE  \A i \in 1..m : f[i] = g[i]
<1> DEFINE T == {i \in 1..m : f[i] # g[i]}
<1> SUFFICES ASSUME T # {} PROVE FALSE
  OBVIOUS
<1>1. T \in SUBSET Nat
  OBVIOUS
<1>2. PICK n \in T : \A k \in T : n <= k
  <2> HIDE DEF T
  <2> QED BY <1>1, Least
<1>3. n \in 1..m /\ f[n] # g[n] /\ (n # 1 => n - 1 \in 1..m /\ ~(n <= n - 1))
  OBVIOUS
<1>4. n # 1 => f[n - 1] = g[n - 1]
  BY <1>2, <1>3
<1> QED
  BY <1>3, <1>4 DEF Joins

LEMMA JoinsExist ==
  ASSUME NEW s, NEW n \in Nat
  PROVE  \E f : f = [i \in 1..n |-> IF i = 1 THEN s[i] ELSE f[i - 1] \o s[i]]
<1> DEFINE T == {m \in 0..n : ~(\E g : Joins(s, g, m))}
<1>1. T = {}
  <2> SUFFICES ASSUME T # {} PROVE FALSE
    OBVIOUS
  <2>1. T \in SUBSET Nat
    OBVIOUS
  <2>2. PICK m \in T : \A k \in T : m <= k
    <3> HIDE DEF T
    <3> QED BY <2>1, Least
  <2>3. m \in 0..n /\ ~(\E g : Joins(s, g, m))
    OBVIOUS
  <2>4. m # 0
    BY <2>3 DEF Joins
  <2>5. m - 1 \in 0..n /\ ~(m <= m - 1)
    BY <2>3, <2>4
  <2>6. PICK g : Joins(s, g, m - 1)
    BY <2>2, <2>5
  <2> DEFINE h == [i \in 1..m |-> IF i # m THEN g[i]
                                  ELSE IF i = 1 THEN s[i] ELSE g[i - 1] \o s[i]]
  <2>7. Joins(s, h, m)
    <3> SUFFICES ASSUME NEW i \in 1..m
                 PROVE  h[i] = IF i = 1 THEN s[i] ELSE h[i - 1] \o s[i]
      BY DEF Joins
    <3>1. i # 1 => i - 1 \in 1..m /\ i - 1 # m /\ h[i - 1] = g[i - 1]
      BY <2>3
    <3>2. CASE i = m
      BY <3>1, <3>2
    <3>3. CASE i # m
      <4>1. i \in 1..(m - 1) /\ h[i] = g[i]
        BY <2>3, <3>3
      <4>2. g[i] = IF i = 1 THEN s[i] ELSE g[i - 1] \o s[i]
        BY <2>6, <4>1 DEF Joins
      <4> QED
        BY <3>1, <4>1, <4>2
    <3> QED
      BY <3>2, <3>3
  <2> QED
    BY <2>3, <2>7
<1>2. PICK g : Joins(s, g, n)
  BY <1>1
<1> DEFINE f == [i \in 1..n |-> g[i]]
<1>3. ASSUME NEW i \in 1..n PROVE f[i] = IF i = 1 THEN s[i] ELSE f[i - 1] \o s[i]
  <2>1. i # 1 => i - 1 \in 1..n
    OBVIOUS
  <2> QED
    BY <1>2, <2>1 DEF Joins
<1>4. f = [i \in 1..n |-> IF i = 1 THEN s[i] ELSE f[i - 1] \o s[i]]
  BY <1>3
<1> QED
  BY <1>4

LEMMA FlattenIs ==
  ASSUME NEW s, Len(s) \in Nat \ {0}
  PROVE  \E f : Joins(s, f, Len(s)) /\ FlattenSeq(s) = f[Len(s)]
<1> DEFINE f == CHOOSE f : f = [i \in 1..Len(s) |->
                                  IF i = 1 THEN s[i] ELSE f[i - 1] \o s[i]]
<1>1. FlattenSeq(s) = f[Len(s)]
  BY SMTT(30) DEF FlattenSeq
<1>2. f = [i \in 1..Len(s) |-> IF i = 1 THEN s[i] ELSE f[i - 1] \o s[i]]
  BY JoinsExist
<1> HIDE DEF f
<1>3. Joins(s, f, Len(s))
  BY <1>2 DEF Joins
<1> QED
  BY <1>1, <1>3

(***************************************************************************)
(* Nothing, and one sequence more.                                         *)
(***************************************************************************)
LEMMA FlattenNone ==
  /\ FlattenSeq(<<>>) = <<>>
  /\ \A S : \A s \in Seq(S) : Len(s) = 0 => s = <<>> /\ FlattenSeq(s) = <<>>
<1>1. ASSUME NEW S, NEW s \in Seq(S), Len(s) = 0 PROVE s = <<>> /\ FlattenSeq(s) = <<>>
  <2>1. s = <<>>
    BY <1>1, EmptySeq
  <2> QED
    BY <1>1, <2>1 DEF FlattenSeq
<1>2. FlattenSeq(<<>>) = <<>>
  BY EmptySeq DEF FlattenSeq
<1> QED
  BY <1>1, <1>2

LEMMA FlattenTyped ==
  ASSUME NEW S, NEW s \in Seq(Seq(S))
  PROVE  FlattenSeq(s) \in Seq(S)
<1>1. Len(s) \in Nat /\ \A i \in 1..Len(s) : s[i] \in Seq(S)
  BY LenProperties, ElementOfSeq
<1>2. CASE Len(s) = 0
  BY <1>2, FlattenNone, EmptySeq
<1>3. CASE Len(s) # 0
  <2>1. PICK f : Joins(s, f, Len(s)) /\ FlattenSeq(s) = f[Len(s)]
    BY <1>1, <1>3, FlattenIs
  <2> DEFINE T == {i \in 1..Len(s) : f[i] \notin Seq(S)}
  <2>2. T = {}
    <3> SUFFICES ASSUME T # {} PROVE FALSE
      OBVIOUS
    <3>1. T \in SUBSET Nat
      OBVIOUS
    <3>2. PICK n \in T : \A k \in T : n <= k
      <4> HIDE DEF T
      <4> QED BY <3>1, Least
    <3>3. /\ n \in 1..Len(s) /\ f[n] \notin Seq(S)
          /\ n # 1 => n - 1 \in 1..Len(s) /\ ~(n <= n - 1)
      OBVIOUS
    <3>4. n # 1 => f[n - 1] \in Seq(S)
      BY <3>2, <3>3
    <3>5. n # 1 => f[n - 1] \o s[n] \in Seq(S)
      BY <1>1, <3>3, <3>4, ConcatProperties
    <3>6. f[n] = IF n = 1 THEN s[n] ELSE f[n - 1] \o s[n]
      BY <2>1, <3>3 DEF Joins
    <3> QED
      BY <1>1, <3>3, <3>5, <3>6
  <2>3. Len(s) \in 1..Len(s)
    BY <1>1, <1>3
  <2> QED
    BY <2>1, <2>2, <2>3
<1> QED
  BY <1>2, <1>3

LEMMA FlattenAppend ==
  ASSUME NEW S, NEW s \in Seq(Seq(S)), NEW a \in Seq(S)
  PROVE  FlattenSeq(Append(s, a)) = FlattenSeq(s) \o a
<1> DEFINE c == Append(s, a)
           n == Len(s)
<1>1. /\ c \in Seq(Seq(S)) /\ Len(c) = n + 1 /\ n \in Nat
      /\ \A i \in 1..n : c[i] = s[i]
      /\ c[n + 1] = a
  BY AppendProperties, LenProperties
<1> HIDE DEF c
<1>2. Len(c) \in Nat \ {0}
  BY <1>1
<1>3. PICK g : Joins(c, g, n + 1) /\ FlattenSeq(c) = g[n + 1]
  BY <1>1, <1>2, FlattenIs
<1>4. g[n + 1] = IF n + 1 = 1 THEN c[n + 1] ELSE g[n + 1 - 1] \o c[n + 1]
  <2>1. n + 1 \in 1..(n + 1)
    BY <1>1
  <2> QED
    BY <1>3, <2>1 DEF Joins
<1>5. CASE n = 0
  <2>1. FlattenSeq(s) = <<>>
    BY <1>5, FlattenNone
  <2>2. <<>> \o a = a
    BY ConcatEmptySeq
  <2>3. FlattenSeq(c) = a
    BY <1>1, <1>3, <1>4, <1>5
  <2> QED
    BY <2>1, <2>2, <2>3 DEF c
<1>6. CASE n # 0
  <2>1. PICK f : Joins(s, f, n) /\ FlattenSeq(s) = f[n]
    BY <1>1, <1>6, FlattenIs
  <2>2. Joins(c, g, n)
    BY <1>1, <1>3 DEF Joins
  <2>3. \A i \in 1..n : g[i] = f[i]
    <3> HIDE DEF n
    <3> QED BY <1>1, <2>1, <2>2, JoinsAgree
  <2>4. n \in 1..n /\ n + 1 # 1 /\ n + 1 - 1 = n
    BY <1>1, <1>6
  <2>5. FlattenSeq(c) = g[n] \o a
    BY <1>1, <1>3, <1>4, <2>4
  <2> QED
    BY <2>1, <2>3, <2>4, <2>5 DEF c
<1> QED
  BY <1>5, <1>6

LEMMA Regroup ==
  ASSUME NEW S
  PROVE  \A x, y, z \in Seq(S) : (x \o y) \o z = x \o (y \o z)
BY ConcatAssociative

(***************************************************************************)
(* FlattenSeq distributes over concatenation: a shortest t for which it    *)
(* does not is another one with a last sequence appended.                  *)
(***************************************************************************)
LEMMA FlattenOneMore ==
  ASSUME NEW S, NEW s \in Seq(Seq(S)), NEW v \in Seq(Seq(S)), NEW a \in Seq(S),
         FlattenSeq(s \o v) = FlattenSeq(s) \o FlattenSeq(v)
  PROVE  FlattenSeq(s \o Append(v, a)) = FlattenSeq(s) \o FlattenSeq(Append(v, a))
<1>1. s \o Append(v, a) = Append(s \o v, a) /\ s \o v \in Seq(Seq(S))
  <2>1. s \o v \in Seq(Seq(S)) /\ <<a>> \in Seq(Seq(S))
    BY ConcatProperties
  <2>2. Append(v, a) = v \o <<a>> /\ Append(s \o v, a) = (s \o v) \o <<a>>
    BY <2>1, AppendIsConcat
  <2>3. s \o (v \o <<a>>) = (s \o v) \o <<a>>
    BY <2>1, ConcatAssociative
  <2> QED
    BY <2>1, <2>2, <2>3
<1>2. FlattenSeq(s \o Append(v, a)) = FlattenSeq(s \o v) \o a
  BY <1>1, FlattenAppend
<1>3. FlattenSeq(Append(v, a)) = FlattenSeq(v) \o a
  BY FlattenAppend
<1> DEFINE x == FlattenSeq(s)
           y == FlattenSeq(v)
<1>4. x \in Seq(S) /\ y \in Seq(S)
  BY FlattenTyped
<1> HIDE DEF x, y
<1>5. (x \o y) \o a = x \o (y \o a)
  BY SMTT(30), <1>4, Regroup
<1> QED
  BY <1>2, <1>3, <1>5 DEF x, y

LEMMA FlattenConcat ==
  ASSUME NEW S, NEW s \in Seq(Seq(S)), NEW t \in Seq(Seq(S))
  PROVE  FlattenSeq(s \o t) = FlattenSeq(s) \o FlattenSeq(t)
<1> DEFINE Good(u) == FlattenSeq(s \o u) = FlattenSeq(s) \o FlattenSeq(u)
           T == {n \in Nat : \E u \in Seq(Seq(S)) : Len(u) = n /\ ~Good(u)}
<1> SUFFICES ASSUME ~Good(t) PROVE FALSE
  OBVIOUS
<1>1. T \in SUBSET Nat /\ T # {}
  BY LenProperties
<1>2. PICK n \in T : \A k \in T : n <= k
  <2> HIDE DEF T
  <2> QED BY <1>1, Least
<1>3. PICK u \in Seq(Seq(S)) : Len(u) = n /\ ~Good(u)
  OBVIOUS
<1>4. ASSUME NEW v \in Seq(Seq(S)), ~(n <= Len(v)) PROVE Good(v)
  <2>1. Len(v) \in Nat
    BY LenProperties
  <2> HIDE DEF Good
  <2> QED
    BY <1>2, <1>4, <2>1
<1> HIDE DEF T
<1>5. FlattenSeq(s) \in Seq(S) /\ s \o <<>> = s
  BY FlattenTyped, ConcatEmptySeq
<1>6. u # <<>>
  BY <1>3, <1>5, FlattenNone, ConcatEmptySeq
<1>7. PICK v \in Seq(Seq(S)), a \in Seq(S) : u = Append(v, a)
  BY <1>6, SequenceEmptyOrAppend
<1>8. Len(v) \in Nat /\ Len(u) = Len(v) + 1
  BY <1>7, AppendProperties, LenProperties
<1>9. Good(v)
  <2>1. ~(n <= Len(v))
    BY <1>3, <1>8
  <2> HIDE DEF Good
  <2> QED
    BY <1>4, <2>1
<1> QED
  BY <1>3, <1>7, <1>9, FlattenOneMore

(***************************************************************************)
(* Joining nothing but empty sequences makes an empty one.                 *)
(***************************************************************************)
LEMMA FlattenEmpties ==
  ASSUME NEW S, NEW v \in Seq(Seq(S)), \A i \in 1..Len(v) : v[i] = <<>>
  PROVE  FlattenSeq(v) = <<>>
<1>1. Len(v) \in Nat
  BY LenProperties
<1>2. CASE Len(v) = 0
  BY <1>2, FlattenNone
<1>3. CASE Len(v) # 0
  <2>1. PICK f : Joins(v, f, Len(v)) /\ FlattenSeq(v) = f[Len(v)]
    BY <1>1, <1>3, FlattenIs
  <2> DEFINE g == [i \in 1..Len(v) |-> <<>>]
  <2>2. <<>> \o <<>> = <<>>
    BY ConcatEmptySeq, EmptySeq
  <2>3. Joins(v, g, Len(v))
    <3> SUFFICES ASSUME NEW i \in 1..Len(v)
                 PROVE  g[i] = IF i = 1 THEN v[i] ELSE g[i - 1] \o v[i]
      BY DEF Joins
    <3>1. i # 1 => i - 1 \in 1..Len(v)
      BY <1>1
    <3> QED
      BY <2>2, <3>1
  <2>4. \A i \in 1..Len(v) : f[i] = g[i]
    <3> HIDE DEF g
    <3> QED BY <1>1, <2>1, <2>3, JoinsAgree
  <2>5. Len(v) \in 1..Len(v)
    BY <1>1, <1>3
  <2> QED
    BY <2>1, <2>4, <2>5
<1> QED
  BY <1>2, <1>3

\* A function on 1..n is a sequence of length n.
LEMMA SequenceOf ==
  ASSUME NEW S, NEW n \in Nat, NEW q \in [1..n -> S]
  PROVE  q \in Seq(S) /\ Len(q) = n
<1>1. q \in Seq(S)
  BY SeqDef
<1>2. Len(q) \in Nat /\ DOMAIN q = 1..Len(q) /\ DOMAIN q = 1..n
  BY <1>1, LenProperties
<1>3. Len(q) = n
  BY <1>2
<1> QED
  BY <1>1, <1>3

\* A sequence with one more.
LEMMA OneMore ==
  ASSUME NEW S, NEW s \in Seq(S), NEW x \in S
  PROVE  /\ Append(s, x) \in Seq(S) /\ Len(Append(s, x)) = Len(s) + 1 /\ Len(s) \in Nat
         /\ \A i \in 1..Len(s) : Append(s, x)[i] = s[i]
         /\ Append(s, x)[Len(s) + 1] = x
BY AppendProperties, LenProperties

LEMMA OneTyped == ASSUME NEW S, NEW x \in S PROVE <<x>> \in Seq(S)
OBVIOUS

LEMMA OneIsSome == ASSUME NEW x PROVE <<x>> # <<>>
OBVIOUS

(***************************************************************************)
(* Joining sequences of one element each gives these elements.             *)
(***************************************************************************)
LEMMA FlattenSingles ==
  ASSUME NEW S, NEW v \in Seq(Seq(S)), NEW s \in Seq(S), Len(v) = Len(s),
         \A i \in 1..Len(v) : v[i] = <<s[i]>>
  PROVE  FlattenSeq(v) = s
<1> DEFINE n == Len(v)
<1>1. n \in Nat /\ Len(s) = n /\ \A i \in 1..n : v[i] = <<s[i]>> /\ s[i] \in S
  BY LenProperties, ElementOfSeq
<1> HIDE DEF n
<1>2. CASE n = 0
  BY <1>1, <1>2, FlattenNone DEF n
<1>3. CASE n # 0
  <2>1. PICK f : Joins(v, f, n) /\ FlattenSeq(v) = f[n]
    BY <1>1, <1>3, FlattenIs DEF n
  <2> DEFINE h(i) == [k \in 1..i |-> s[k]]
             g == [i \in 1..n |-> h(i)]
  <2>2. \A i \in 0..n : h(i) \in Seq(S) /\ Len(h(i)) = i
    <3> SUFFICES ASSUME NEW i \in 0..n PROVE h(i) \in Seq(S) /\ Len(h(i)) = i
      OBVIOUS
    <3>1. i \in Nat /\ h(i) \in [1..i -> S]
      BY <1>1
    <3> HIDE DEF h
    <3> QED
      BY <3>1, SequenceOf
  <2>3. Joins(v, g, n)
    <3> SUFFICES ASSUME NEW i \in 1..n
                 PROVE  g[i] = IF i = 1 THEN v[i] ELSE g[i - 1] \o v[i]
      BY DEF Joins
    <3>1. v[i] = <<s[i]>> /\ <<s[i]>> \in Seq(S) /\ Len(<<s[i]>>) = 1 /\ <<s[i]>>[1] = s[i]
      BY <1>1
    <3>2. h(i) \in Seq(S) /\ Len(h(i)) = i /\ i \in Nat /\ g[i] = h(i)
      BY <1>1, <2>2
    <3>3. CASE i = 1
      <4>1. \A k \in 1..1 : k = 1
        OBVIOUS
      <4>2. h(i)[1] = s[1]
        BY <3>3
      <4> HIDE DEF h
      <4>3. h(i) = <<s[i]>>
        BY <3>1, <3>2, <3>3, <4>1, <4>2, SeqEqual
      <4> QED
        BY <3>1, <3>2, <3>3, <4>3
    <3>4. CASE i # 1
      <4> DEFINE p == h(i - 1)
                 l == <<s[i]>>
      <4>1. i - 1 \in 1..n /\ i - 1 \in 0..n
        BY <1>1, <3>4
      <4>2. p \in Seq(S) /\ Len(p) = i - 1 /\ g[i - 1] = p
        BY <2>2, <4>1
      <4>3. \A k \in 1..(i - 1) : p[k] = s[k]
        OBVIOUS
      <4>4. \A k \in 1..i : h(i)[k] = s[k]
        OBVIOUS
      <4>5. l \in Seq(S) /\ Len(l) = 1 /\ l[1] = s[i] /\ v[i] = l
        BY <3>1
      <4> HIDE DEF p, l, h, g
      <4>6. /\ p \o l \in Seq(S) /\ Len(p \o l) = i
            /\ \A k \in 1..i : (p \o l)[k] = IF k <= i - 1 THEN p[k] ELSE l[k - (i - 1)]
        <5>1. /\ p \o l \in Seq(S) /\ Len(p \o l) = Len(p) + Len(l)
              /\ \A k \in 1..(Len(p) + Len(l)) :
                   (p \o l)[k] = IF k <= Len(p) THEN p[k] ELSE l[k - Len(p)]
          <6>1. p \in Seq(S) /\ l \in Seq(S)
            BY <4>2, <4>5
          <6> QED
            BY ONLY <6>1, ConcatProperties
        <5>2. Len(p) + Len(l) = i
          BY <3>2, <4>2, <4>5
        <5> QED
          BY <4>2, <5>1, <5>2
      <4>7. \A k \in 1..i : (p \o l)[k] = h(i)[k]
        <5> SUFFICES ASSUME NEW k \in 1..i PROVE (p \o l)[k] = h(i)[k]
          OBVIOUS
        <5>1. CASE k <= i - 1
          <6>1. k \in 1..(i - 1)
            BY <3>2, <5>1
          <6> QED
            BY <4>3, <4>4, <4>6, <5>1, <6>1
        <5>2. CASE ~(k <= i - 1)
          <6>1. k = i /\ k - (i - 1) = 1
            BY <3>2, <5>2
          <6> QED
            BY <4>4, <4>5, <4>6, <5>2, <6>1
        <5> QED
          BY <5>1, <5>2
      <4>8. p \o l = h(i)
        BY <3>2, <4>6, <4>7, SeqEqual
      <4> QED
        BY <3>2, <3>4, <4>2, <4>5, <4>8
    <3> QED
      BY <3>3, <3>4
  <2>4. \A i \in 1..n : f[i] = g[i]
    <3> HIDE DEF g
    <3> QED BY <1>1, <2>1, <2>3, JoinsAgree
  <2>5. n \in 1..n /\ n \in 0..n
    BY <1>1, <1>3
  <2>6. g[n] = h(n)
    BY <2>5
  <2>7. h(n) = s
    <3>1. \A k \in 1..n : h(n)[k] = s[k]
      OBVIOUS
    <3>2. h(n) \in Seq(S) /\ Len(h(n)) = n
      BY <2>2, <2>5
    <3> HIDE DEF h
    <3> QED
      BY <1>1, <3>1, <3>2, SeqEqual
  <2> QED
    BY <2>1, <2>4, <2>5, <2>6, <2>7
<1> QED
  BY <1>2, <1>3

(***************************************************************************)
(* Of a sequence of sequences of at most one element each, FlattenSeq      *)
(* picks those there are, in order: at says where each of them was.        *)
(***************************************************************************)
Picks(at, u) ==
  LET n == Len(FlattenSeq(u))
  IN  /\ at \in [1..n -> 1..Len(u)]
      /\ \A j, k \in 1..n : j < k => at[j] < at[k]
      /\ \A k \in 1..n : u[at[k]] = <<FlattenSeq(u)[k]>>
      /\ \A i \in 1..Len(u) : u[i] # <<>> => \E k \in 1..n : at[k] = i

\* Each element of u has at most one element.
AtMostOnes(u, S) == \A i \in 1..Len(u) : u[i] = <<>> \/ \E e \in S : u[i] = <<e>>

LEMMA PicksOfNone == ASSUME NEW S PROVE \A u \in Seq(Seq(S)) : Len(u) = 0 => \E at : Picks(at, u)
<1> SUFFICES ASSUME NEW u \in Seq(Seq(S)), Len(u) = 0 PROVE \E at : Picks(at, u)
  OBVIOUS
<1>1. FlattenSeq(u) = <<>>
  BY FlattenNone
<1>2. Len(FlattenSeq(u)) = 0
  BY <1>1, EmptySeq
<1> DEFINE at == [k \in 1..0 |-> 0]
<1>3. at \in [1..0 -> 1..0]
  OBVIOUS
<1> HIDE DEF at
<1>4. Picks(at, u)
  BY <1>2, <1>3 DEF Picks
<1> QED
  BY <1>4

LEMMA PicksOneMore ==
  ASSUME NEW S, NEW v \in Seq(Seq(S)), NEW a \in Seq(S), NEW u, u = Append(v, a),
         a = <<>> \/ \E e \in S : a = <<e>>,
         \E at : Picks(at, v)
  PROVE  \E at : Picks(at, u)
<1> DEFINE m == Len(v)
           f == FlattenSeq(v)
           n == Len(f)
<1>1. PICK at : Picks(at, v)
  OBVIOUS
<1>2. /\ m \in Nat /\ Len(u) = m + 1 /\ u[m + 1] = a
      /\ \A i \in 1..m : u[i] = v[i]
  BY OneMore
<1>3. f \in Seq(S) /\ n \in Nat
  BY FlattenTyped, LenProperties
<1>4. FlattenSeq(u) = f \o a
  BY FlattenAppend
<1> HIDE DEF m, f, n
<1>5. /\ at \in [1..n -> 1..m]
      /\ \A j, k \in 1..n : j < k => at[j] < at[k]
      /\ \A k \in 1..n : v[at[k]] = <<f[k]>>
      /\ \A i \in 1..m : v[i] # <<>> => \E k \in 1..n : at[k] = i
  BY <1>1 DEF Picks, m, f, n
<1>6. CASE a = <<>>
  <2>1. FlattenSeq(u) = f
    BY <1>3, <1>4, <1>6, ConcatEmptySeq
  <2>2. Len(FlattenSeq(u)) = n
    BY <2>1 DEF n
  <2>3. at \in [1..n -> 1..Len(u)]
    BY <1>2, <1>5
  <2>4. \A k \in 1..n : u[at[k]] = <<f[k]>>
    BY <1>2, <1>5
  <2>5. \A i \in 1..Len(u) : u[i] # <<>> => \E k \in 1..n : at[k] = i
    <3> SUFFICES ASSUME NEW i \in 1..Len(u), u[i] # <<>> PROVE \E k \in 1..n : at[k] = i
      OBVIOUS
    <3>1. i \in 1..m \/ i = m + 1
      BY <1>2
    <3>2. i \in 1..m /\ v[i] # <<>>
      BY <1>2, <1>6, <3>1
    <3> QED
      BY <1>5, <3>2
  <2>6. Picks(at, u)
    BY <1>5, <2>1, <2>2, <2>3, <2>4, <2>5 DEF Picks
  <2> QED
    BY <2>6
<1>7. ASSUME NEW e \in S, a = <<e>> PROVE \E b : Picks(b, u)
  <2> DEFINE g == FlattenSeq(u)
             b == [k \in 1..(n + 1) |-> IF k = n + 1 THEN m + 1 ELSE at[k]]
  <2>1. g = Append(f, e)
    BY <1>3, <1>4, <1>7, AppendIsConcat
  <2> HIDE DEF g
  <2>2. Len(g) = n + 1 /\ g[n + 1] = e /\ \A k \in 1..n : g[k] = f[k]
    BY <1>3, <2>1, OneMore DEF n
  <2>3. \A k \in 1..(n + 1) : k \in 1..n \/ k = n + 1
    BY <1>3
  <2>4. b \in [1..(n + 1) -> 1..(m + 1)]
    BY <1>2, <1>5, <2>3
  <2>5. b[n + 1] = m + 1 /\ \A k \in 1..n : b[k] = at[k] /\ b[k] \in 1..m
    BY <1>3, <1>5
  <2> HIDE DEF b
  <2>6. \A j, k \in 1..(n + 1) : j < k => b[j] < b[k]
    <3> SUFFICES ASSUME NEW j \in 1..(n + 1), NEW k \in 1..(n + 1), j < k PROVE b[j] < b[k]
      OBVIOUS
    <3>1. j \in 1..n
      BY <1>3
    <3>2. CASE k = n + 1
      BY <1>2, <2>5, <3>1, <3>2
    <3>3. CASE k # n + 1
      <4>1. k \in 1..n
        BY <2>3, <3>3
      <4> QED
        BY <1>5, <2>5, <3>1, <4>1
    <3> QED
      BY <3>2, <3>3
  <2>7. \A k \in 1..(n + 1) : u[b[k]] = <<g[k]>>
    <3> SUFFICES ASSUME NEW k \in 1..(n + 1) PROVE u[b[k]] = <<g[k]>>
      OBVIOUS
    <3>1. CASE k = n + 1
      BY <1>2, <1>7, <2>2, <2>5, <3>1
    <3>2. CASE k # n + 1
      <4>1. k \in 1..n
        BY <2>3, <3>2
      <4> QED
        BY SMTT(30), <1>2, <1>5, <2>2, <2>5, <4>1
    <3> QED
      BY <3>1, <3>2
  <2>8. \A i \in 1..(m + 1) : u[i] # <<>> => \E k \in 1..(n + 1) : b[k] = i
    <3> SUFFICES ASSUME NEW i \in 1..(m + 1), u[i] # <<>>
                 PROVE  \E k \in 1..(n + 1) : b[k] = i
      OBVIOUS
    <3>1. CASE i = m + 1
      BY <1>3, <2>5, <3>1
    <3>2. CASE i # m + 1
      <4>1. i \in 1..m /\ v[i] # <<>>
        BY <1>2, <3>2
      <4>2. PICK k \in 1..n : at[k] = i
        BY <1>5, <4>1
      <4>3. k \in 1..(n + 1) /\ b[k] = i
        BY <1>3, <2>5, <4>2
      <4> QED
        BY <4>3
    <3> QED
      BY <3>1, <3>2
  <2>9. Picks(b, u)
    BY <1>2, <2>2, <2>4, <2>6, <2>7, <2>8 DEF Picks, g
  <2> QED
    BY <2>9
<1> QED
  BY <1>6, <1>7

LEMMA FlattenPicks ==
  ASSUME NEW S, NEW t \in Seq(Seq(S)), AtMostOnes(t, S)
  PROVE  \E at : Picks(at, t)
<1> DEFINE Good(u) == \E at : Picks(at, u)
           T == {n \in Nat : \E u \in Seq(Seq(S)) : Len(u) = n /\ AtMostOnes(u, S) /\ ~Good(u)}
<1> SUFFICES ASSUME ~Good(t) PROVE FALSE
  OBVIOUS
<1>1. T \in SUBSET Nat /\ T # {}
  BY LenProperties
<1>2. PICK n \in T : \A k \in T : n <= k
  <2> HIDE DEF T
  <2> QED BY <1>1, Least
<1>3. PICK u \in Seq(Seq(S)) : Len(u) = n /\ AtMostOnes(u, S) /\ ~Good(u)
  OBVIOUS
<1>4. ASSUME NEW v \in Seq(Seq(S)), ~(n <= Len(v)), AtMostOnes(v, S) PROVE Good(v)
  <2> SUFFICES ASSUME ~Good(v) PROVE FALSE
    OBVIOUS
  <2>1. Len(v) \in Nat
    BY LenProperties
  <2>2. Len(v) \in T
    BY <1>4, <2>1
  <2> QED
    BY <1>2, <1>4, <2>2
<1>5. n \in Nat
  BY <1>1, <1>2
<1> HIDE DEF T
<1>6. u # <<>>
  <2>1. CASE n = 0
    BY <1>3, <2>1, PicksOfNone
  <2>2. CASE n # 0
    BY <1>3, <2>2, EmptySeq
  <2> QED
    BY <2>1, <2>2
<1>7. PICK v \in Seq(Seq(S)), a \in Seq(S) : u = Append(v, a)
  BY <1>6, SequenceEmptyOrAppend
<1>8. /\ Len(v) \in Nat /\ Len(u) = Len(v) + 1 /\ u[Len(v) + 1] = a
      /\ \A i \in 1..Len(v) : u[i] = v[i]
  BY <1>7, OneMore
<1>9. AtMostOnes(v, S) /\ (a = <<>> \/ \E e \in S : a = <<e>>)
  <2>1. \A i \in 1..Len(v) : i \in 1..Len(u)
    BY <1>8
  <2>2. Len(v) + 1 \in 1..Len(u)
    BY <1>8
  <2> QED
    BY <1>3, <1>8, <2>1, <2>2 DEF AtMostOnes
<1>10. Good(v)
  <2>1. ~(n <= Len(v))
    BY <1>3, <1>8
  <2> HIDE DEF Good
  <2> QED
    BY <1>4, <1>9, <2>1
<1> QED
  BY <1>3, <1>7, <1>9, <1>10, PicksOneMore

-----------------------------------------------------------------------------
(***************************************************************************)
(* The keys of an OrderedDict, a queue of tasks: sequences without         *)
(* repetitions.                                                            *)
(***************************************************************************)
NoRepeats(q) == \A i, j \in 1..Len(q) : q[i] = q[j] => i = j

(***************************************************************************)
(* Removing a listed element closes the gap it leaves.                         *)
(***************************************************************************)
LEMMA RemoveFirstShape ==
  ASSUME NEW S, NEW q \in Seq(S), NEW k, NoRepeats(q), NEW p \in 1..Len(q), q[p] = k
  PROVE  LET r == RemoveFirst(q, k)
         IN  /\ r \in Seq(S) /\ Len(r) = Len(q) - 1
             /\ \A i \in 1..Len(r) : r[i] = IF i < p THEN q[i] ELSE q[i + 1]
<1> DEFINE n == SelectInSeq(q, LAMBDA v : v = k)
           r == RemoveFirst(q, k)
           a == SubSeq(q, 1, p - 1)
           b == SubSeq(q, p + 1, Len(q))
<1>1. {i \in 1..Len(q) : q[i] = k} = {p}
  BY DEF NoRepeats
<1>2. n = p
  BY <1>1 DEF SelectInSeq, Min
<1> HIDE DEF n
<1>3. r = a \o b
  BY <1>2 DEF RemoveFirst, RemoveAt, n
<1> HIDE DEF r
<1>4. /\ a \in Seq(S) /\ Len(a) = p - 1
      /\ \A i \in 1..Len(a) : a[i] = q[i]
  BY SubSeqProperties
<1>5. /\ b \in Seq(S) /\ Len(b) = Len(q) - p
      /\ \A i \in 1..Len(b) : b[i] = q[p + i]
  BY SubSeqProperties
<1> HIDE DEF a, b
<1>6. /\ a \o b \in Seq(S)
      /\ Len(a \o b) = Len(a) + Len(b)
      /\ \A i \in 1..(Len(a) + Len(b)) :
           (a \o b)[i] = IF i <= Len(a) THEN a[i] ELSE b[i - Len(a)]
  BY <1>4, <1>5, ConcatProperties, Zenon
<1>7. Len(r) = Len(q) - 1 /\ Len(a) + Len(b) = Len(q) - 1
  <2>1. Len(r) = Len(a) + Len(b)
    BY <1>3, <1>6, Zenon
  <2>2. Len(q) \in Nat /\ Len(a) = p - 1 /\ Len(b) = Len(q) - p
    BY <1>4, <1>5, LenProperties
  <2> QED
    BY <2>1, <2>2
<1>8. ASSUME NEW i \in 1..Len(r)
      PROVE  r[i] = IF i < p THEN q[i] ELSE q[i + 1]
  <2>1. CASE i < p
    BY <1>3, <1>4, <1>6, <1>7, <2>1
  <2>2. CASE ~(i < p)
    <3>1. i - (p - 1) \in 1..Len(b) /\ p + (i - (p - 1)) = i + 1
      BY <1>5, <1>7, <2>2
    <3>2. r[i] = b[i - (p - 1)]
      BY <1>3, <1>4, <1>6, <1>7, <2>2
    <3> QED
      BY <1>5, <2>2, <3>1, <3>2
  <2> QED
    BY <2>1, <2>2
<1> QED
  BY <1>3, <1>6, <1>7, <1>8 DEF r

(***************************************************************************)
(* Removing a key keeps the others, and keeps them distinct.               *)
(***************************************************************************)
LEMMA RemoveFirstProperties ==
  ASSUME NEW S, NEW q \in Seq(S), NEW k, NoRepeats(q)
  PROVE  LET r == RemoveFirst(q, k)
         IN  r \in Seq(S) /\ NoRepeats(r) /\ ToSet(r) = ToSet(q) \ {k}
<1> DEFINE r == RemoveFirst(q, k)
<1>1. CASE ~ \E i \in 1..Len(q) : q[i] = k
  BY <1>1 DEF RemoveFirst, ToSet
<1>2. CASE \E i \in 1..Len(q) : q[i] = k
  <2>1. PICK p \in 1..Len(q) : q[p] = k
    BY <1>2
  <2>2. /\ r \in Seq(S)
        /\ Len(r) = Len(q) - 1
        /\ \A i \in 1..Len(r) : r[i] = IF i < p THEN q[i] ELSE q[i + 1]
    BY <2>1, RemoveFirstShape
  <2> HIDE DEF r
  <2>3. NoRepeats(r)
    BY <2>1, <2>2 DEF NoRepeats
  <2>4. ToSet(r) \subseteq ToSet(q) \ {k}
    BY <2>1, <2>2 DEF NoRepeats, ToSet
  <2>5. ASSUME NEW x \in ToSet(q) \ {k}
        PROVE  x \in ToSet(r)
    <3>1. PICK i \in 1..Len(q) : q[i] = x
      BY DEF ToSet
    <3>2. CASE i < p
      BY <2>1, <2>2, <3>1, <3>2 DEF ToSet
    <3>3. CASE i > p
      <4>1. i - 1 \in 1..Len(r) /\ r[i - 1] = x
        BY <2>1, <2>2, <3>1, <3>3
      <4> QED
        BY <4>1, <2>2 DEF ToSet
    <3> QED
      BY <2>1, <3>1, <3>2, <3>3
  <2> QED
    BY <2>2, <2>3, <2>4, <2>5 DEF r
<1> QED
  BY <1>1, <1>2

(***************************************************************************)
(* Appending a key that is not listed lists it, once and last.             *)
(***************************************************************************)
LEMMA AppendDistinct ==
  ASSUME NEW S, NEW q \in Seq(S), NEW k \in S, NoRepeats(q), k \notin ToSet(q)
  PROVE  LET r == Append(q, k)
         IN  /\ r \in Seq(S) /\ NoRepeats(r) /\ ToSet(r) = ToSet(q) \cup {k}
             /\ r # <<>> /\ r[Len(r)] = k
<1> DEFINE r == Append(q, k)
<1>1. /\ r \in Seq(S) /\ Len(r) = Len(q) + 1 /\ r[Len(r)] = k
      /\ \A i \in 1..Len(q) : r[i] = q[i]
  OBVIOUS
<1>2. Len(q) \in Nat /\ 1..Len(r) = 1..Len(q) \cup {Len(q) + 1}
  BY <1>1
<1>3. \A i \in 1..Len(q) : q[i] # k
  BY DEF ToSet
<1> HIDE DEF r
<1>4. NoRepeats(r)
  BY <1>1, <1>2, <1>3 DEF NoRepeats
<1>5. ToSet(r) = ToSet(q) \cup {k}
  BY <1>1, <1>2 DEF ToSet
<1>6. r # <<>>
  BY <1>1, <1>2
<1> QED
  BY <1>1, <1>4, <1>5, <1>6 DEF r

(***************************************************************************)
(* Popping the coldest key keeps the others, in their order.               *)
(***************************************************************************)
LEMMA TailDistinct ==
  ASSUME NEW S, NEW q \in Seq(S), NoRepeats(q), q # <<>>
  PROVE  /\ Tail(q) \in Seq(S) /\ NoRepeats(Tail(q)) /\ Head(q) \in S
         /\ ToSet(Tail(q)) = ToSet(q) \ {Head(q)}
         /\ Len(q) # 1 => Tail(q) # <<>> /\ Tail(q)[Len(Tail(q))] = q[Len(q)]
         /\ Len(q) = 1 => ToSet(q) = {q[1]}
         /\ Len(q) # 1 => Head(q) # q[Len(q)]
<1> DEFINE r == Tail(q)
<1>1. /\ r \in Seq(S) /\ Len(r) = Len(q) - 1 /\ Head(q) = q[1]
      /\ Len(q) \in Nat \ {0} /\ Head(q) \in S
      /\ \A i \in 1..Len(r) : r[i] = q[i + 1]
  BY HeadTailProperties
<1> HIDE DEF r
<1>2. NoRepeats(r)
  BY <1>1 DEF NoRepeats
<1>3. ToSet(r) \subseteq ToSet(q) \ {Head(q)}
  BY <1>1 DEF NoRepeats, ToSet
<1>4. ASSUME NEW x \in ToSet(q) \ {Head(q)}
      PROVE  x \in ToSet(r)
  <2>1. PICK i \in 1..Len(q) : q[i] = x
    BY DEF ToSet
  <2>2. i - 1 \in 1..Len(r) /\ r[i - 1] = x
    BY <1>1, <2>1
  <2> QED
    BY <1>1, <2>2 DEF ToSet
<1>5. Len(q) # 1 => r # <<>> /\ r[Len(r)] = q[Len(q)] /\ q[1] # q[Len(q)]
  BY <1>1 DEF NoRepeats
<1>6. Len(q) = 1 => ToSet(q) = {q[1]}
  BY <1>1 DEF ToSet
<1> QED
  BY <1>1, <1>2, <1>3, <1>4, <1>5, <1>6 DEF r

(***************************************************************************)
(* Moving a listed key to the end changes neither the keys nor their being *)
(* distinct.                                                               *)
(***************************************************************************)
LEMMA MoveToEndProperties ==
  ASSUME NEW S, NEW q \in Seq(S), NEW k \in S, NoRepeats(q)
  PROVE  LET r == Append(RemoveFirst(q, k), k)
         IN  r \in Seq(S) /\ NoRepeats(r) /\ ToSet(r) = ToSet(q) \cup {k}
<1> DEFINE p == RemoveFirst(q, k)
<1>1. p \in Seq(S) /\ NoRepeats(p) /\ ToSet(p) = ToSet(q) \ {k}
  BY RemoveFirstProperties
<1> HIDE DEF p
<1>2. k \notin ToSet(p)
  BY <1>1
<1>3. Append(p, k) \in Seq(S) /\ NoRepeats(Append(p, k))
      /\ ToSet(Append(p, k)) = ToSet(p) \cup {k}
  BY <1>1, <1>2, AppendDistinct
<1> QED
  BY <1>1, <1>3 DEF p

(***************************************************************************)
(* Popping the coldest keys leaves a sequence of distinct keys.            *)
(***************************************************************************)
LEMMA SuffixDistinct ==
  ASSUME NEW S, NEW q \in Seq(S), NEW n \in 0..Len(q), NoRepeats(q)
  PROVE  LET r == SubSeq(q, n + 1, Len(q)) IN r \in Seq(S) /\ NoRepeats(r)
<1> DEFINE r == SubSeq(q, n + 1, Len(q))
<1>1. Len(q) \in Nat /\ \A i \in 1..Len(q) : q[i] \in S
  BY LenProperties, ElementOfSeq
<1>2. /\ r \in Seq(S)
      /\ Len(r) = IF n + 1 <= Len(q) THEN Len(q) - (n + 1) + 1 ELSE 0
      /\ \A i \in 1..(Len(q) - (n + 1) + 1) : r[i] = q[n + 1 + i - 1]
  BY <1>1, SubSeqProperties
<1> HIDE DEF r
<1>3. Len(r) = Len(q) - n /\ \A i \in 1..Len(r) : r[i] = q[n + i]
  BY <1>1, <1>2
<1>4. NoRepeats(r)
  <2> SUFFICES ASSUME NEW i \in 1..Len(r), NEW j \in 1..Len(r), r[i] = r[j]
               PROVE  i = j
    BY DEF NoRepeats
  <2>1. n + i \in 1..Len(q) /\ n + j \in 1..Len(q) /\ q[n + i] = q[n + j]
    BY <1>1, <1>3
  <2>2. n + i = n + j
    BY <2>1 DEF NoRepeats
  <2> QED
    BY <1>1, <2>2
<1> QED
  BY <1>2, <1>4 DEF r

(***************************************************************************)
(* A search among the numbers up to m that m ends has at most m misses.    *)
(***************************************************************************)
LEMMA CountBelow ==
  ASSUME NEW m \in Nat, NEW N \in SUBSET (0..m), m \notin N
  PROVE  Cardinality(N) \in 0..m
<1>1. N \in SUBSET (0..(m - 1))
  OBVIOUS
<1>2. IsFiniteSet(0..(m - 1)) /\ Cardinality(0..(m - 1)) = m
  <2> DEFINE b == m - 1
  <2>1. b \in Int /\ (IF 0 > b THEN 0 ELSE b - 0 + 1) = m
    OBVIOUS
  <2> HIDE DEF b
  <2>2. \A c \in Int : IsFiniteSet(0..c) /\ Cardinality(0..c) = IF 0 > c THEN 0 ELSE c - 0 + 1
    BY FS_Interval
  <2>3. IsFiniteSet(0..b) /\ Cardinality(0..b) = m
    BY <2>1, <2>2
  <2> QED
    BY <2>3 DEF b
<1>3. IsFiniteSet(N) /\ Cardinality(N) <= m
  BY <1>1, <1>2, FS_Subset
<1>4. Cardinality(N) \in Nat
  BY <1>3, FS_CardinalityType
<1> QED
  BY <1>3, <1>4

(***************************************************************************)
(* There are n numbers from 1 to n.                                        *)
(***************************************************************************)
LEMMA CountUpTo ==
  ASSUME NEW n \in Nat
  PROVE  IsFiniteSet(1..n) /\ Cardinality(1..n) = n
<1>1. n \in Int /\ 1 \in Int
  OBVIOUS
<1>2. IsFiniteSet(1..n) /\ Cardinality(1..n) = IF 1 > n THEN 0 ELSE n - 1 + 1
  BY <1>1, FS_Interval, Zenon
<1>3. (IF 1 > n THEN 0 ELSE n - 1 + 1) = n
  OBVIOUS
<1> QED
  BY <1>2, <1>3

(***************************************************************************)
(* A set of numbers up to n that is not empty has a greatest element.      *)
(***************************************************************************)
LEMMA Greatest ==
  ASSUME NEW n \in Nat, NEW T \in SUBSET (0..n), T # {}
  PROVE  \E m \in T : \A k \in T : k <= m
<1> DEFINE U == {j \in 0..n : n - j \in T}
<1>1. PICK e \in T : TRUE
  OBVIOUS
<1>2. n - e \in 0..n /\ n - (n - e) = e
  OBVIOUS
<1>3. n - e \in U
  BY <1>2
<1>4. U \in SUBSET Nat /\ U # {}
  <2>1. U \in SUBSET Nat
    OBVIOUS
  <2>2. U # {}
    <3> HIDE DEF U
    <3> QED BY <1>3
  <2> QED
    BY <2>1, <2>2
<1>5. PICK j \in U : \A k \in U : j <= k
  <2> HIDE DEF U
  <2> QED BY <1>4, Least
<1>6. j \in 0..n /\ n - j \in T
  OBVIOUS
<1>7. ASSUME NEW k \in T PROVE k <= n - j
  <2>1. k \in 0..n /\ n - k \in 0..n /\ n - (n - k) = k
    OBVIOUS
  <2>2. n - k \in U
    BY <2>1
  <2>3. j <= n - k
    BY <1>5, <2>2
  <2> QED
    BY <1>6, <2>1, <2>3
<1> QED
  BY <1>6, <1>7

-----------------------------------------------------------------------------
(***************************************************************************)
(* Sorting.  s lists the elements of T, each once, from the one of the     *)
(* least w on.                                                             *)
(***************************************************************************)
Sorts(s, T, w) ==
  LET n == Cardinality(T)
  IN  /\ s \in [1..n -> T]
      /\ \A j, k \in 1..n : j < k => s[j] # s[k] /\ w[s[j]] <= w[s[k]]

LEMMA SortedOneMore ==
  ASSUME NEW T, IsFiniteSet(T), NEW w, NEW m \in T,
         \A i \in T : w[i] \in Nat /\ w[i] <= w[m],
         NEW t, Sorts(t, T \ {m}, w)
  PROVE  \E s : Sorts(s, T, w)
<1> DEFINE n == Cardinality(T)
           R == T \ {m}
           s == [k \in 1..n |-> IF k = n THEN m ELSE t[k]]
<1>1. n \in Nat /\ n # 0
  BY FS_CardinalityType, FS_EmptySet
<1>2. Cardinality(R) = n - 1
  BY FS_RemoveElement
<1> HIDE DEF n, R
<1>3. /\ t \in [1..(n - 1) -> R]
      /\ \A j, k \in 1..(n - 1) : j < k => t[j] # t[k] /\ w[t[j]] <= w[t[k]]
  BY <1>2 DEF Sorts, R
<1>4. \A k \in 1..n : k = n \/ k \in 1..(n - 1)
  BY <1>1
<1>5. \A x \in R : x \in T /\ x # m
  BY DEF R
<1>6. s \in [1..n -> T]
  BY <1>3, <1>4, <1>5
<1>7. \A k \in 1..(n - 1) : s[k] = t[k] /\ t[k] \in R
  BY <1>1, <1>3
<1>8. s[n] = m
  BY <1>1
<1> HIDE DEF s
<1>9. ASSUME NEW j \in 1..n, NEW k \in 1..n, j < k
      PROVE  s[j] # s[k] /\ w[s[j]] <= w[s[k]]
  <2>1. j \in 1..(n - 1)
    BY <1>1, <1>9
  <2>2. CASE k = n
    <3>1. s[j] \in R /\ s[k] = m
      BY <1>7, <1>8, <2>1, <2>2
    <3> QED
      BY <1>5, <3>1
  <2>3. CASE k # n
    <3>1. k \in 1..(n - 1)
      BY <1>4, <2>3
    <3> QED
      BY <1>3, <1>7, <1>9, <2>1, <3>1
  <2> QED
    BY <2>2, <2>3
<1>10. Sorts(s, T, w)
  BY <1>6, <1>9 DEF Sorts, n
<1> QED
  BY <1>10

LEMMA SortingExists ==
  ASSUME NEW U, NEW w, NEW b \in Nat, \A i \in U : w[i] \in 0..b
  PROVE  \A T \in SUBSET U : IsFiniteSet(T) => \E s : Sorts(s, T, w)
<1> DEFINE Good(T) == \E s : Sorts(s, T, w)
           Bad == {n \in Nat : \E T \in SUBSET U : IsFiniteSet(T) /\ Cardinality(T) = n /\ ~Good(T)}
<1> SUFFICES ASSUME NEW V \in SUBSET U, IsFiniteSet(V), ~Good(V) PROVE FALSE
  OBVIOUS
<1>1. Bad \in SUBSET Nat /\ Cardinality(V) \in Bad
  BY FS_CardinalityType
<1>2. PICK n \in Bad : \A k \in Bad : n <= k
  <2> HIDE DEF Bad
  <2> QED BY <1>1, Least
<1>3. PICK T \in SUBSET U : IsFiniteSet(T) /\ Cardinality(T) = n /\ ~Good(T)
  OBVIOUS
<1>4. n \in Nat
  OBVIOUS
<1>5. CASE T = {}
  <2>1. n = 0
    BY <1>3, <1>5, FS_EmptySet
  <2> DEFINE s == [k \in 1..0 |-> 0]
  <2>2. s \in [1..0 -> T]
    OBVIOUS
  <2> HIDE DEF s
  <2>3. Sorts(s, T, w)
    BY <1>3, <2>1, <2>2 DEF Sorts
  <2> QED
    BY <1>3, <2>3
<1>6. CASE T # {}
  <2> DEFINE W == {w[i] : i \in T}
  <2>1. W \in SUBSET (0..b) /\ W # {}
    BY <1>6
  <2>2. PICK v \in W : \A x \in W : x <= v
    <3> HIDE DEF W
    <3> QED BY <2>1, Greatest
  <2>3. PICK m \in T : v = w[m]
    OBVIOUS
  <2>4. \A i \in T : w[i] \in Nat /\ w[i] <= w[m]
    BY <2>2, <2>3
  <2> DEFINE R == T \ {m}
  <2>5. IsFiniteSet(R) /\ Cardinality(R) = n - 1 /\ R \in SUBSET U
    BY <1>3, FS_RemoveElement
  <2>6. n # 0
    BY <1>3, <1>6, FS_EmptySet
  <2>7. n - 1 \in Nat /\ ~(n <= n - 1)
    BY <1>4, <2>6
  <2>8. Good(R)
    <3> SUFFICES ASSUME ~Good(R) PROVE FALSE
      OBVIOUS
    <3>1. n - 1 \in Bad
      <4> HIDE DEF R, Good
      <4> QED BY <2>5, <2>7
    <3> HIDE DEF Bad
    <3> QED BY <1>2, <2>7, <3>1
  <2>9. PICK t : Sorts(t, T \ {m}, w)
    BY <2>8
  <2>10. Good(T)
    <3> HIDE DEF W, R, Bad
    <3> QED BY <1>3, <2>4, <2>9, SortedOneMore
  <2> QED
    BY <1>3, <2>10
<1> QED
  BY <1>5, <1>6

NotAbove(T, w, v) == {i \in T : w[i] <= v}
Below(T, w, v) == {i \in T : w[i] < v}

(***************************************************************************)
(* In a sorted list, j of the elements are not above the j-th, and fewer   *)
(* than j are below it.                                                    *)
(***************************************************************************)
LEMMA SortedCounts ==
  ASSUME NEW T, IsFiniteSet(T), NEW w, \A i \in T : w[i] \in Nat,
         NEW s, Sorts(s, T, w), NEW j \in 1..Cardinality(T)
  PROVE  /\ Cardinality(NotAbove(T, w, w[s[j]])) \in Nat
         /\ Cardinality(NotAbove(T, w, w[s[j]])) >= j
         /\ Cardinality(Below(T, w, w[s[j]])) \in Nat
         /\ Cardinality(Below(T, w, w[s[j]])) <= j - 1
<1> DEFINE n == Cardinality(T)
           v == w[s[j]]
           low == NotAbove(T, w, v)
           less == Below(T, w, v)
<1>1. n \in Nat
  BY FS_CardinalityType
<1> HIDE DEF n
<1>2. /\ s \in [1..n -> T]
      /\ \A h, k \in 1..n : h < k => s[h] # s[k] /\ w[s[h]] <= w[s[k]]
      /\ j \in 1..n
  BY DEF Sorts, n
<1>3. \A h, k \in 1..n : h # k => s[h] # s[k]
  BY <1>1, <1>2
<1>4. IsFiniteSet(low) /\ IsFiniteSet(less)
  BY FS_Subset DEF NotAbove, Below
<1>5. Cardinality(low) \in Nat /\ Cardinality(less) \in Nat
  BY <1>4, FS_CardinalityType
<1>6. Cardinality(low) >= j
  <2> DEFINE f == [k \in 1..j |-> s[k]]
  <2>1. ASSUME NEW k \in 1..j PROVE s[k] \in low
    <3>1. k \in 1..n /\ (k < j \/ k = j) /\ s[k] \in T
      BY <1>1, <1>2
    <3>2. w[s[k]] <= v
      BY <1>2, <3>1
    <3> QED
      BY <3>1, <3>2 DEF NotAbove
  <2>2. f \in Injection(1..j, low)
    <3>1. f \in [1..j -> low]
      <4> HIDE DEF low
      <4> QED BY <2>1
    <3>2. \A h, k \in 1..j : f[h] = f[k] => h = k
      BY <1>1, <1>2, <1>3
    <3> HIDE DEF f, low
    <3>3. IsInjective(f)
      BY <3>1, <3>2 DEF IsInjective
    <3> QED
      BY <3>1, <3>3 DEF Injection
  <2>3. Cardinality(1..j) <= Cardinality(low)
    <3> HIDE DEF f, low
    <3> QED BY <1>4, <2>2, FS_Injection
  <2>4. Cardinality(1..j) = j
    BY <1>2, CountUpTo
  <2> QED
    BY <1>2, <1>5, <2>3, <2>4
<1>7. Cardinality(less) <= j - 1
  <2>1. s \in Injection(1..n, T)
    <3>1. IsInjective(s)
      BY <1>2, <1>3 DEF IsInjective
    <3> QED
      BY <1>2, <3>1 DEF Injection
  <2>2. s \in Surjection(1..n, T)
    <3>1. Cardinality(1..n) = Cardinality(T)
      BY <1>1, CountUpTo DEF n
    <3> QED
      BY <2>1, <3>1, FS_Injection
  <2>3. \A i \in T : \E k \in 1..n : s[k] = i
    BY <2>2 DEF Surjection
  <2> DEFINE f == [i \in less |-> CHOOSE k \in 1..n : s[k] = i]
  <2>4. ASSUME NEW i \in less PROVE f[i] \in 1..(j - 1) /\ s[f[i]] = i
    <3>1. i \in T /\ w[i] < v
      BY DEF Below
    <3>2. f[i] \in 1..n /\ s[f[i]] = i
      BY <2>3, <3>1
    <3> HIDE DEF f, v
    <3>3. w[i] \in Nat /\ v \in Nat
      BY <1>2, <3>1 DEF v
    <3>4. ~(v <= w[i])
      BY <3>1, <3>3
    <3>5. f[i] < j
      <4> SUFFICES ASSUME ~(f[i] < j) PROVE FALSE
        OBVIOUS
      <4>1. j < f[i] \/ j = f[i]
        BY <1>1, <1>2, <3>2
      <4>2. v <= w[s[f[i]]]
        BY <1>2, <3>2, <3>3, <4>1 DEF v
      <4> QED
        BY <3>2, <3>4, <4>2
    <3> QED
      BY <1>1, <1>2, <3>2, <3>5
  <2> HIDE DEF f, less
  <2>5. f \in Injection(less, 1..(j - 1))
    <3>1. f \in [less -> 1..(j - 1)]
      BY <2>4 DEF f
    <3>2. IsInjective(f)
      BY <2>4, <3>1 DEF IsInjective
    <3> QED
      BY <3>1, <3>2 DEF Injection
  <2>6. j - 1 \in Nat
    BY <1>1, <1>2
  <2>7. IsFiniteSet(1..(j - 1)) /\ Cardinality(1..(j - 1)) = j - 1
    BY <2>6, CountUpTo
  <2> QED
    BY <2>5, <2>7, FS_Injection
<1> QED
  BY <1>5, <1>6, <1>7
=============================================================================
