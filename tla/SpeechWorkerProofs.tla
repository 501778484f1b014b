------------------------- MODULE SpeechWorkerProofs -------------------------
(***************************************************************************)
(* What is proved of the chunker, for every alphabet, every choice of      *)
(* boundaries and limits its constructor allows, and every sequence of     *)
(* calls; and of the TTS worker that cuts its texts up with it, for all    *)
(* texts the gateway lets pass, all voices, any number of requests and     *)
(* pieces of audio of any length.                                          *)
(***************************************************************************)
EXTENDS SpeechWorker, SequenceFacts

-----------------------------------------------------------------------------
(***************************************************************************)
(* What a part of a text is.                                               *)
(***************************************************************************)
LEMMA Part ==
  ASSUME NEW s \in Seq(Char), NEW m \in 1..(Len(s) + 1), NEW n \in 0..Len(s), m <= n + 1
  PROVE  /\ SubSeq(s, m, n) \in Seq(Char)
         /\ Len(SubSeq(s, m, n)) = n - m + 1
         /\ \A i \in 1..(n - m + 1) : SubSeq(s, m, n)[i] = s[m + i - 1]
<1> DEFINE p == SubSeq(s, m, n)
<1>1. Len(s) \in Nat /\ \A i \in 1..Len(s) : s[i] \in Char
  BY LenProperties, ElementOfSeq
<1>2. m \in Int /\ n \in Int /\ \A i \in m..n : s[i] \in Char
  BY <1>1
<1>3. /\ p \in Seq(Char) /\ Len(p) = IF m <= n THEN n - m + 1 ELSE 0
      /\ \A i \in 1..(n - m + 1) : p[i] = s[m + i - 1]
  BY <1>2, SubSeqProperties
<1> HIDE DEF p
<1>4. Len(p) = n - m + 1
  BY <1>1, <1>3
<1> QED
  BY <1>3, <1>4 DEF p

(***************************************************************************)
(* lstrip stops at the first character that is not white.                  *)
(***************************************************************************)
LEMMA LeadingIs ==
  ASSUME NEW s \in Seq(Char)
  PROVE  /\ Leading(s) \in 0..Len(s)
         /\ Leading(s) < Len(s) => s[Leading(s) + 1] \notin White
         /\ \A i \in 1..Leading(s) : s[i] \in White
<1> DEFINE T == {n \in 0..Len(s) : n < Len(s) => s[n + 1] \notin White}
<1>1. Len(s) \in Nat
  BY LenProperties
<1>2. T \in SUBSET Nat /\ Len(s) \in T
  BY <1>1
<1> HIDE DEF T
<1>3. PICK n \in T : \A m \in T : n <= m
  BY <1>2, Least
<1>4. n \in 0..Len(s) /\ (n < Len(s) => s[n + 1] \notin White)
  BY <1>3 DEF T
<1>5. ASSUME NEW i \in 1..n PROVE s[i] \in White
  <2>1. i - 1 \in 0..Len(s) /\ (i - 1) + 1 = i /\ i - 1 < n
    BY <1>1, <1>4
  <2>2. i - 1 \notin T
    BY <1>3, <1>4, <2>1
  <2> QED
    BY <2>1, <2>2 DEF T
<1>6. \E k \in 0..Len(s) : /\ \A i \in 1..k : s[i] \in White
                           /\ k < Len(s) => s[k + 1] \notin White
  BY <1>4, <1>5
<1> QED
  BY <1>6 DEF Leading

(***************************************************************************)
(* rstrip stops at the last one.                                           *)
(***************************************************************************)
LEMMA TrimmedIs ==
  ASSUME NEW s \in Seq(Char)
  PROVE  /\ Trimmed(s) \in 0..Len(s)
         /\ Trimmed(s) > 0 => s[Trimmed(s)] \notin White
         /\ \A i \in (Trimmed(s) + 1)..Len(s) : s[i] \in White
<1> DEFINE T == {d \in 0..Len(s) : d < Len(s) => s[Len(s) - d] \notin White}
<1>1. Len(s) \in Nat
  BY LenProperties
<1>2. T \in SUBSET Nat /\ Len(s) \in T
  BY <1>1
<1> HIDE DEF T
<1>3. PICK d \in T : \A m \in T : d <= m
  BY <1>2, Least
<1> DEFINE n == Len(s) - d
<1>4. d \in 0..Len(s) /\ n \in 0..Len(s) /\ (n > 0 => s[n] \notin White)
  BY <1>1, <1>3 DEF T
<1>5. ASSUME NEW i \in (n + 1)..Len(s) PROVE s[i] \in White
  <2>1. Len(s) - i \in 0..Len(s) /\ Len(s) - (Len(s) - i) = i /\ Len(s) - i < d
        /\ Len(s) - i < Len(s)
    BY <1>1, <1>4
  <2>2. Len(s) - i \notin T
    BY <1>1, <1>3, <1>4, <2>1
  <2> QED
    BY <2>1, <2>2 DEF T
<1> HIDE DEF n
<1>6. \E k \in 0..Len(s) : /\ \A i \in (k + 1)..Len(s) : s[i] \in White
                           /\ k > 0 => s[k] \notin White
  BY <1>4, <1>5
<1> QED
  BY <1>6 DEF Trimmed

(***************************************************************************)
(* A text without its leading white space is its end; one that is stripped *)
(* and not empty is a part that begins and ends with something to say.     *)
(***************************************************************************)
LEMMA LstripIs ==
  ASSUME NEW s \in Seq(Char)
  PROVE  /\ Lstrip(s) \in Seq(Char)
         /\ Len(Lstrip(s)) = Len(s) - Leading(s)
         /\ \A i \in 1..Len(Lstrip(s)) : Lstrip(s)[i] = s[Leading(s) + i]
<1> DEFINE n == Leading(s)
           r == Lstrip(s)
<1>1. Len(s) \in Nat /\ n \in 0..Len(s)
  BY LenProperties, LeadingIs
<1> HIDE DEF n
<1>2. n + 1 \in 1..(Len(s) + 1) /\ Len(s) \in 0..Len(s) /\ n + 1 <= Len(s) + 1
  BY <1>1
<1>3. r = SubSeq(s, n + 1, Len(s))
  BY DEF Lstrip, n
<1>4. /\ r \in Seq(Char) /\ Len(r) = Len(s) - (n + 1) + 1
      /\ \A i \in 1..(Len(s) - (n + 1) + 1) : r[i] = s[(n + 1) + i - 1]
  BY <1>2, <1>3, Part
<1> HIDE DEF r
<1>5. Len(r) = Len(s) - n
  BY <1>1, <1>4
<1>6. ASSUME NEW i \in 1..Len(r) PROVE r[i] = s[n + i]
  <2>1. i \in 1..(Len(s) - (n + 1) + 1) /\ (n + 1) + i - 1 = n + i
    BY <1>1, <1>4
  <2> QED
    BY <1>4, <2>1
<1> QED
  BY <1>4, <1>5, <1>6 DEF n, r

LEMMA StripIs ==
  ASSUME NEW s \in Seq(Char)
  PROVE  LET c == Strip(s)
         IN  /\ c \in Seq(Char) /\ Len(c) <= Len(s)
             /\ c # <<>> => /\ Len(c) \in Nat \ {0}
                            /\ c[1] \notin White /\ c[Len(c)] \notin White
             /\ \E o \in Nat : /\ o + Len(c) <= Len(s)
                               /\ \A i \in 1..Len(c) : c[i] = s[o + i]
<1> DEFINE t == Trimmed(s)
           p == SubSeq(s, 1, t)
           o == Leading(p)
           c == Strip(s)
<1>1. Len(s) \in Nat /\ t \in 0..Len(s) /\ (t > 0 => s[t] \notin White)
  BY LenProperties, TrimmedIs
<1> HIDE DEF t
<1>2. 1 \in 1..(Len(s) + 1) /\ 1 <= t + 1
  BY <1>1
<1>3. p \in Seq(Char) /\ Len(p) = t - 1 + 1 /\ \A i \in 1..(t - 1 + 1) : p[i] = s[1 + i - 1]
  BY <1>1, <1>2, Part
<1> HIDE DEF p
<1>4. Len(p) = t /\ \A i \in 1..t : p[i] = s[i]
  BY <1>1, <1>3
<1>5. o \in 0..t /\ (o < t => p[o + 1] \notin White)
  BY <1>3, <1>4, LeadingIs
<1>6. c = Lstrip(p)
  BY DEF Strip, p, t
<1>7. c \in Seq(Char) /\ Len(c) = t - o /\ \A i \in 1..Len(c) : c[i] = p[o + i]
  BY <1>3, <1>4, <1>6, LstripIs
<1> HIDE DEF o, c
<1>8. \A i \in 1..Len(c) : o + i \in 1..t /\ c[i] = s[o + i]
  BY <1>1, <1>4, <1>5, <1>7
<1>9. o \in Nat /\ o + Len(c) <= Len(s) /\ Len(c) <= Len(s) /\ Len(c) \in Nat
  BY <1>1, <1>5, <1>7
<1>10. ASSUME c # <<>>
       PROVE  Len(c) \in Nat \ {0} /\ c[1] \notin White /\ c[Len(c)] \notin White
  <2>1. Len(c) # 0
    BY <1>7, <1>10, EmptySeq
  <2>2. o < t /\ 1 \in 1..Len(c) /\ Len(c) \in 1..Len(c) /\ o + Len(c) = t /\ t > 0
    BY <1>1, <1>5, <1>7, <1>9, <2>1
  <2>3. c[1] = p[o + 1]
    BY <1>7, <2>2
  <2>4. c[Len(c)] = s[t]
    BY <1>8, <2>2
  <2> QED
    BY <1>1, <1>5, <1>9, <2>1, <2>2, <2>3, <2>4
<1> QED
  BY <1>7, <1>8, <1>9, <1>10 DEF c

-----------------------------------------------------------------------------
\* The visible characters one by one, as Visible joins them.
Seen(s) == [i \in 1..Len(s) |-> IF s[i] \in White THEN <<>> ELSE <<s[i]>>]

LEMMA SeenIs ==
  ASSUME NEW s \in Seq(Char)
  PROVE  /\ Seen(s) \in Seq(Seq(Char)) /\ Len(Seen(s)) = Len(s)
         /\ \A i \in 1..Len(s) : Seen(s)[i] = IF s[i] \in White THEN <<>> ELSE <<s[i]>>
         /\ Visible(s) = FlattenSeq(Seen(s)) /\ Visible(s) \in Seq(Char)
<1> DEFINE v == Seen(s)
<1>1. Len(s) \in Nat /\ \A i \in 1..Len(s) : s[i] \in Char
  BY LenProperties, ElementOfSeq
<1>2. \A i \in 1..Len(s) : (IF s[i] \in White THEN <<>> ELSE <<s[i]>>) \in Seq(Char)
  BY <1>1
<1>3. v \in [1..Len(s) -> Seq(Char)]
  BY <1>2 DEF Seen
<1>4. \A i \in 1..Len(s) : v[i] = IF s[i] \in White THEN <<>> ELSE <<s[i]>>
  BY DEF Seen
<1>5. Visible(s) = FlattenSeq(v)
  BY DEF Visible, Seen
<1>6. DOMAIN v = 1..Len(s)
  BY DEF Seen
<1> HIDE DEF v
<1>7. v \in Seq(Seq(Char))
  BY <1>1, <1>3, SeqDef
<1>8. Len(v) \in Nat /\ DOMAIN v = 1..Len(v)
  BY <1>7, LenProperties
<1>9. Len(v) = Len(s)
  BY <1>1, <1>6, <1>8
<1>10. FlattenSeq(v) \in Seq(Char)
  BY <1>7, FlattenTyped
<1> QED
  BY <1>4, <1>5, <1>7, <1>9, <1>10 DEF v

(***************************************************************************)
(* What is visible of two texts is what is visible of each.                *)
(***************************************************************************)
LEMMA VisibleConcat ==
  ASSUME NEW s \in Seq(Char), NEW t \in Seq(Char)
  PROVE  Visible(s \o t) = Visible(s) \o Visible(t)
<1> DEFINE c == s \o t
           v == Seen(c)
           w == Seen(s) \o Seen(t)
<1>1. /\ c \in Seq(Char) /\ Len(c) = Len(s) + Len(t)
      /\ \A i \in 1..(Len(s) + Len(t)) :
           c[i] = IF i <= Len(s) THEN s[i] ELSE t[i - Len(s)]
      /\ Len(s) \in Nat /\ Len(t) \in Nat
  BY ConcatProperties, LenProperties
<1> HIDE DEF c
<1>2. /\ v \in Seq(Seq(Char)) /\ Len(v) = Len(c) /\ Visible(c) = FlattenSeq(v)
      /\ \A i \in 1..Len(c) : v[i] = IF c[i] \in White THEN <<>> ELSE <<c[i]>>
  BY <1>1, SeenIs
<1>3. /\ Seen(s) \in Seq(Seq(Char)) /\ Len(Seen(s)) = Len(s)
      /\ \A i \in 1..Len(s) : Seen(s)[i] = IF s[i] \in White THEN <<>> ELSE <<s[i]>>
      /\ Visible(s) = FlattenSeq(Seen(s))
  BY SeenIs
<1>4. /\ Seen(t) \in Seq(Seq(Char)) /\ Len(Seen(t)) = Len(t)
      /\ \A i \in 1..Len(t) : Seen(t)[i] = IF t[i] \in White THEN <<>> ELSE <<t[i]>>
      /\ Visible(t) = FlattenSeq(Seen(t))
  BY SeenIs
<1>5. /\ w \in Seq(Seq(Char)) /\ Len(w) = Len(s) + Len(t)
      /\ \A i \in 1..(Len(s) + Len(t)) :
           w[i] = IF i <= Len(s) THEN Seen(s)[i] ELSE Seen(t)[i - Len(s)]
  <2> DEFINE a == Seen(s)
             b == Seen(t)
  <2>1. /\ a \in Seq(Seq(Char)) /\ Len(a) = Len(s)
        /\ b \in Seq(Seq(Char)) /\ Len(b) = Len(t) /\ w = a \o b
    BY <1>3, <1>4
  <2> HIDE DEF a, b, w
  <2>2. /\ a \o b \in Seq(Seq(Char)) /\ Len(a \o b) = Len(a) + Len(b)
        /\ \A i \in 1..(Len(a) + Len(b)) :
             (a \o b)[i] = IF i <= Len(a) THEN a[i] ELSE b[i - Len(a)]
    BY <2>1, ConcatProperties
  <2>3. /\ w \in Seq(Seq(Char)) /\ Len(w) = Len(s) + Len(t)
        /\ \A i \in 1..(Len(s) + Len(t)) :
             w[i] = IF i <= Len(s) THEN a[i] ELSE b[i - Len(s)]
    BY <2>1, <2>2
  <2> QED
    BY <2>3 DEF a, b
<1> HIDE DEF v, w
<1>6. ASSUME NEW i \in 1..(Len(s) + Len(t)) PROVE v[i] = w[i]
  <2>1. CASE i <= Len(s)
    <3>1. i \in 1..Len(s) /\ i \in 1..Len(c)
      BY <1>1, <2>1
    <3> QED
      BY <1>1, <1>2, <1>3, <1>5, <2>1, <3>1
  <2>2. CASE ~(i <= Len(s))
    <3>1. i - Len(s) \in 1..Len(t) /\ i \in 1..Len(c)
      BY <1>1, <2>2
    <3> QED
      BY <1>1, <1>2, <1>4, <1>5, <2>2, <3>1
  <2> QED
    BY <2>1, <2>2
<1>7. v = w
  <2>1. Len(v) = Len(w) /\ \A i \in 1..Len(v) : v[i] = w[i]
    BY <1>1, <1>2, <1>5, <1>6
  <2> QED
    BY <1>2, <1>5, <2>1, SeqEqual
<1>8. FlattenSeq(w) = FlattenSeq(Seen(s)) \o FlattenSeq(Seen(t))
  BY <1>3, <1>4, FlattenConcat DEF w
<1> QED
  BY <1>2, <1>3, <1>4, <1>7, <1>8 DEF c

(***************************************************************************)
(* Nothing is visible of white space, and something of anything else.      *)
(***************************************************************************)
LEMMA VisibleWhite ==
  ASSUME NEW s \in Seq(Char), \A i \in 1..Len(s) : s[i] \in White
  PROVE  Visible(s) = <<>>
<1> DEFINE v == Seen(s)
<1>1. /\ v \in Seq(Seq(Char)) /\ Len(v) = Len(s) /\ Visible(s) = FlattenSeq(v)
      /\ \A i \in 1..Len(v) : v[i] = <<>>
  BY SeenIs
<1> HIDE DEF v
<1> QED
  BY <1>1, FlattenEmpties

LEMMA VisibleNothing == Visible(<<>>) = <<>>
<1> DEFINE e == <<>>
<1>1. e \in Seq(Char) /\ Len(e) = 0
  OBVIOUS
<1> HIDE DEF e
<1>2. \A i \in 1..Len(e) : e[i] \in White
  BY <1>1
<1>3. Visible(e) = <<>>
  BY <1>1, <1>2, VisibleWhite
<1> QED
  BY <1>3 DEF e

LEMMA VisibleOne ==
  ASSUME NEW x \in Char, x \notin White
  PROVE  Visible(<<x>>) = <<x>>
<1> DEFINE s == <<x>>
           v == Seen(s)
<1>1. s \in Seq(Char) /\ Len(s) = 1 /\ s[1] = x
  OBVIOUS
<1> HIDE DEF s
<1>2. /\ v \in Seq(Seq(Char)) /\ Len(v) = Len(s) /\ Visible(s) = FlattenSeq(v)
      /\ \A i \in 1..Len(s) : v[i] = IF s[i] \in White THEN <<>> ELSE <<s[i]>>
  BY <1>1, SeenIs
<1> HIDE DEF v
<1>3. v[1] = <<x>> /\ Len(v) = 1
  <2>1. 1 \in 1..Len(s)
    BY <1>1
  <2> QED
    BY <1>1, <1>2, <2>1
<1>4. PICK f : Joins(v, f, Len(v)) /\ FlattenSeq(v) = f[Len(v)]
  <2>1. Len(v) \in Nat \ {0}
    BY <1>3
  <2> QED
    BY SMTT(30), <1>2, <2>1, FlattenIs
<1>5. f[1] = v[1]
  <2>1. 1 \in 1..Len(v)
    BY <1>3
  <2> QED
    BY <1>4, <2>1 DEF Joins
<1> QED
  BY <1>2, <1>3, <1>4, <1>5 DEF s

LEMMA VisibleSplit ==
  ASSUME NEW s \in Seq(Char), NEW n \in 0..Len(s)
  PROVE  /\ SubSeq(s, 1, n) \in Seq(Char) /\ SubSeq(s, n + 1, Len(s)) \in Seq(Char)
         /\ Visible(s) = Visible(SubSeq(s, 1, n)) \o Visible(SubSeq(s, n + 1, Len(s)))
<1> DEFINE a == SubSeq(s, 1, n)
           b == SubSeq(s, n + 1, Len(s))
<1>1. Len(s) \in Nat
  BY LenProperties
<1>2. /\ 1 \in 1..(Len(s) + 1) /\ n \in (1 - 1)..Len(s) /\ Len(s) \in n..Len(s)
      /\ 1 <= n + 1 /\ n + 1 \in 1..(Len(s) + 1) /\ Len(s) \in 0..Len(s)
      /\ n + 1 <= Len(s) + 1
  BY <1>1
<1>3. a \in Seq(Char) /\ b \in Seq(Char)
  BY <1>2, Part
<1>4. a \o b = SubSeq(s, 1, Len(s))
  BY <1>2, ConcatAdjacentSubSeq
<1>5. SubSeq(s, 1, Len(s)) = s
  BY SubSeqFull
<1> HIDE DEF a, b
<1>6. Visible(a \o b) = Visible(a) \o Visible(b)
  BY <1>3, VisibleConcat
<1> QED
  BY <1>3, <1>4, <1>5, <1>6 DEF a, b

(***************************************************************************)
(* Stripping takes nothing away that is to be heard.                       *)
(***************************************************************************)
LEMMA VisibleLstrip ==
  ASSUME NEW s \in Seq(Char)
  PROVE  Visible(Lstrip(s)) = Visible(s)
<1> DEFINE n == Leading(s)
           a == SubSeq(s, 1, n)
<1>1. Len(s) \in Nat /\ n \in 0..Len(s) /\ \A i \in 1..n : s[i] \in White
  BY LenProperties, LeadingIs
<1> HIDE DEF n
<1>2. /\ a \in Seq(Char)
      /\ Visible(s) = Visible(a) \o Visible(SubSeq(s, n + 1, Len(s)))
  BY <1>1, VisibleSplit
<1>3. Len(a) = n - 1 + 1 /\ \A i \in 1..(n - 1 + 1) : a[i] = s[1 + i - 1]
  <2>1. 1 \in 1..(Len(s) + 1) /\ 1 <= n + 1
    BY <1>1
  <2> QED
    BY <1>1, <2>1, Part
<1> HIDE DEF a
<1>4. \A i \in 1..Len(a) : a[i] \in White
  BY <1>1, <1>3
<1>5. Visible(a) = <<>>
  BY <1>2, <1>4, VisibleWhite
<1>6. Lstrip(s) = SubSeq(s, n + 1, Len(s))
  BY DEF Lstrip, n
<1>7. Visible(Lstrip(s)) \in Seq(Char)
  BY LstripIs, SeenIs
<1>8. <<>> \o Visible(Lstrip(s)) = Visible(Lstrip(s))
  BY <1>7, ConcatEmptySeq
<1> QED
  BY <1>2, <1>5, <1>6, <1>8

LEMMA VisibleStrip ==
  ASSUME NEW s \in Seq(Char)
  PROVE  Visible(Strip(s)) = Visible(s)
<1> DEFINE n == Trimmed(s)
           a == SubSeq(s, 1, n)
           b == SubSeq(s, n + 1, Len(s))
<1>1. Len(s) \in Nat /\ n \in 0..Len(s) /\ \A i \in (n + 1)..Len(s) : s[i] \in White
  BY LenProperties, TrimmedIs
<1>2. Strip(s) = Lstrip(a)
  BY DEF Strip
<1> HIDE DEF n
<1>3. /\ a \in Seq(Char) /\ b \in Seq(Char)
      /\ Visible(s) = Visible(a) \o Visible(b)
  BY <1>1, VisibleSplit
<1>4. /\ Len(b) = Len(s) - (n + 1) + 1
      /\ \A i \in 1..(Len(s) - (n + 1) + 1) : b[i] = s[(n + 1) + i - 1]
  <2>1. n + 1 \in 1..(Len(s) + 1) /\ Len(s) \in 0..Len(s) /\ n + 1 <= Len(s) + 1
    BY <1>1
  <2> QED
    BY <1>1, <2>1, Part
<1> HIDE DEF a, b
<1>5. \A i \in 1..Len(b) : b[i] \in White
  <2> SUFFICES ASSUME NEW i \in 1..Len(b) PROVE b[i] \in White
    OBVIOUS
  <2>1. i \in 1..(Len(s) - (n + 1) + 1) /\ (n + 1) + i - 1 \in (n + 1)..Len(s)
    BY <1>1, <1>4
  <2> QED
    BY <1>1, <1>4, <2>1
<1>6. Visible(b) = <<>>
  BY <1>3, <1>5, VisibleWhite
<1>7. Visible(a) \in Seq(Char) /\ Visible(Lstrip(a)) = Visible(a)
  BY <1>3, SeenIs, VisibleLstrip
<1>8. Visible(a) \o <<>> = Visible(a)
  BY <1>7, ConcatEmptySeq
<1> QED
  BY <1>2, <1>3, <1>6, <1>7, <1>8

(***************************************************************************)
(* Of a text that is not blank something is visible.                       *)
(***************************************************************************)
LEMMA VisibleSome ==
  ASSUME NEW s \in Seq(Char), NEW k \in 1..Len(s), s[k] \notin White
  PROVE  Visible(s) # <<>>
<1> DEFINE t == SubSeq(s, k, Len(s))
           a == SubSeq(t, 1, 1)
           b == SubSeq(t, 2, Len(t))
<1>1. Len(s) \in Nat /\ k - 1 \in 0..Len(s) /\ (k - 1) + 1 = k
  BY LenProperties
<1>2. /\ t \in Seq(Char) /\ SubSeq(s, 1, k - 1) \in Seq(Char)
      /\ Visible(s) = Visible(SubSeq(s, 1, k - 1)) \o Visible(t)
  BY <1>1, VisibleSplit
<1>3. Len(t) = Len(s) - k + 1 /\ t[1] = s[k]
  <2>1. k \in 1..(Len(s) + 1) /\ Len(s) \in 0..Len(s) /\ k <= Len(s) + 1
    BY <1>1
  <2>2. Len(t) = Len(s) - k + 1 /\ \A i \in 1..(Len(s) - k + 1) : t[i] = s[k + i - 1]
    BY <2>1, Part
  <2>3. 1 \in 1..(Len(s) - k + 1) /\ k + 1 - 1 = k
    BY <1>1
  <2> HIDE DEF t
  <2> QED
    BY <2>2, <2>3
<1> HIDE DEF t
<1>4. 1 \in 0..Len(t) /\ 1 + 1 = 2 /\ 1 \in 1..(Len(t) + 1) /\ 1 <= 1 + 1
  BY <1>1, <1>3
<1>5. a \in Seq(Char) /\ b \in Seq(Char) /\ Visible(t) = Visible(a) \o Visible(b)
  BY <1>2, <1>4, VisibleSplit
<1>6. a = <<s[k]>>
  <2>1. Len(a) = 1 - 1 + 1 /\ \A i \in 1..(1 - 1 + 1) : a[i] = t[1 + i - 1]
    BY <1>2, <1>4, Part
  <2> HIDE DEF a
  <2>2. Len(a) = 1 /\ a[1] = s[k]
    BY <1>3, <2>1
  <2>3. s[k] \in Char
    BY ElementOfSeq
  <2>4. <<s[k]>> \in Seq(Char) /\ Len(<<s[k]>>) = 1 /\ <<s[k]>>[1] = s[k]
    BY <2>3
  <2>5. \A i \in 1..Len(a) : a[i] = <<s[k]>>[i]
    BY <2>2
  <2> QED
    BY <1>5, <2>2, <2>4, <2>5, SeqEqual DEF a
<1>7. Visible(a) = <<s[k]>>
  <2>1. s[k] \in Char
    BY ElementOfSeq
  <2> QED
    BY <1>6, <2>1, VisibleOne
<1> HIDE DEF a, b
<1> DEFINE u == Visible(SubSeq(s, 1, k - 1))
           v == Visible(a)
           w == Visible(b)
<1>8. u \in Seq(Char) /\ v \in Seq(Char) /\ w \in Seq(Char) /\ v # <<>>
  <2>1. u \in Seq(Char) /\ v \in Seq(Char) /\ w \in Seq(Char)
    BY <1>2, <1>5, SeenIs
  <2>2. v # <<>>
    BY <1>7, OneIsSome
  <2> QED
    BY <2>1, <2>2
<1>9. Visible(s) = u \o (v \o w)
  BY <1>2, <1>5
<1> HIDE DEF u, v, w
<1>10. v \o w # <<>> /\ v \o w \in Seq(Char)
  BY <1>8, ConcatEqualIffEmpty, ConcatProperties
<1>11. u \o (v \o w) # <<>>
  BY <1>8, <1>10, ConcatEqualIffEmpty
<1> QED
  BY <1>9, <1>11

-----------------------------------------------------------------------------
\* What ClausesFit and SentencesEnd say of one clause.
ClauseOK(c) ==
  /\ Len(c) \in 1..MaxChars /\ c[1] \notin White /\ c[Len(c)] \notin White
  /\ \A j \in 1..(Len(c) - 1) : c[j] \notin Strong

ClausesOK == \A i \in 1..Len(chunks) : ClauseOK(chunks[i])

\* The inductive invariant.
Inv == ChunkerTypeOK /\ ClausesOK /\ PendingIsShort

(***************************************************************************)
(* A text that is short enough and has no strong boundary before its end   *)
(* is a clause once it is stripped, unless nothing is left of it.          *)
(***************************************************************************)
LEMMA StripClause ==
  ASSUME NEW s \in Seq(Char), Len(s) <= MaxChars,
         \A j \in 1..(Len(s) - 1) : s[j] \notin Strong
  PROVE  Strip(s) \in Seq(Char) /\ (Strip(s) # <<>> => ClauseOK(Strip(s)))
<1> DEFINE c == Strip(s)
<1>1. Len(s) \in Nat /\ MaxChars \in Nat
  BY LenProperties, ChunkerAssumption
<1>2. /\ c \in Seq(Char) /\ Len(c) <= Len(s)
      /\ c # <<>> => /\ Len(c) \in Nat \ {0}
                     /\ c[1] \notin White /\ c[Len(c)] \notin White
      /\ \E o \in Nat : /\ o + Len(c) <= Len(s)
                        /\ \A i \in 1..Len(c) : c[i] = s[o + i]
  BY StripIs
<1> HIDE DEF c
<1>3. PICK o \in Nat : o + Len(c) <= Len(s) /\ \A i \in 1..Len(c) : c[i] = s[o + i]
  BY <1>2
<1>4. ASSUME NEW j \in 1..(Len(c) - 1) PROVE c[j] \notin Strong
  <2>1. Len(c) \in Nat
    BY <1>2, LenProperties
  <2>2. j \in 1..Len(c) /\ o + j \in 1..(Len(s) - 1)
    BY <1>1, <1>3, <2>1
  <2> QED
    BY <1>3, <2>2
<1>5. c # <<>> => Len(c) \in 1..MaxChars
  BY <1>1, <1>2
<1> QED
  BY <1>2, <1>4, <1>5 DEF ClauseOK, c

(***************************************************************************)
(* The clauses with one more.                                              *)
(***************************************************************************)
LEMMA OneMoreClause ==
  ASSUME ChunkerTypeOK, ClausesOK, NEW c \in Seq(Char), c # <<>> => ClauseOK(c),
         chunks' = IF c = <<>> THEN chunks ELSE Append(chunks, c)
  PROVE  chunks' \in Seq(Seq(Char)) /\ ClausesOK'
<1>1. chunks \in Seq(Seq(Char)) /\ Len(chunks) \in Nat
  BY LenProperties DEF ChunkerTypeOK
<1>2. CASE c = <<>>
  BY <1>1, <1>2 DEF ClausesOK
<1>3. CASE c # <<>>
  <2>1. /\ chunks' \in Seq(Seq(Char)) /\ Len(chunks') = Len(chunks) + 1
        /\ \A i \in 1..Len(chunks) : chunks'[i] = chunks[i]
        /\ chunks'[Len(chunks) + 1] = c
    BY <1>1, <1>3, AppendProperties
  <2>2. ASSUME NEW i \in 1..Len(chunks') PROVE ClauseOK(chunks'[i])
    <3>1. i \in 1..Len(chunks) \/ i = Len(chunks) + 1
      BY <1>1, <2>1
    <3> QED
      BY <1>3, <2>1, <3>1 DEF ClausesOK
  <2> QED
    BY <2>1, <2>2 DEF ClausesOK
<1> QED
  BY <1>2, <1>3

(***************************************************************************)
(* A clause cut off where nothing before it ends a sentence.               *)
(***************************************************************************)
LEMMA EmitClause ==
  ASSUME Inv, NEW end \in 1..MaxChars, end <= Len(buffer), Emit(end),
         \A j \in 1..(end - 1) : buffer[j] \notin Strong
  PROVE  /\ buffer' \in Seq(Char) /\ chunks' \in Seq(Seq(Char))
         /\ ClausesOK'
<1> DEFINE s == SubSeq(buffer, 1, end)
           r == SubSeq(buffer, end + 1, Len(buffer))
<1>1. /\ ChunkerTypeOK /\ ClausesOK /\ buffer \in Seq(Char) /\ Len(buffer) \in Nat
      /\ MaxChars \in Nat
  BY LenProperties, ChunkerAssumption DEF Inv, ChunkerTypeOK
<1>2. s \in Seq(Char) /\ Len(s) = end /\ \A i \in 1..end : s[i] = buffer[i]
  <2>1. 1 \in 1..(Len(buffer) + 1) /\ end \in 0..Len(buffer) /\ 1 <= end + 1
    BY <1>1
  <2>2. /\ s \in Seq(Char) /\ Len(s) = end - 1 + 1
        /\ \A i \in 1..(end - 1 + 1) : s[i] = buffer[1 + i - 1]
    BY <1>1, <2>1, Part
  <2> HIDE DEF s
  <2> QED
    BY <2>2
<1>3. r \in Seq(Char)
  <2>1. /\ end + 1 \in 1..(Len(buffer) + 1) /\ Len(buffer) \in 0..Len(buffer)
        /\ end + 1 <= Len(buffer) + 1
    BY <1>1
  <2> QED
    BY <1>1, <2>1, Part
<1> HIDE DEF s, r
<1>4. /\ buffer' = Lstrip(r)
      /\ chunks' = IF Strip(s) = <<>> THEN chunks ELSE Append(chunks, Strip(s))
  BY DEF Emit, s, r
<1>5. buffer' \in Seq(Char)
  BY <1>3, <1>4, LstripIs
<1>6. Strip(s) \in Seq(Char) /\ (Strip(s) # <<>> => ClauseOK(Strip(s)))
  <2>1. Len(s) <= MaxChars /\ \A j \in 1..(Len(s) - 1) : s[j] \notin Strong
    BY <1>1, <1>2
  <2> QED
    BY <1>2, <2>1, StripClause
<1> QED
  BY <1>1, <1>4, <1>5, <1>6, OneMoreClause

(***************************************************************************)
(* A clause that is too long is cut within its limit, and after something. *)
(***************************************************************************)
LEMMA HardSplitIs ==
  ASSUME NEW b \in Seq(Char), Len(b) >= MaxChars
  PROVE  HardSplit(b) \in 1..MaxChars /\ HardSplit(b) <= Len(b)
<1> DEFINE blanks == {i \in 2..Len(b) : i <= MaxChars + 1 /\ b[i] \in Blank}
           T == {MaxChars + 1 - i : i \in blanks}
<1>1. Len(b) \in Nat /\ MaxChars \in Nat /\ MaxChars >= 16
  BY LenProperties, ChunkerAssumption
<1>2. CASE blanks = {}
  <2>1. HardSplit(b) = MaxChars
    BY <1>2 DEF HardSplit
  <2> QED
    BY <1>1, <2>1
<1>3. CASE blanks # {}
  <2>1. T \in SUBSET Nat /\ T # {}
    BY <1>1, <1>3
  <2>2. PICK d \in T : \A m \in T : d <= m
    <3> HIDE DEF T
    <3> QED BY <2>1, Least
  <2>3. PICK i \in blanks : d = MaxChars + 1 - i
    OBVIOUS
  <2>4. ASSUME NEW j \in blanks PROVE j <= i
    <3>1. MaxChars + 1 - j \in T
      OBVIOUS
    <3>2. d <= MaxChars + 1 - j
      BY <2>2, <3>1
    <3>3. i \in Nat /\ j \in Nat
      OBVIOUS
    <3> HIDE DEF T, blanks
    <3> QED
      BY <1>1, <2>3, <3>2, <3>3
  <2> DEFINE last == CHOOSE k \in blanks : \A j \in blanks : j <= k
  <2>5. last \in blanks
    <3> HIDE DEF blanks
    <3> QED BY <2>4
  <2>6. HardSplit(b) = last - 1
    BY <1>3 DEF HardSplit
  <2>7. last \in 2..Len(b) /\ last <= MaxChars + 1
    BY <2>5
  <2> HIDE DEF last
  <2> QED
    BY <1>1, <2>6, <2>7
<1> QED
  BY <1>2, <1>3

-----------------------------------------------------------------------------
LEMMA InitInv == ChunkerInit => Inv
<1> SUFFICES ASSUME ChunkerInit PROVE Inv
  OBVIOUS
<1>1. /\ buffer = <<>> /\ chunks = <<>> /\ fed = <<>> /\ pc = "idle" /\ feeds = 0
      /\ MaxChars \in Nat /\ MaxChars >= 16
  BY ChunkerAssumption DEF ChunkerInit
<1>2. ChunkerTypeOK /\ ClausesOK
  BY <1>1 DEF ChunkerTypeOK, ClausesOK
<1>3. PendingIsShort
  BY <1>1 DEF PendingIsShort, Boundaries
<1> QED
  BY <1>2, <1>3 DEF Inv

\* A call begins, or everything is forgotten.
LEMMA CallInv ==
  ASSUME Inv, (\E delta \in Deltas : Feed(delta)) \/ Flush \/ Clear
  PROVE  Inv'
<1>1. ChunkerTypeOK /\ ClausesOK /\ PendingIsShort
  BY DEF Inv
<1>2. ASSUME NEW delta \in Deltas, Feed(delta) PROVE Inv'
  <2>1. /\ pc' = "feed" /\ chunks' = chunks /\ feeds' = feeds + 1
        /\ buffer' = buffer \o delta /\ fed' = fed \o delta
    BY <1>2 DEF Feed
  <2>2. buffer' \in Seq(Char) /\ fed' \in Seq(Char)
    BY <1>1, <2>1, ChunkerAssumption, ConcatProperties DEF ChunkerTypeOK
  <2>3. feeds' \in Nat
    BY <1>1, <2>1 DEF ChunkerTypeOK
  <2>4. ChunkerTypeOK'
    BY <1>1, <2>1, <2>2, <2>3 DEF ChunkerTypeOK
  <2> QED
    BY <1>1, <2>1, <2>4 DEF Inv, ClausesOK, PendingIsShort
<1>3. CASE Flush
  BY <1>1, <1>3 DEF Inv, ClausesOK, PendingIsShort, ChunkerTypeOK, Flush
<1>4. CASE Clear
  <2>1. /\ buffer' = <<>> /\ chunks' = <<>> /\ fed' = <<>> /\ feeds' = 0 /\ pc' = pc
        /\ MaxChars \in Nat /\ MaxChars >= 16
    BY <1>4, ChunkerAssumption DEF Clear
  <2>2. ChunkerTypeOK' /\ ClausesOK'
    BY <1>1, <2>1 DEF ChunkerTypeOK, ClausesOK
  <2>3. PendingIsShort'
    BY <2>1 DEF PendingIsShort, Boundaries
  <2> QED
    BY <2>2, <2>3 DEF Inv
<1> QED
  BY <1>2, <1>3, <1>4

(***************************************************************************)
(* The first boundary has no strong one before it.                         *)
(***************************************************************************)
LEMMA CutClauseInv ==
  ASSUME Inv, CutClause PROVE Inv'
<1>1. /\ ChunkerTypeOK /\ pc # "idle" /\ pc' = pc /\ fed' = fed /\ feeds' = feeds
      /\ Len(buffer) \in Nat /\ MaxChars \in Nat
  BY LenProperties, ChunkerAssumption DEF Inv, ChunkerTypeOK, CutClause
<1>2. PICK i \in Boundaries(buffer) : (\A j \in Boundaries(buffer) : i <= j) /\ Emit(i)
  BY DEF CutClause
<1>3. i \in 1..MaxChars /\ i <= Len(buffer)
  BY <1>1, <1>2 DEF Boundaries
<1>4. ASSUME NEW j \in 1..(i - 1), buffer[j] \in Strong PROVE FALSE
  <2>1. j \in 1..Len(buffer) /\ j <= MaxChars /\ ~(i <= j)
    BY <1>1, <1>3
  <2>2. j \in Boundaries(buffer)
    BY <1>4, <2>1 DEF Boundaries
  <2> QED
    BY <1>2, <2>1, <2>2
<1>5. buffer' \in Seq(Char) /\ chunks' \in Seq(Seq(Char)) /\ ClausesOK'
  BY <1>2, <1>3, <1>4, EmitClause
<1>6. ChunkerTypeOK' /\ PendingIsShort'
  BY <1>1, <1>5 DEF ChunkerTypeOK, PendingIsShort
<1> QED
  BY <1>5, <1>6 DEF Inv

(***************************************************************************)
(* A text cut for its length has none within it.                           *)
(***************************************************************************)
LEMMA CutHardInv ==
  ASSUME Inv, CutHard PROVE Inv'
<1> DEFINE end == HardSplit(buffer)
<1>1. /\ ChunkerTypeOK /\ pc # "idle" /\ pc' = pc /\ fed' = fed /\ feeds' = feeds
      /\ buffer \in Seq(Char) /\ Len(buffer) \in Nat /\ MaxChars \in Nat
      /\ Boundaries(buffer) = {} /\ Len(buffer) >= MaxChars /\ Emit(end)
  BY LenProperties, ChunkerAssumption DEF Inv, ChunkerTypeOK, CutHard
<1>2. end \in 1..MaxChars /\ end <= Len(buffer)
  BY <1>1, HardSplitIs
<1> HIDE DEF end
<1>3. ASSUME NEW j \in 1..(end - 1), buffer[j] \in Strong PROVE FALSE
  <2>1. j \in 1..Len(buffer) /\ j <= MaxChars
    BY <1>1, <1>2
  <2> QED
    BY <1>1, <1>3, <2>1 DEF Boundaries
<1>4. buffer' \in Seq(Char) /\ chunks' \in Seq(Seq(Char)) /\ ClausesOK'
  BY <1>1, <1>2, <1>3, EmitClause
<1>5. ChunkerTypeOK' /\ PendingIsShort'
  BY <1>1, <1>4 DEF ChunkerTypeOK, PendingIsShort
<1> QED
  BY <1>4, <1>5 DEF Inv

(***************************************************************************)
(* The rest is short and has none either; flush makes a clause of it.      *)
(***************************************************************************)
LEMMA ReturnInv ==
  ASSUME Inv, Return PROVE Inv'
<1>1. /\ ChunkerTypeOK /\ ClausesOK /\ pc' = "idle" /\ fed' = fed /\ feeds' = feeds
      /\ buffer \in Seq(Char) /\ Len(buffer) \in Nat
      /\ MaxChars \in Nat /\ MaxChars >= 16
      /\ Boundaries(buffer) = {} /\ Len(buffer) < MaxChars
  BY LenProperties, ChunkerAssumption DEF Inv, ChunkerTypeOK, Return
<1>2. CASE pc = "flush"
  <2>1. ASSUME NEW j \in 1..(Len(buffer) - 1), buffer[j] \in Strong PROVE FALSE
    <3>1. j \in 1..Len(buffer) /\ j <= MaxChars
      BY <1>1
    <3> QED
      BY <1>1, <2>1, <3>1 DEF Boundaries
  <2>2. Strip(buffer) \in Seq(Char) /\ (Strip(buffer) # <<>> => ClauseOK(Strip(buffer)))
    BY <1>1, <2>1, StripClause
  <2>3. /\ buffer' = <<>>
        /\ chunks' = IF Strip(buffer) = <<>> THEN chunks ELSE Append(chunks, Strip(buffer))
    BY <1>2 DEF Return
  <2>4. chunks' \in Seq(Seq(Char)) /\ ClausesOK'
    BY <1>1, <2>2, <2>3, OneMoreClause
  <2>5. ChunkerTypeOK'
    BY <1>1, <2>3, <2>4 DEF ChunkerTypeOK
  <2>6. PendingIsShort'
    BY <1>1, <2>3 DEF PendingIsShort, Boundaries
  <2> QED
    BY <2>4, <2>5, <2>6 DEF Inv
<1>3. CASE pc # "flush"
  <2>1. UNCHANGED <<chunks, buffer>>
    BY <1>3 DEF Return
  <2> QED
    BY <1>1, <2>1 DEF Inv, ChunkerTypeOK, ClausesOK, PendingIsShort, Boundaries
<1> QED
  BY <1>2, <1>3

LEMMA NextInv == Inv /\ [ChunkerNext]_chunkerVars => Inv'
<1>1. ASSUME Inv, UNCHANGED chunkerVars PROVE Inv'
  BY <1>1 DEF chunkerVars, Inv, ChunkerTypeOK, ClausesOK, PendingIsShort, Boundaries
<1> QED
  BY <1>1, CallInv, CutClauseInv, CutHardInv, ReturnInv DEF ChunkerNext, Runs

LEMMA InvHolds == ChunkerSpec => []Inv
BY InitInv, NextInv, PTL DEF ChunkerSpec

-----------------------------------------------------------------------------
(***************************************************************************)
(* Every clause costs a character at least.                                *)
(***************************************************************************)
FewClauses == Len(chunks) + Len(buffer) <= Len(fed)

LEMMA EmitKeepsFew ==
  ASSUME ChunkerTypeOK, FewClauses, NEW end \in 1..Len(buffer), Emit(end),
         fed' = fed
  PROVE  FewClauses'
<1> DEFINE s == SubSeq(buffer, 1, end)
           r == SubSeq(buffer, end + 1, Len(buffer))
<1>1. /\ chunks \in Seq(Seq(Char)) /\ buffer \in Seq(Char)
      /\ Len(chunks) \in Nat /\ Len(buffer) \in Nat /\ Len(fed) \in Nat
  BY LenProperties DEF ChunkerTypeOK
<1>2. /\ 1 \in 1..(Len(buffer) + 1) /\ end \in 0..Len(buffer) /\ 1 <= end + 1
      /\ end + 1 \in 1..(Len(buffer) + 1) /\ Len(buffer) \in 0..Len(buffer)
      /\ end + 1 <= Len(buffer) + 1
  BY <1>1
<1>3. s \in Seq(Char) /\ r \in Seq(Char) /\ Len(r) = Len(buffer) - (end + 1) + 1
  BY <1>1, <1>2, Part
<1>4. /\ buffer' = Lstrip(r)
      /\ chunks' = IF Strip(s) = <<>> THEN chunks ELSE Append(chunks, Strip(s))
  BY DEF Emit
<1> HIDE DEF s, r
<1>5. Leading(r) \in 0..Len(r) /\ Len(buffer') = Len(r) - Leading(r)
  BY <1>3, <1>4, LeadingIs, LstripIs
<1>6. Strip(s) \in Seq(Char)
  BY <1>3, StripIs
<1>7. Len(chunks') = Len(chunks) \/ Len(chunks') = Len(chunks) + 1
  BY <1>1, <1>4, <1>6, AppendProperties
<1> QED
  BY <1>1, <1>2, <1>3, <1>5, <1>7 DEF FewClauses

LEMMA RunsKeepFew ==
  ASSUME Inv, FewClauses, Runs
  PROVE  FewClauses'
<1>1. /\ ChunkerTypeOK /\ chunks \in Seq(Seq(Char)) /\ buffer \in Seq(Char)
      /\ Len(chunks) \in Nat /\ Len(buffer) \in Nat /\ Len(fed) \in Nat /\ fed' = fed
  BY LenProperties DEF Inv, ChunkerTypeOK, Runs, CutClause, CutHard, Return
<1>2. CASE CutClause
  <2>1. PICK i \in Boundaries(buffer) : Emit(i)
    BY <1>2 DEF CutClause
  <2>2. i \in 1..Len(buffer)
    BY <2>1 DEF Boundaries
  <2> QED
    BY <1>1, <2>1, <2>2, EmitKeepsFew
<1>3. CASE CutHard
  <2>1. Emit(HardSplit(buffer)) /\ Len(buffer) >= MaxChars /\ MaxChars \in Nat
    BY <1>3, ChunkerAssumption DEF CutHard
  <2>2. HardSplit(buffer) \in 1..MaxChars /\ HardSplit(buffer) <= Len(buffer)
    BY <1>1, <2>1, HardSplitIs
  <2>3. HardSplit(buffer) \in 1..Len(buffer)
    BY <1>1, <2>1, <2>2
  <2> QED
    BY <1>1, <2>1, <2>3, EmitKeepsFew
<1>4. CASE Return
  <2>1. CASE pc = "flush"
    <3> DEFINE c == Strip(buffer)
    <3>1. buffer' = <<>> /\ chunks' = IF c = <<>> THEN chunks ELSE Append(chunks, c)
      BY <1>4, <2>1 DEF Return
    <3>2. /\ c \in Seq(Char) /\ Len(c) <= Len(buffer)
          /\ c # <<>> => Len(c) \in Nat \ {0}
      BY <1>1, StripIs
    <3> HIDE DEF c
    <3>3. CASE c = <<>>
      BY <1>1, <3>1, <3>3 DEF FewClauses
    <3>4. CASE c # <<>>
      <4>1. Len(chunks') = Len(chunks) + 1 /\ Len(buffer') = 0
        BY <1>1, <3>1, <3>2, <3>4, AppendProperties
      <4> QED
        BY <1>1, <3>2, <3>4, <4>1 DEF FewClauses
    <3> QED
      BY <3>3, <3>4
  <2>2. CASE pc # "flush"
    BY <1>1, <1>4, <2>2 DEF FewClauses, Return
  <2> QED
    BY <2>1, <2>2
<1> QED
  BY <1>2, <1>3, <1>4 DEF Runs

-----------------------------------------------------------------------------
(***************************************************************************)
(* chunking.py:40-77: no clause is longer than max_chars, empty or padded  *)
(* with white space, however the text arrives.                             *)
(***************************************************************************)
THEOREM ClausesAlwaysFit == ChunkerSpec => []ClausesFit
<1>1. Inv => ClausesFit
  BY DEF Inv, ClausesOK, ClauseOK, ClausesFit
<1> QED
  BY <1>1, InvHolds, PTL

(***************************************************************************)
(* No clause runs over the end of a sentence.                              *)
(***************************************************************************)
THEOREM SentencesAlwaysEnd == ChunkerSpec => []SentencesEnd
<1>1. Inv => SentencesEnd
  BY DEF Inv, ClausesOK, ClauseOK, SentencesEnd
<1> QED
  BY <1>1, InvHolds, PTL

(***************************************************************************)
(* Between two calls less than max_chars is pending, and none of it could  *)
(* have been spoken already.                                               *)
(***************************************************************************)
THEOREM PendingStaysShort == ChunkerSpec => []PendingIsShort
<1>1. Inv => PendingIsShort
  BY DEF Inv
<1> QED
  BY <1>1, InvHolds, PTL

-----------------------------------------------------------------------------
(***************************************************************************)
(* What the clauses say, and what one more of them adds to it.             *)
(***************************************************************************)
Told == Visible(FlattenSeq(chunks))

LEMMA TellOneMore ==
  ASSUME chunks \in Seq(Seq(Char)), NEW c \in Seq(Char),
         chunks' = IF c = <<>> THEN chunks ELSE Append(chunks, c)
  PROVE  Told' = Told \o Visible(c)
<1>1. FlattenSeq(chunks) \in Seq(Char) /\ Told \in Seq(Char)
  BY FlattenTyped, SeenIs DEF Told
<1>2. CASE c = <<>>
  <2>1. Visible(c) = <<>>
    BY <1>2, VisibleNothing
  <2>2. Told \o <<>> = Told
    BY <1>1, ConcatEmptySeq
  <2> QED
    BY <1>2, <2>1, <2>2 DEF Told
<1>3. CASE c # <<>>
  <2>1. FlattenSeq(Append(chunks, c)) = FlattenSeq(chunks) \o c
    BY FlattenAppend
  <2>2. Visible(FlattenSeq(chunks) \o c) = Visible(FlattenSeq(chunks)) \o Visible(c)
    BY <1>1, VisibleConcat
  <2> QED
    BY <1>3, <2>1, <2>2 DEF Told
<1> QED
  BY <1>2, <1>3

LEMMA EmitTells ==
  ASSUME ChunkerTypeOK, NEW end \in 0..Len(buffer), Emit(end)
  PROVE  Told' \o Visible(buffer') = Told \o Visible(buffer)
<1> DEFINE s == SubSeq(buffer, 1, end)
           r == SubSeq(buffer, end + 1, Len(buffer))
<1>1. chunks \in Seq(Seq(Char)) /\ buffer \in Seq(Char)
  BY DEF ChunkerTypeOK
<1>2. /\ s \in Seq(Char) /\ r \in Seq(Char)
      /\ Visible(buffer) = Visible(s) \o Visible(r)
  BY <1>1, VisibleSplit
<1>3. /\ buffer' = Lstrip(r)
      /\ chunks' = IF Strip(s) = <<>> THEN chunks ELSE Append(chunks, Strip(s))
  BY DEF Emit
<1> HIDE DEF s, r
<1>4. Visible(buffer') = Visible(r) /\ Strip(s) \in Seq(Char)
  BY <1>2, <1>3, VisibleLstrip, StripIs
<1>5. Told' = Told \o Visible(s)
  BY <1>1, <1>2, <1>3, <1>4, TellOneMore, VisibleStrip
<1> DEFINE x == Told
           y == Visible(s)
           z == Visible(r)
<1>6. x \in Seq(Char) /\ y \in Seq(Char) /\ z \in Seq(Char)
  BY <1>1, <1>2, FlattenTyped, SeenIs DEF Told
<1>7. Told' = x \o y /\ Visible(buffer') = z /\ Told = x /\ Visible(buffer) = y \o z
  BY <1>2, <1>4, <1>5
<1> HIDE DEF x, y, z
<1>8. (x \o y) \o z = x \o (y \o z)
  BY SMTT(30), <1>6, ConcatAssociative
<1> QED
  BY <1>7, <1>8

(***************************************************************************)
(* Every step keeps the account: a turn of the loop moves what it cuts off *)
(* from the buffer to the clauses, and flush moves the rest.               *)
(***************************************************************************)
LEMMA RunsKeepAccount ==
  ASSUME Inv, NothingIsLost, Runs
  PROVE  NothingIsLost'
<1>1. /\ ChunkerTypeOK /\ chunks \in Seq(Seq(Char)) /\ buffer \in Seq(Char)
      /\ Len(buffer) \in Nat /\ fed' = fed
  BY LenProperties DEF Inv, ChunkerTypeOK, Runs, CutClause, CutHard, Return
<1>2. Told \o Visible(buffer) = Visible(fed)
  BY DEF NothingIsLost, Told
<1>3. ASSUME NEW end \in 0..Len(buffer), Emit(end) PROVE NothingIsLost'
  <2>1. Told' \o Visible(buffer') = Told \o Visible(buffer)
    BY <1>1, <1>3, EmitTells
  <2> QED
    BY <1>1, <1>2, <2>1 DEF NothingIsLost, Told
<1>4. CASE CutClause
  <2>1. PICK i \in Boundaries(buffer) : Emit(i)
    BY <1>4 DEF CutClause
  <2>2. i \in 0..Len(buffer)
    BY <1>1, <2>1 DEF Boundaries
  <2> QED
    BY <1>3, <2>1, <2>2
<1>5. CASE CutHard
  <2>1. Emit(HardSplit(buffer)) /\ Len(buffer) >= MaxChars /\ MaxChars \in Nat
    BY <1>5, ChunkerAssumption DEF CutHard
  <2>2. HardSplit(buffer) \in 1..MaxChars /\ HardSplit(buffer) <= Len(buffer)
    BY <1>1, <2>1, HardSplitIs
  <2>3. HardSplit(buffer) \in 0..Len(buffer)
    BY <1>1, <2>1, <2>2
  <2> QED
    BY <1>3, <2>1, <2>3
<1>6. CASE Return
  <2>1. CASE pc = "flush"
    <3>1. /\ buffer' = <<>>
          /\ chunks' = IF Strip(buffer) = <<>> THEN chunks ELSE Append(chunks, Strip(buffer))
      BY <1>6, <2>1 DEF Return
    <3>2. Told' = Told \o Visible(buffer)
      <4>1. Strip(buffer) \in Seq(Char) /\ Visible(Strip(buffer)) = Visible(buffer)
        BY <1>1, StripIs, VisibleStrip
      <4> QED
        BY <1>1, <3>1, <4>1, TellOneMore
    <3>3. Visible(buffer') = <<>>
      BY <3>1, VisibleNothing
    <3>4. Told' \in Seq(Char)
      <4>1. Told \in Seq(Char) /\ Visible(buffer) \in Seq(Char)
        BY <1>1, FlattenTyped, SeenIs DEF Told
      <4> QED
        BY <3>2, <4>1, ConcatProperties
    <3>5. Told' \o <<>> = Told'
      BY <3>4, ConcatEmptySeq
    <3> QED
      BY <1>1, <1>2, <3>2, <3>3, <3>5 DEF NothingIsLost, Told
  <2>2. CASE pc # "flush"
    BY <1>1, <1>6, <2>2 DEF NothingIsLost, Return
  <2> QED
    BY <2>1, <2>2
<1> QED
  BY <1>4, <1>5, <1>6 DEF Runs

\* A delta is pending before anything is made of it.
LEMMA FeedKeepsAccount ==
  ASSUME Inv, NothingIsLost, NEW delta \in Seq(Char), Feed(delta)
  PROVE  NothingIsLost'
<1>1. /\ chunks \in Seq(Seq(Char)) /\ buffer \in Seq(Char) /\ fed \in Seq(Char)
  BY DEF Inv, ChunkerTypeOK
<1>2. chunks' = chunks /\ buffer' = buffer \o delta /\ fed' = fed \o delta
  BY DEF Feed
<1>3. /\ Visible(buffer') = Visible(buffer) \o Visible(delta)
      /\ Visible(fed') = Visible(fed) \o Visible(delta)
  BY <1>1, <1>2, VisibleConcat
<1> DEFINE x == Told
           y == Visible(buffer)
           z == Visible(delta)
<1>4. x \in Seq(Char) /\ y \in Seq(Char) /\ z \in Seq(Char)
  BY <1>1, FlattenTyped, SeenIs DEF Told
<1>5. Visible(fed) = x \o y
  BY DEF NothingIsLost, Told
<1> HIDE DEF x, y, z
<1>6. (x \o y) \o z = x \o (y \o z)
  BY <1>4, ConcatAssociative
<1>7. Visible(FlattenSeq(chunks)) = x
  BY DEF x, Told
<1>8. /\ Visible(FlattenSeq(chunks')) = x
      /\ Visible(buffer') = y \o z /\ Visible(fed') = (x \o y) \o z
  BY <1>2, <1>3, <1>5, <1>7 DEF y, z
<1> QED
  BY <1>6, <1>8 DEF NothingIsLost

LEMMA EmptyAccount == Visible(FlattenSeq(<<>>)) \o Visible(<<>>) = Visible(<<>>)
<1> DEFINE e == <<>>
<1>1. e \in Seq(Seq(Char)) /\ Len(e) = 0
  OBVIOUS
<1> HIDE DEF e
<1>2. FlattenSeq(e) = <<>>
  BY <1>1, FlattenNone
<1>3. <<>> \o <<>> = <<>>
  BY ConcatEmptySeq, EmptySeq
<1> QED
  BY <1>2, <1>3, VisibleNothing DEF e

(***************************************************************************)
(* chunking.py:28-82: cutting text up changes nothing but white space:     *)
(* what was returned and what is still pending is, in order, what was fed. *)
(***************************************************************************)
THEOREM NothingGoesMissing == ChunkerSpec => []NothingIsLost
<1>1. ChunkerInit => NothingIsLost
  BY EmptyAccount DEF ChunkerInit, NothingIsLost
<1>2. Inv /\ NothingIsLost /\ [ChunkerNext]_chunkerVars => NothingIsLost'
  <2> SUFFICES ASSUME Inv, NothingIsLost, [ChunkerNext]_chunkerVars
               PROVE  NothingIsLost'
    OBVIOUS
  <2>1. ASSUME NEW delta \in Deltas, Feed(delta) PROVE NothingIsLost'
    BY <2>1, FeedKeepsAccount, ChunkerAssumption
  <2>2. CASE Clear
    <3>1. chunks' = <<>> /\ buffer' = <<>> /\ fed' = <<>>
      BY <2>2 DEF Clear
    <3> QED
      BY <3>1, EmptyAccount DEF NothingIsLost
  <2>3. CASE Runs
    BY <2>3, RunsKeepAccount
  <2>4. CASE Flush \/ UNCHANGED chunkerVars
    BY <2>4 DEF Flush, chunkerVars, NothingIsLost
  <2> QED
    BY <2>1, <2>2, <2>3, <2>4 DEF ChunkerNext
<1> QED
  BY <1>1, <1>2, InvHolds, PTL DEF ChunkerSpec

-----------------------------------------------------------------------------
\* The samples of a stream.
Sample == {"silence"} \cup (Requests \X Nat)

\* What stands in front of the i-th piece of audio a.
Lead(i, a) == IF i = 1 THEN a ELSE Gap \o a
Led(ps) == [i \in 1..Len(ps) |-> IF i = 1 THEN ps[i] ELSE Gap \o ps[i]]

LEMMA LeadIs ==
  ASSUME NEW i, NEW a \in Seq(Sample)
  PROVE  Lead(i, a) \in Seq(Sample)
<1>1. Gap \in Seq(Sample)
  <2>1. "silence" \in Sample
    BY DEF Sample
  <2> QED
    BY <2>1 DEF Gap
<1>2. Gap \o a \in Seq(Sample)
  BY <1>1, ConcatProperties
<1> QED
  BY <1>2 DEF Lead

LEMMA LedIs ==
  ASSUME NEW ps \in Seq(Seq(Sample))
  PROVE  /\ Led(ps) \in Seq(Seq(Sample)) /\ Len(Led(ps)) = Len(ps)
         /\ \A i \in 1..Len(ps) : Led(ps)[i] = Lead(i, ps[i])
         /\ Join(ps) = FlattenSeq(Led(ps))
<1> DEFINE v == Led(ps)
<1>1. Len(ps) \in Nat /\ \A i \in 1..Len(ps) : ps[i] \in Seq(Sample)
  BY LenProperties, ElementOfSeq
<1>2. v = [i \in 1..Len(ps) |-> Lead(i, ps[i])]
  BY DEF Led, Lead
<1>3. Join(ps) = FlattenSeq(v)
  BY DEF Led, Join
<1> HIDE DEF v
<1>4. \A i \in 1..Len(ps) : Lead(i, ps[i]) \in Seq(Sample)
  BY <1>1, LeadIs
<1>5. v \in [1..Len(ps) -> Seq(Sample)]
  BY <1>2, <1>4
<1>6. Len(ps) \in Nat
  BY <1>1
<1>7. v \in Seq(Seq(Sample)) /\ Len(v) = Len(ps)
  <2> DEFINE n == Len(ps)
  <2>1. n \in Nat /\ v \in [1..n -> Seq(Sample)]
    BY <1>5, <1>6
  <2> HIDE DEF n
  <2>2. v \in Seq(Seq(Sample))
    BY <2>1, SeqDef
  <2>3. Len(v) \in Nat /\ DOMAIN v = 1..Len(v) /\ DOMAIN v = 1..n
    BY <2>1, <2>2, LenProperties
  <2>4. Len(v) = n
    BY <2>1, <2>3
  <2> QED
    BY <2>2, <2>4 DEF n
<1> QED
  BY <1>2, <1>3, <1>7 DEF v

(***************************************************************************)
(* base.py:165-183: joining one piece more is joining the pieces and then    *)
(* adding that one, with the pause in front of it unless it is the first.  *)
(***************************************************************************)
LEMMA JoinAppend ==
  ASSUME NEW ps \in Seq(Seq(Sample)), NEW a \in Seq(Sample)
  PROVE  Join(Append(ps, a)) = Join(ps) \o (IF ps = <<>> THEN a ELSE Gap \o a)
<1> DEFINE n == Len(ps)
           bs == Append(ps, a)
           l == Lead(n + 1, a)
           v == Led(bs)
           u == Led(ps)
           w == Append(u, l)
<1>1. /\ bs \in Seq(Seq(Sample)) /\ Len(bs) = n + 1 /\ n \in Nat
      /\ \A i \in 1..n : bs[i] = ps[i]
      /\ bs[n + 1] = a
  BY OneMore
<1>2. l = IF ps = <<>> THEN a ELSE Gap \o a
  <2>1. ps = <<>> <=> n = 0
    BY EmptySeq
  <2>2. n + 1 = 1 <=> n = 0
    BY <1>1
  <2> HIDE DEF n
  <2> QED
    BY <2>1, <2>2 DEF Lead
<1> HIDE DEF bs
<1>3. /\ v \in Seq(Seq(Sample)) /\ Len(v) = n + 1 /\ Join(bs) = FlattenSeq(v)
      /\ \A i \in 1..(n + 1) : v[i] = Lead(i, bs[i])
  BY <1>1, LedIs
<1>4. /\ u \in Seq(Seq(Sample)) /\ Len(u) = n /\ Join(ps) = FlattenSeq(u)
      /\ \A i \in 1..n : u[i] = Lead(i, ps[i])
  BY LedIs
<1>5. l \in Seq(Sample)
  BY LeadIs
<1> HIDE DEF u, v, l
<1>6. /\ w \in Seq(Seq(Sample)) /\ Len(w) = n + 1
      /\ \A i \in 1..n : w[i] = u[i]
      /\ w[n + 1] = l
  <2>1. /\ w \in Seq(Seq(Sample)) /\ Len(w) = Len(u) + 1
        /\ \A i \in 1..Len(u) : w[i] = u[i]
        /\ w[Len(u) + 1] = l
    BY <1>4, <1>5, OneMore
  <2> HIDE DEF w
  <2> QED
    BY <1>4, <2>1
<1>7. FlattenSeq(w) = FlattenSeq(u) \o l
  BY <1>4, <1>5, FlattenAppend
<1> HIDE DEF w, n
<1>8. ASSUME NEW i \in 1..Len(v) PROVE v[i] = w[i]
  <2>1. i \in 1..(n + 1) /\ (i \in 1..n \/ i = n + 1)
    BY <1>1, <1>3
  <2>2. CASE i \in 1..n
    BY <1>1, <1>3, <1>4, <1>6, <2>1, <2>2
  <2>3. CASE i = n + 1
    <3>1. v[i] = Lead(n + 1, a)
      BY <1>1, <1>3, <2>1, <2>3
    <3> QED
      BY <1>6, <2>3, <3>1 DEF l
  <2> QED
    BY <2>1, <2>2, <2>3
<1>9. v = w
  BY <1>3, <1>6, <1>8, SeqEqual
<1> QED
  BY <1>2, <1>3, <1>4, <1>7, <1>9 DEF bs

-----------------------------------------------------------------------------
TypeOK ==
  /\ asked \in [Requests -> Asked] /\ job \in Requests \cup {None}
  /\ stage \in {"waiting", "splitting", "flushing", "speaking"}
  /\ said \in [Requests -> Seq(Seq(Char))]
  /\ parts \in [Requests -> Seq(Seq(Sample))]
  /\ lines \in [Requests -> Seq(Seq(Sample))]
  /\ outcome \in [Requests -> {None, "ok", "422", "500"}]

\* The chunker's own invariants.
ChunkerInv == Inv /\ NothingIsLost /\ FewClauses

\* A request is served or it is not.
JobIs ==
  /\ stage = "waiting" <=> job = None
  /\ job # None => outcome[job] = None /\ fed = asked[job].text

\* How far the chunker is with the text of the job.
StageIs ==
  /\ stage = "waiting" => pc = "idle"
  /\ stage = "flushing" => pc = "flush" \/ (pc = "idle" /\ buffer = <<>>)
  /\ stage = "speaking" => /\ pc = "idle" /\ buffer = <<>> /\ chunks # <<>>
                           /\ Len(said[job]) <= Len(chunks)
                           /\ \A i \in 1..Len(said[job]) : said[job][i] = chunks[i]

\* Nothing is said for a request before its text is cut up.
Untouched ==
  \A r \in Requests : outcome[r] = None /\ ~(r = job /\ stage = "speaking") =>
    said[r] = <<>> /\ parts[r] = <<>> /\ lines[r] = <<>>

\* A line for every part, and a part for every clause unless one failed.
CountsMatch ==
  \A r \in Requests :
    /\ Len(lines[r]) = Len(parts[r])
    /\ outcome[r] \in {None, "ok"} => Len(said[r]) = Len(parts[r])

\* The inductive invariant.
WorkerInv ==
  /\ TypeOK /\ ChunkerInv /\ JobIs /\ StageIs
  /\ Untouched /\ CountsMatch /\ StreamIsSpeech /\ AllIsSpoken

\* What the lines, parts and clauses say depends on nothing else.
Untold == UNCHANGED <<asked, said, parts, lines>>

LEMMA SpeechStands ==
  ASSUME CountsMatch, StreamIsSpeech, AllIsSpoken, Untold, UNCHANGED outcome
  PROVE  CountsMatch' /\ StreamIsSpeech' /\ AllIsSpoken'
BY DEF CountsMatch, StreamIsSpeech, AllIsSpoken, Untold

LEMMA WorkerInit == Init => WorkerInv
<1> SUFFICES ASSUME Init PROVE WorkerInv
  OBVIOUS
<1>1. ChunkerInit /\ Inv
  BY InitInv DEF Init
<1>2. NothingIsLost /\ FewClauses /\ pc = "idle"
  BY <1>1, EmptyAccount DEF ChunkerInit, NothingIsLost, FewClauses
<1>3. TypeOK
  BY DEF Init, TypeOK
<1>4. JobIs /\ StageIs /\ Untouched
  BY <1>2 DEF Init, JobIs, StageIs, Untouched
<1>5. CountsMatch
  BY DEF Init, CountsMatch
<1>6. StreamIsSpeech
  <2> DEFINE e == <<>>
  <2>1. e \in Seq(Seq(Sample)) /\ Len(e) = 0
    OBVIOUS
  <2> HIDE DEF e
  <2>2. FlattenSeq(e) = <<>>
    BY <2>1, FlattenNone
  <2>3. Join(e) = FlattenSeq(Led(e)) /\ Led(e) \in Seq(Seq(Sample)) /\ Len(Led(e)) = 0
    BY <2>1, LedIs
  <2>4. Join(e) = <<>>
    BY <2>3, FlattenNone
  <2>5. \A r \in Requests : lines[r] = e /\ parts[r] = e
    BY DEF Init, e
  <2> QED
    BY <2>2, <2>4, <2>5 DEF StreamIsSpeech
<1>7. AllIsSpoken
  BY WorkerAssumption DEF Init, AllIsSpoken
<1> QED
  BY <1>1, <1>2, <1>3, <1>4, <1>5, <1>6, <1>7 DEF WorkerInv, ChunkerInv

(***************************************************************************)
(* The chunker starts afresh with the text of the request taken.           *)
(***************************************************************************)
LEMMA TakeInv ==
  ASSUME WorkerInv, NEW r \in Requests, Take(r)
  PROVE  WorkerInv'
<1> DEFINE t == asked[r].text
<1>1. /\ TypeOK /\ ChunkerInv /\ JobIs /\ StageIs
      /\ Untouched /\ CountsMatch /\ StreamIsSpeech /\ AllIsSpoken
  BY DEF WorkerInv
<1>2. /\ job = None /\ outcome[r] = None /\ job' = r /\ stage' = "splitting"
      /\ buffer' = t /\ fed' = t /\ chunks' = <<>> /\ pc' = "feed" /\ feeds' = 1
      /\ asked' = asked /\ said' = said /\ parts' = parts /\ lines' = lines
      /\ outcome' = outcome /\ r # None
  BY WorkerAssumption DEF Take
<1>3. t \in Seq(Char) /\ Len(t) \in Nat
  <2>1. t \in Texts
    BY <1>1 DEF TypeOK, Asked
  <2> QED
    BY <2>1, WorkerAssumption, LenProperties
<1> HIDE DEF t
<1>4. ChunkerInv'
  <2>1. Inv'
    BY <1>2, <1>3 DEF Inv, ChunkerTypeOK, ClausesOK, PendingIsShort
  <2>2. NothingIsLost'
    <3>1. Visible(FlattenSeq(<<>>)) = <<>>
      <4> DEFINE e == <<>>
      <4>1. e \in Seq(Seq(Char)) /\ Len(e) = 0
        OBVIOUS
      <4> HIDE DEF e
      <4>2. FlattenSeq(e) = <<>>
        BY <4>1, FlattenNone
      <4> QED
        BY <4>2, VisibleNothing DEF e
    <3>2. Visible(t) \in Seq(Char)
      BY <1>3, SeenIs
    <3>3. <<>> \o Visible(t) = Visible(t)
      BY <3>2, ConcatEmptySeq
    <3> QED
      BY <1>2, <3>1, <3>3 DEF NothingIsLost
  <2>3. FewClauses'
    BY <1>2, <1>3 DEF FewClauses
  <2> QED
    BY <2>1, <2>2, <2>3 DEF ChunkerInv
<1>5. TypeOK'
  BY <1>1, <1>2 DEF TypeOK
<1>6. JobIs'
  BY <1>2 DEF JobIs, t
<1>7. StageIs'
  BY <1>2 DEF StageIs
<1>8. Untouched'
  BY <1>1, <1>2 DEF Untouched, JobIs
<1>9. CountsMatch' /\ StreamIsSpeech' /\ AllIsSpoken'
  BY <1>1, <1>2, SpeechStands DEF Untold
<1> QED
  BY <1>4, <1>5, <1>6, <1>7, <1>8, <1>9 DEF WorkerInv

LEMMA ChunkerStands ==
  ASSUME ChunkerInv, UNCHANGED chunkerVars
  PROVE  ChunkerInv'
<1>1. Inv'
  BY NextInv DEF ChunkerInv
<1>2. NothingIsLost' /\ FewClauses'
  BY DEF ChunkerInv, chunkerVars, NothingIsLost, FewClauses
<1> QED
  BY <1>1, <1>2 DEF ChunkerInv

LEMMA RejectInv ==
  ASSUME WorkerInv, NEW r \in Requests, Reject(r)
  PROVE  WorkerInv'
<1>1. /\ TypeOK /\ ChunkerInv /\ JobIs /\ StageIs
      /\ Untouched /\ CountsMatch /\ StreamIsSpeech /\ AllIsSpoken
  BY DEF WorkerInv
<1>2. /\ job = None /\ outcome[r] = None /\ job' = None /\ stage' = "waiting"
      /\ outcome' = [outcome EXCEPT ![r] = "422"] /\ UNCHANGED chunkerVars
      /\ asked' = asked /\ said' = said /\ parts' = parts /\ lines' = lines
  BY DEF Reject, End
<1>3. ChunkerInv'
  BY <1>1, <1>2, ChunkerStands
<1>4. TypeOK'
  BY <1>1, <1>2 DEF TypeOK
<1>5. JobIs' /\ StageIs'
  BY <1>1, <1>2 DEF JobIs, StageIs, chunkerVars
<1>6. \A q \in Requests : outcome'[q] = IF q = r THEN "422" ELSE outcome[q]
  BY <1>1, <1>2 DEF TypeOK
<1>7. "422" # None
  BY WorkerAssumption
<1>8. Untouched'
  <2>1. \A q \in Requests : outcome'[q] = None => outcome[q] = None /\ q # job
    BY <1>2, <1>6, <1>7, WorkerAssumption
  <2> QED
    BY <1>1, <1>2, <2>1 DEF Untouched
<1>9. CountsMatch'
  <2>1. \A q \in Requests : outcome'[q] \in {None, "ok"} => outcome[q] \in {None, "ok"}
    BY <1>2, <1>6, <1>7
  <2> QED
    BY <1>1, <1>2, <2>1 DEF CountsMatch
<1>10. StreamIsSpeech' /\ AllIsSpoken'
  BY <1>1, <1>2, <1>6 DEF StreamIsSpeech, AllIsSpoken
<1> QED
  BY <1>3, <1>4, <1>5, <1>8, <1>9, <1>10 DEF WorkerInv

-----------------------------------------------------------------------------
(***************************************************************************)
(* The chunker runs, is flushed, and is done; nothing is said meanwhile.   *)
(***************************************************************************)
LEMMA SplitInv ==
  ASSUME WorkerInv, Split
  PROVE  WorkerInv'
<1>1. /\ TypeOK /\ ChunkerInv /\ JobIs /\ StageIs
      /\ Untouched /\ CountsMatch /\ StreamIsSpeech /\ AllIsSpoken
  BY DEF WorkerInv
<1>2. /\ stage \in {"splitting", "flushing"} /\ Runs
      /\ asked' = asked /\ job' = job /\ stage' = stage /\ said' = said
      /\ parts' = parts /\ lines' = lines /\ outcome' = outcome
  BY DEF Split, workerVars
<1>3. ChunkerInv'
  <2>1. Inv'
    BY <1>1, <1>2, NextInv DEF ChunkerInv, ChunkerNext
  <2> QED
    BY <1>1, <1>2, <2>1, RunsKeepAccount, RunsKeepFew DEF ChunkerInv
<1>4. TypeOK' /\ Untouched'
  BY <1>1, <1>2 DEF TypeOK, Untouched
<1>5. JobIs'
  <2>1. fed' = fed
    BY <1>2 DEF Runs, CutClause, CutHard, Return
  <2> QED
    BY <1>1, <1>2, <2>1 DEF JobIs
<1>6. StageIs'
  <2>1. ASSUME stage = "flushing" PROVE pc' = "flush" \/ (pc' = "idle" /\ buffer' = <<>>)
    <3>1. pc = "flush"
      BY <1>1, <1>2, <2>1 DEF StageIs, Runs, CutClause, CutHard, Return
    <3> QED
      BY <1>2, <3>1 DEF Runs, CutClause, CutHard, Return
  <2> QED
    BY <1>2, <2>1 DEF StageIs
<1>7. CountsMatch' /\ StreamIsSpeech' /\ AllIsSpoken'
  BY <1>1, <1>2, SpeechStands DEF Untold
<1> QED
  BY <1>3, <1>4, <1>5, <1>6, <1>7 DEF WorkerInv

LEMMA SplitRestInv ==
  ASSUME WorkerInv, SplitRest
  PROVE  WorkerInv'
<1>1. /\ TypeOK /\ ChunkerInv /\ JobIs /\ StageIs
      /\ Untouched /\ CountsMatch /\ StreamIsSpeech /\ AllIsSpoken
  BY DEF WorkerInv
<1>2. /\ stage = "splitting" /\ Flush /\ stage' = "flushing"
      /\ asked' = asked /\ job' = job /\ said' = said
      /\ parts' = parts /\ lines' = lines /\ outcome' = outcome
  BY DEF SplitRest
<1>3. pc' = "flush" /\ buffer' = buffer /\ chunks' = chunks /\ fed' = fed
  BY <1>2 DEF Flush
<1>4. ChunkerInv'
  <2>1. Inv'
    BY <1>1, <1>2, CallInv DEF ChunkerInv
  <2> QED
    BY <1>1, <1>3, <2>1 DEF ChunkerInv, NothingIsLost, FewClauses
<1>5. TypeOK' /\ JobIs' /\ StageIs' /\ Untouched'
  BY <1>1, <1>2, <1>3 DEF TypeOK, JobIs, StageIs, Untouched
<1>6. CountsMatch' /\ StreamIsSpeech' /\ AllIsSpoken'
  BY <1>1, <1>2, SpeechStands DEF Untold
<1> QED
  BY <1>4, <1>5, <1>6 DEF WorkerInv

(***************************************************************************)
(* When the chunker is done there is a clause: the text is not blank, and  *)
(* nothing of it was lost.                                                 *)
(***************************************************************************)
LEMMA ClausesAreThere ==
  ASSUME WorkerInv, job # None, buffer = <<>>
  PROVE  chunks # <<>> /\ Len(chunks) \in 1..LongestText
<1>1. TypeOK /\ ChunkerInv /\ JobIs
  BY DEF WorkerInv
<1>2. /\ job \in Requests /\ fed = asked[job].text /\ fed \in Texts
      /\ fed \in Seq(Char) /\ Len(fed) <= LongestText /\ LongestText \in Nat
  <2>1. job \in Requests /\ fed = asked[job].text
    BY <1>1 DEF TypeOK, JobIs
  <2>2. fed \in Texts
    BY <1>1, <2>1 DEF TypeOK, Asked
  <2> QED
    BY <2>1, <2>2, WorkerAssumption
<1>3. PICK k \in 1..Len(fed) : fed[k] \notin White
  BY <1>2, WorkerAssumption
<1>4. Visible(fed) # <<>>
  BY <1>2, <1>3, VisibleSome
<1>5. chunks \in Seq(Seq(Char)) /\ Len(chunks) \in Nat /\ Len(fed) \in Nat
  BY <1>1, <1>2, LenProperties DEF ChunkerInv, Inv, ChunkerTypeOK
<1>6. chunks # <<>>
  <2>1. ASSUME chunks = <<>> PROVE Visible(fed) = <<>>
    <3>1. Visible(FlattenSeq(chunks)) \o Visible(buffer) = Visible(fed)
      BY <1>1 DEF ChunkerInv, NothingIsLost
    <3>2. Visible(FlattenSeq(<<>>)) \o Visible(<<>>) = Visible(<<>>)
      BY EmptyAccount
    <3> QED
      BY <2>1, <3>1, <3>2, VisibleNothing
  <2> QED
    BY <1>4, <2>1
<1>7. Len(chunks) # 0
  BY <1>5, <1>6, EmptySeq
<1>8. Len(chunks) <= Len(fed)
  <2>1. Len(buffer) = 0
    OBVIOUS
  <2> QED
    BY <1>1, <1>5, <2>1 DEF ChunkerInv, FewClauses
<1> QED
  BY <1>2, <1>5, <1>6, <1>7, <1>8

LEMMA SplitDoneInv ==
  ASSUME WorkerInv, SplitDone
  PROVE  WorkerInv'
<1>1. /\ TypeOK /\ ChunkerInv /\ JobIs /\ StageIs
      /\ Untouched /\ CountsMatch /\ StreamIsSpeech /\ AllIsSpoken
  BY DEF WorkerInv
<1>2. /\ stage = "flushing" /\ pc = "idle" /\ stage' = "speaking"
      /\ asked' = asked /\ job' = job /\ said' = said /\ parts' = parts
      /\ lines' = lines /\ outcome' = outcome /\ UNCHANGED chunkerVars
  BY DEF SplitDone
<1>3. job # None /\ job \in Requests /\ outcome[job] = None /\ buffer = <<>>
  BY <1>1, <1>2 DEF JobIs, StageIs, TypeOK
<1>4. chunks # <<>> /\ Len(chunks) \in 1..LongestText /\ LongestText \in Nat
  BY <1>3, ClausesAreThere, WorkerAssumption
<1>5. said[job] = <<>>
  BY <1>1, <1>2, <1>3 DEF Untouched
<1>6. ChunkerInv'
  BY <1>1, <1>2, ChunkerStands
<1>7. TypeOK' /\ JobIs' /\ Untouched'
  BY <1>1, <1>2 DEF TypeOK, JobIs, Untouched, chunkerVars
<1>8. StageIs'
  <2>1. Len(said[job]) = 0
    BY <1>5
  <2> QED
    BY <1>2, <1>3, <1>4, <2>1 DEF StageIs, chunkerVars
<1>9. CountsMatch' /\ StreamIsSpeech' /\ AllIsSpoken'
  BY <1>1, <1>2, SpeechStands DEF Untold
<1> QED
  BY <1>6, <1>7, <1>8, <1>9 DEF WorkerInv

-----------------------------------------------------------------------------
(***************************************************************************)
(* The next clause is spoken, and sent as a line.                          *)
(***************************************************************************)
LEMMA SpeakInv ==
  ASSUME WorkerInv, NEW n \in 0..MaxSamples, Speak(n)
  PROVE  WorkerInv'
<1> DEFINE a == [i \in 1..n |-> <<job, Len(said[job]) + 1>>]
           l == IF said[job] = <<>> THEN a ELSE Gap \o a
           k == Len(said[job])
<1>1. /\ TypeOK /\ ChunkerInv /\ JobIs /\ StageIs
      /\ Untouched /\ CountsMatch /\ StreamIsSpeech /\ AllIsSpoken
  BY DEF WorkerInv
<1>2. /\ stage = "speaking" /\ k < Len(chunks)
      /\ said' = [said EXCEPT ![job] = Append(@, Clause)]
      /\ parts' = [parts EXCEPT ![job] = Append(@, a)]
      /\ lines' = [lines EXCEPT ![job] = Append(@, l)]
      /\ asked' = asked /\ job' = job /\ stage' = stage /\ outcome' = outcome
      /\ UNCHANGED chunkerVars
  BY DEF Speak, HasClause, Generate
<1>3. /\ job \in Requests /\ outcome[job] = None /\ chunks \in Seq(Seq(Char))
      /\ said[job] \in Seq(Seq(Char)) /\ k \in Nat /\ Len(chunks) \in Nat
      /\ parts[job] \in Seq(Seq(Sample)) /\ lines[job] \in Seq(Seq(Sample))
      /\ Len(parts[job]) = k /\ Len(lines[job]) = k
  <2>1. job \in Requests /\ outcome[job] = None /\ job # None
    BY <1>1, <1>2 DEF JobIs, TypeOK
  <2>2. said[job] \in Seq(Seq(Char)) /\ parts[job] \in Seq(Seq(Sample))
        /\ lines[job] \in Seq(Seq(Sample))
    BY <1>1, <2>1 DEF TypeOK
  <2>3. chunks \in Seq(Seq(Char))
    BY <1>1 DEF ChunkerInv, Inv, ChunkerTypeOK
  <2>4. Len(parts[job]) = k /\ Len(lines[job]) = k
    BY <1>1, <2>1 DEF CountsMatch
  <2>5. k \in Nat /\ Len(chunks) \in Nat
    BY <2>2, <2>3, LenProperties
  <2> QED
    BY <2>1, <2>2, <2>3, <2>4, <2>5
<1>4. a \in Seq(Sample)
  <2>1. n \in Nat
    BY WorkerAssumption
  <2>2. <<job, k + 1>> \in Sample
    BY <1>3 DEF Sample
  <2>3. a \in [1..n -> Sample]
    BY <2>2
  <2> HIDE DEF a
  <2> QED
    BY <2>1, <2>3, SeqDef
<1> HIDE DEF a
<1>5. l \in Seq(Sample)
  <2>1. "silence" \in Sample
    BY DEF Sample
  <2>2. Gap \in Seq(Sample)
    BY <2>1 DEF Gap
  <2>3. Gap \o a \in Seq(Sample)
    BY <1>4, <2>2, ConcatProperties
  <2> QED
    BY <1>4, <2>3
<1>6. Clause = chunks[k + 1] /\ Clause \in Seq(Char)
  <2> HIDE DEF k
  <2>1. k + 1 \in 1..Len(chunks)
    BY <1>2, <1>3
  <2> QED
    BY <1>3, <2>1, ElementOfSeq DEF Clause, k
<1>7. said[job] = <<>> <=> parts[job] = <<>>
  <2>1. said[job] = <<>> <=> k = 0
    BY <1>3, EmptySeq
  <2>2. parts[job] = <<>> <=> Len(parts[job]) = 0
    BY <1>3, EmptySeq
  <2> QED
    BY <1>3, <2>1, <2>2
<1>8. l = IF parts[job] = <<>> THEN a ELSE Gap \o a
  BY <1>7
<1> HIDE DEF l, k
<1>9. /\ said'[job] = Append(said[job], Clause)
      /\ parts'[job] = Append(parts[job], a)
      /\ lines'[job] = Append(lines[job], l)
      /\ \A r \in Requests : r # job =>
           said'[r] = said[r] /\ parts'[r] = parts[r] /\ lines'[r] = lines[r]
  BY <1>1, <1>2, <1>3 DEF TypeOK
<1>10. /\ Append(said[job], Clause) \in Seq(Seq(Char))
       /\ Len(Append(said[job], Clause)) = k + 1
       /\ \A i \in 1..k : Append(said[job], Clause)[i] = said[job][i]
       /\ Append(said[job], Clause)[k + 1] = Clause
  BY <1>3, <1>6, OneMore DEF k
<1>11. /\ Append(parts[job], a) \in Seq(Seq(Sample))
       /\ Len(Append(parts[job], a)) = k + 1
  BY <1>3, <1>4, OneMore
<1>12. /\ Append(lines[job], l) \in Seq(Seq(Sample))
       /\ Len(Append(lines[job], l)) = k + 1
  BY <1>3, <1>5, OneMore
<1>13. TypeOK'
  BY <1>1, <1>2, <1>3, <1>10, <1>11, <1>12 DEF TypeOK
<1>14. ChunkerInv'
  BY <1>1, <1>2, ChunkerStands
<1>15. JobIs'
  BY <1>1, <1>2 DEF JobIs, chunkerVars
<1>16. StageIs'
  <2> DEFINE s == Append(said[job], Clause)
  <2>1. said'[job'] = s /\ chunks' = chunks /\ stage' = stage /\ pc' = pc
        /\ buffer' = buffer /\ Len(s) = k + 1
    BY <1>2, <1>9, <1>10 DEF chunkerVars
  <2>2. pc = "idle" /\ buffer = <<>> /\ chunks # <<>>
    BY <1>1, <1>2 DEF StageIs
  <2>3. k + 1 <= Len(chunks)
    BY <1>2, <1>3 DEF k
  <2>4. ASSUME NEW i \in 1..(k + 1) PROVE s[i] = chunks[i]
    <3>1. i \in 1..k \/ i = k + 1
      BY <1>3 DEF k
    <3>2. CASE i \in 1..k
      <4>1. said[job][i] = chunks[i]
        BY <1>1, <1>2, <3>2 DEF StageIs, k
      <4> QED
        BY <1>10, <3>2, <4>1
    <3>3. CASE i = k + 1
      BY <1>6, <1>10, <3>3 DEF k
    <3> QED
      BY <3>1, <3>2, <3>3
  <2> HIDE DEF s
  <2> QED
    BY <1>2, <2>1, <2>2, <2>3, <2>4 DEF StageIs
<1>17. Untouched'
  BY <1>1, <1>2, <1>9 DEF Untouched
<1>18. CountsMatch'
  BY <1>1, <1>2, <1>9, <1>10, <1>11, <1>12 DEF CountsMatch
<1>19. StreamIsSpeech'
  <2>1. ASSUME NEW r \in Requests PROVE FlattenSeq(lines'[r]) = Join(parts'[r])
    <3>1. FlattenSeq(lines[r]) = Join(parts[r])
      BY <1>1 DEF StreamIsSpeech
    <3>2. CASE r = job
      <4>1. FlattenSeq(Append(lines[job], l)) = FlattenSeq(lines[job]) \o l
        BY <1>3, <1>5, FlattenAppend
      <4>2. Join(Append(parts[job], a)) = Join(parts[job]) \o l
        BY <1>3, <1>4, <1>8, JoinAppend
      <4> QED
        BY <1>9, <3>1, <3>2, <4>1, <4>2
    <3>3. CASE r # job
      BY <1>9, <3>1, <3>3
    <3> QED
      BY <3>2, <3>3
  <2> QED
    BY <2>1 DEF StreamIsSpeech
<1>20. AllIsSpoken'
  <2>1. None # "ok"
    BY WorkerAssumption
  <2> QED
    BY <1>1, <1>2, <1>3, <1>9, <2>1 DEF AllIsSpoken
<1> QED
  BY <1>13, <1>14, <1>15, <1>16, <1>17, <1>18, <1>19, <1>20 DEF WorkerInv

\* A clause fails: what was sent stays sent.
LEMMA RaisesInv ==
  ASSUME WorkerInv, Raises
  PROVE  WorkerInv'
<1>1. /\ TypeOK /\ ChunkerInv /\ JobIs /\ StageIs
      /\ Untouched /\ CountsMatch /\ StreamIsSpeech /\ AllIsSpoken
  BY DEF WorkerInv
<1>2. PICK code \in {"422", "500"} : End(job, code)
  BY DEF Raises
<1>3. /\ stage = "speaking" /\ Len(said[job]) < Len(chunks)
      /\ said' = [said EXCEPT ![job] = Append(@, Clause)]
      /\ outcome' = [outcome EXCEPT ![job] = code] /\ job' = None /\ stage' = "waiting"
      /\ asked' = asked /\ parts' = parts /\ lines' = lines /\ UNCHANGED chunkerVars
  BY <1>2 DEF Raises, HasClause, Generate, End
<1>4. /\ job \in Requests /\ outcome[job] = None /\ chunks \in Seq(Seq(Char))
      /\ said[job] \in Seq(Seq(Char)) /\ code # None /\ code # "ok" /\ None # "ok"
  BY <1>1, <1>3, WorkerAssumption DEF JobIs, TypeOK, ChunkerInv, Inv, ChunkerTypeOK
<1>5. Clause \in Seq(Char)
  <2>1. Len(said[job]) \in Nat /\ Len(chunks) \in Nat
    BY <1>4, LenProperties
  <2>2. Len(said[job]) + 1 \in 1..Len(chunks)
    BY <1>3, <2>1
  <2> QED
    BY <1>4, <2>2, ElementOfSeq DEF Clause
<1>6. Append(said[job], Clause) \in Seq(Seq(Char))
  BY <1>4, <1>5, OneMore
<1>7. /\ \A r \in Requests : outcome'[r] = IF r = job THEN code ELSE outcome[r]
      /\ \A r \in Requests : r # job => said'[r] = said[r]
  BY <1>1, <1>3 DEF TypeOK
<1>8. TypeOK'
  BY <1>1, <1>3, <1>4, <1>6 DEF TypeOK
<1>9. ChunkerInv'
  BY <1>1, <1>3, ChunkerStands
<1>10. JobIs' /\ StageIs'
  BY <1>1, <1>3 DEF JobIs, StageIs, chunkerVars
<1>11. Untouched'
  BY <1>1, <1>3, <1>4, <1>7 DEF Untouched
<1>12. CountsMatch'
  BY <1>1, <1>3, <1>4, <1>7 DEF CountsMatch
<1>13. StreamIsSpeech' /\ AllIsSpoken'
  BY <1>1, <1>3, <1>4, <1>7 DEF StreamIsSpeech, AllIsSpoken
<1> QED
  BY <1>8, <1>9, <1>10, <1>11, <1>12, <1>13 DEF WorkerInv

(***************************************************************************)
(* No clause is left: those that were said are all there are, and they say *)
(* what was asked for.                                                     *)
(***************************************************************************)
LEMMA FinishInv ==
  ASSUME WorkerInv, Finish
  PROVE  WorkerInv'
<1>1. /\ TypeOK /\ ChunkerInv /\ JobIs /\ StageIs
      /\ Untouched /\ CountsMatch /\ StreamIsSpeech /\ AllIsSpoken
  BY DEF WorkerInv
<1>2. /\ stage = "speaking" /\ ~HasClause
      /\ outcome' = [outcome EXCEPT ![job] = "ok"] /\ job' = None /\ stage' = "waiting"
      /\ asked' = asked /\ said' = said /\ parts' = parts /\ lines' = lines
      /\ UNCHANGED chunkerVars
  BY DEF Finish, End
<1>3. /\ job \in Requests /\ outcome[job] = None /\ fed = asked[job].text
      /\ chunks \in Seq(Seq(Char)) /\ said[job] \in Seq(Seq(Char)) /\ None # "ok"
  BY <1>1, <1>2, WorkerAssumption DEF JobIs, TypeOK, ChunkerInv, Inv, ChunkerTypeOK
<1>4. said[job] = chunks
  <2>1. Len(said[job]) \in Nat /\ Len(chunks) \in Nat
    BY <1>3, LenProperties
  <2>2. /\ Len(said[job]) <= Len(chunks)
        /\ \A i \in 1..Len(said[job]) : said[job][i] = chunks[i]
    BY <1>1, <1>2 DEF StageIs
  <2>3. ~(Len(said[job]) < Len(chunks))
    BY <1>2 DEF HasClause
  <2>4. Len(said[job]) = Len(chunks)
    BY <2>1, <2>2, <2>3
  <2> QED
    BY <1>3, <2>2, <2>4, SeqEqual
<1>5. Visible(FlattenSeq(chunks)) = Visible(asked[job].text)
  <2>1. buffer = <<>>
    BY <1>1, <1>2 DEF StageIs
  <2>2. Visible(FlattenSeq(chunks)) \o Visible(<<>>) = Visible(fed)
    BY <1>1, <2>1 DEF ChunkerInv, NothingIsLost
  <2>3. Visible(FlattenSeq(chunks)) \in Seq(Char)
    BY <1>3, FlattenTyped, SeenIs
  <2>4. Visible(FlattenSeq(chunks)) \o <<>> = Visible(FlattenSeq(chunks))
    BY <2>3, ConcatEmptySeq
  <2> QED
    BY <1>3, <2>2, <2>4, VisibleNothing
<1>6. Len(lines[job]) = Len(said[job]) /\ Len(lines[job]) > 0
  <2>1. Len(lines[job]) = Len(said[job])
    BY <1>1, <1>3 DEF CountsMatch
  <2>2. chunks # <<>>
    BY <1>1, <1>2 DEF StageIs
  <2>3. Len(chunks) \in Nat \ {0}
    BY <1>3, <2>2, EmptySeq
  <2> QED
    BY <1>4, <2>1, <2>3
<1>7. \A r \in Requests : outcome'[r] = IF r = job THEN "ok" ELSE outcome[r]
  BY <1>1, <1>2 DEF TypeOK
<1>8. TypeOK'
  BY <1>1, <1>2, <1>3 DEF TypeOK
<1>9. ChunkerInv'
  BY <1>1, <1>2, ChunkerStands
<1>10. JobIs' /\ StageIs'
  BY <1>1, <1>2 DEF JobIs, StageIs, chunkerVars
<1>11. Untouched'
  BY <1>1, <1>2, <1>3, <1>7 DEF Untouched
<1>12. CountsMatch'
  BY <1>1, <1>2, <1>3, <1>7 DEF CountsMatch
<1>13. StreamIsSpeech'
  BY <1>1, <1>2 DEF StreamIsSpeech
<1>14. AllIsSpoken'
  BY <1>1, <1>2, <1>4, <1>5, <1>6, <1>7 DEF AllIsSpoken
<1> QED
  BY <1>8, <1>9, <1>10, <1>11, <1>12, <1>13, <1>14 DEF WorkerInv

\* Nothing the invariant speaks of changes.
LEMMA WorkerStands ==
  ASSUME WorkerInv,
         UNCHANGED <<asked, job, stage, said, parts, lines, outcome, chunkerVars>>
  PROVE  WorkerInv'
<1>1. ChunkerInv'
  BY ChunkerStands DEF WorkerInv
<1>2. TypeOK' /\ JobIs' /\ StageIs' /\ Untouched'
  BY DEF WorkerInv, TypeOK, JobIs, StageIs, Untouched, chunkerVars
<1>3. CountsMatch' /\ StreamIsSpeech' /\ AllIsSpoken'
  BY SpeechStands DEF WorkerInv, Untold
<1> QED
  BY <1>1, <1>2, <1>3 DEF WorkerInv

LEMMA WorkerNext == WorkerInv /\ [Next]_vars => WorkerInv'
<1> SUFFICES ASSUME WorkerInv, [Next]_vars PROVE WorkerInv'
  OBVIOUS
<1>1. CASE Setup \/ UNCHANGED vars
  BY <1>1, WorkerStands DEF Setup, vars, workerVars
<1>2. ASSUME NEW r \in Requests, Take(r) \/ Reject(r) PROVE WorkerInv'
  BY <1>2, TakeInv, RejectInv
<1>3. CASE Split \/ SplitRest \/ SplitDone
  BY <1>3, SplitInv, SplitRestInv, SplitDoneInv
<1>4. ASSUME NEW n \in 0..MaxSamples, Speak(n) PROVE WorkerInv'
  BY <1>4, SpeakInv
<1>5. CASE Raises \/ Finish
  BY <1>5, RaisesInv, FinishInv
<1> QED
  BY <1>1, <1>2, <1>3, <1>4, <1>5 DEF Next, Serve, AllServed

LEMMA WorkerHolds == Spec => []WorkerInv
BY WorkerInit, WorkerNext, PTL DEF Spec

-----------------------------------------------------------------------------
(***************************************************************************)
(* base.py:126-163 and litapi.py:120-183: at every moment, what was sent of *)
(* a request is what speak() makes of the clauses spoken so far.           *)
(***************************************************************************)
THEOREM StreamsAreSpeech == Spec => []StreamIsSpeech
<1>1. WorkerInv => StreamIsSpeech
  BY DEF WorkerInv
<1> QED
  BY <1>1, WorkerHolds, PTL

(***************************************************************************)
(* engine.py:187-188 and litapi.py:120-183: a request that ends well was   *)
(* spoken from its first character to its last, in order, with a line for  *)
(* every clause and one at least.                                          *)
(***************************************************************************)
THEOREM EverythingIsSpoken == Spec => []AllIsSpoken
<1>1. WorkerInv => AllIsSpoken
  BY DEF WorkerInv
<1> QED
  BY <1>1, WorkerHolds, PTL

-----------------------------------------------------------------------------
(***************************************************************************)
(* The variables of TakeSource, as Source instantiates them.               *)
(***************************************************************************)
Left == [r \in Requests |->
           IF job = r /\ stage = "speaking" THEN Len(chunks) - Len(said[r]) ELSE None]
Sent == [r \in Requests |-> Len(lines[r])]
Ended == [r \in Requests |->
            IF outcome[r] \in {None, "ok"} THEN outcome[r] ELSE "error"]

LEMMA SourceInit == Init => Source!Init
<1> SUFFICES ASSUME Init PROVE Source!Init
  OBVIOUS
<1>1. /\ job = None /\ stage = "waiting"
      /\ \A r \in Requests : Len(lines[r]) = 0 /\ outcome[r] = None /\ r # None
  BY WorkerAssumption DEF Init
<1>2. /\ Left = [r \in Requests |-> None] /\ Sent = [r \in Requests |-> 0]
      /\ Ended = [r \in Requests |-> None]
  BY <1>1 DEF Left, Sent, Ended
<1> QED
  BY <1>2 DEF Source!Init, Left, Sent, Ended

\* What no step of the source is a stutter of it.
LEMMA SourceStutters ==
  ASSUME Left' = Left, Sent' = Sent, Ended' = Ended
  PROVE  UNCHANGED Source!takeVars
BY DEF Source!takeVars, Left, Sent, Ended

LEMMA SourceSteps ==
  ASSUME NEW r \in Requests,
         \/ \E n \in 1..LongestText : Source!Start(r, n)
         \/ Source!Line(r) \/ Source!End(r) \/ Source!Fail(r)
  PROVE  Source!Next
BY DEF Source!Next

(***************************************************************************)
(* Every step of the worker is a step of the source it promises to be, or  *)
(* none: cutting the text up is silent until the clauses are counted.      *)
(***************************************************************************)
LEMMA SourceNext ==
  ASSUME WorkerInv, [Next]_vars
  PROVE  [Source!Next]_(Source!takeVars)
<1>1. /\ TypeOK /\ ChunkerInv /\ JobIs /\ StageIs
      /\ Untouched /\ CountsMatch /\ StreamIsSpeech /\ AllIsSpoken
  BY DEF WorkerInv
<1>2. CASE Setup \/ UNCHANGED vars
  <2>1. UNCHANGED <<job, stage, chunks, said, lines, outcome>>
    BY <1>2 DEF Setup, vars, workerVars, chunkerVars
  <2> QED
    BY <2>1, SourceStutters DEF Left, Sent, Ended
<1>3. ASSUME NEW r \in Requests, Take(r) PROVE UNCHANGED Source!takeVars
  <2>1. /\ job = None /\ stage' = "splitting"
        /\ UNCHANGED <<said, lines, outcome>> /\ \A q \in Requests : q # None
    BY <1>3, WorkerAssumption DEF Take
  <2>2. Left' = Left
    BY <2>1 DEF Left
  <2> QED
    BY <2>1, <2>2, SourceStutters DEF Sent, Ended
<1>4. ASSUME NEW r \in Requests, Reject(r) PROVE Source!Fail(r)
  <2>1. /\ job = None /\ job' = None /\ stage' = "waiting" /\ outcome[r] = None
        /\ outcome' = [outcome EXCEPT ![r] = "422"] /\ UNCHANGED lines
        /\ \A q \in Requests : q # None
    BY <1>4, WorkerAssumption DEF Reject, End
  <2>2. Left' = [Left EXCEPT ![r] = None] /\ Sent' = Sent /\ Ended[r] = None
    BY <2>1 DEF Left, Sent, Ended
  <2>3. Ended' = [Ended EXCEPT ![r] = "error"]
    BY <1>1, <2>1, WorkerAssumption DEF Ended, TypeOK
  <2> QED
    BY <2>2, <2>3 DEF Source!Fail, Left, Sent, Ended
<1>5. CASE Split \/ SplitRest
  <2>1. stage # "speaking" /\ stage' # "speaking" /\ UNCHANGED <<lines, outcome>>
    BY <1>5 DEF Split, SplitRest, workerVars
  <2>2. Left' = Left
    BY <2>1 DEF Left
  <2> QED
    BY <2>1, <2>2, SourceStutters DEF Sent, Ended
<1>6. CASE SplitDone
  <2>1. /\ stage = "flushing" /\ pc = "idle" /\ stage' = "speaking"
        /\ UNCHANGED <<job, said, lines, outcome, chunks>>
    BY <1>6 DEF SplitDone, chunkerVars
  <2>2. job # None /\ job \in Requests /\ outcome[job] = None /\ buffer = <<>>
    BY <1>1, <2>1 DEF JobIs, StageIs, TypeOK
  <2>3. Len(chunks) \in 1..LongestText
    BY <2>2, ClausesAreThere
  <2>4. said[job] = <<>> /\ Len(said[job]) = 0
    BY <1>1, <2>1, <2>2 DEF Untouched
  <2>5. Len(chunks) - 0 = Len(chunks)
    BY <2>3, WorkerAssumption
  <2>6. Left[job] = None /\ Ended[job] = None /\ Sent' = Sent /\ Ended' = Ended
    BY <2>1, <2>2 DEF Left, Sent, Ended
  <2>7. Left' = [Left EXCEPT ![job] = Len(chunks)]
    BY <2>1, <2>2, <2>4, <2>5 DEF Left
  <2>8. PICK r \in Requests, m \in 1..LongestText : r = job /\ m = Len(chunks)
    BY <2>2, <2>3
  <2>9. Source!Start(r, m)
    BY <2>6, <2>7, <2>8 DEF Source!Start, Left, Sent, Ended
  <2> QED
    BY <2>9, SourceSteps
<1>7. ASSUME NEW n \in 0..MaxSamples, Speak(n) PROVE \E r \in Requests : Source!Line(r)
  <2> DEFINE k == Len(said[job])
             m == Len(chunks)
  <2>1. WorkerInv'
    BY <1>7, SpeakInv
  <2>2. /\ stage = "speaking" /\ stage' = stage /\ job' = job /\ k < m
        /\ UNCHANGED <<outcome, chunks>>
        /\ said' = [said EXCEPT ![job] = Append(@, Clause)]
        /\ \E l : lines' = [lines EXCEPT ![job] = Append(@, l)]
    BY <1>7 DEF Speak, HasClause, Generate, chunkerVars
  <2>3. /\ job # None /\ job \in Requests /\ outcome[job] = None
        /\ said[job] \in Seq(Seq(Char)) /\ lines[job] \in Seq(Seq(Sample))
        /\ chunks \in Seq(Seq(Char))
    BY <1>1, <2>2 DEF JobIs, TypeOK, ChunkerInv, Inv, ChunkerTypeOK
  <2>4. k \in Nat /\ m \in Nat /\ Len(lines[job]) = k /\ outcome'[job] = None
    BY <1>1, <2>2, <2>3, LenProperties DEF CountsMatch
  <2>5. said'[job] \in Seq(Seq(Char)) /\ Len(said'[job]) = k + 1
    <3>1. Len(said[job]) + 1 \in 1..Len(chunks)
      BY <2>2, <2>4
    <3>2. Clause \in Seq(Char)
      BY <2>3, <3>1, ElementOfSeq DEF Clause
    <3>3. said'[job] = Append(said[job], Clause)
      BY <1>1, <2>2, <2>3 DEF TypeOK
    <3> QED
      BY <2>3, <3>2, <3>3, OneMore
  <2>6. Len(lines'[job]) = k + 1
    <3>1. job' = job /\ CountsMatch'
      BY <2>1, <2>2 DEF WorkerInv
    <3> QED
      BY <2>3, <2>4, <2>5, <3>1 DEF CountsMatch
  <2>7. \A r \in Requests : r # job => said'[r] = said[r] /\ lines'[r] = lines[r]
    BY <1>1, <2>2, <2>3 DEF TypeOK
  <2> HIDE DEF k, m
  <2>8. Left[job] = m - k /\ m - k \notin {None, 0}
    <3>1. Left[job] = m - k
      BY <2>2, <2>3 DEF Left, k, m
    <3>2. m - k \in Nat /\ m - k # 0
      BY <2>2, <2>4 DEF k, m
    <3> QED
      BY <3>1, <3>2, WorkerAssumption
  <2>9. Left' = [Left EXCEPT ![job] = @ - 1]
    <3>1. m - (k + 1) = (m - k) - 1
      BY <2>4 DEF k, m
    <3>2. Left' = [r \in Requests |-> IF job = r THEN m - (k + 1) ELSE None]
      BY <2>2, <2>5 DEF Left, m
    <3>3. Left = [r \in Requests |-> IF job = r THEN m - k ELSE None]
      BY <2>2 DEF Left, m, k
    <3> QED
      BY <2>3, <3>1, <3>2, <3>3
  <2>10. Sent' = [Sent EXCEPT ![job] = @ + 1]
    <3>1. \A r \in Requests : Len(lines'[r]) = IF r = job THEN Len(lines[r]) + 1 ELSE Len(lines[r])
      BY <2>4, <2>6, <2>7 DEF k
    <3> QED
      BY <2>3, <3>1 DEF Sent
  <2>11. Ended' = Ended
    BY <2>2 DEF Ended
  <2>12. PICK r \in Requests : r = job
    BY <2>3
  <2>13. Source!Line(r)
    BY <2>8, <2>9, <2>10, <2>11, <2>12 DEF Source!Line, Left, Sent, Ended
  <2> QED
    BY <2>13
<1>8. CASE Raises
  <2>1. PICK code \in {"422", "500"} : End(job, code)
    BY <1>8 DEF Raises
  <2>2. /\ stage = "speaking" /\ job' = None /\ UNCHANGED lines
        /\ outcome' = [outcome EXCEPT ![job] = code]
        /\ \A r \in Requests : r # None
    BY <1>8, <2>1, WorkerAssumption DEF Raises, HasClause, End
  <2>3. job \in Requests /\ outcome[job] = None
    BY <1>1, <2>2 DEF JobIs, TypeOK
  <2>4. Left' = [Left EXCEPT ![job] = None] /\ Sent' = Sent /\ Ended[job] = None
    BY <2>2, <2>3 DEF Left, Sent, Ended
  <2>5. Ended' = [Ended EXCEPT ![job] = "error"]
    BY <1>1, <2>2, <2>3, WorkerAssumption DEF Ended, TypeOK
  <2>6. PICK r \in Requests : r = job
    BY <2>3
  <2>7. Source!Fail(r)
    BY <2>4, <2>5, <2>6 DEF Source!Fail, Left, Sent, Ended
  <2> QED
    BY <2>7, SourceSteps
<1>9. CASE Finish
  <2>1. /\ stage = "speaking" /\ ~(Len(said[job]) < Len(chunks)) /\ job' = None
        /\ outcome' = [outcome EXCEPT ![job] = "ok"] /\ UNCHANGED lines
        /\ \A r \in Requests : r # None
    BY <1>9, WorkerAssumption DEF Finish, HasClause, End
  <2>2. /\ job \in Requests /\ outcome[job] = None /\ Len(said[job]) <= Len(chunks)
        /\ said[job] \in Seq(Seq(Char)) /\ chunks \in Seq(Seq(Char))
    BY <1>1, <2>1 DEF JobIs, TypeOK, StageIs, ChunkerInv, Inv, ChunkerTypeOK
  <2>3. Len(chunks) - Len(said[job]) = 0
    <3>1. Len(said[job]) \in Nat /\ Len(chunks) \in Nat
      BY <2>2, LenProperties
    <3> QED
      BY <2>1, <2>2, <3>1
  <2>4. Left[job] = 0 /\ Left' = [Left EXCEPT ![job] = None] /\ Sent' = Sent
    BY <2>1, <2>2, <2>3 DEF Left, Sent
  <2>5. Ended' = [Ended EXCEPT ![job] = "ok"]
    BY <1>1, <2>1, <2>2 DEF Ended, TypeOK
  <2>6. PICK r \in Requests : r = job
    BY <2>2
  <2>7. Source!End(r)
    BY <2>4, <2>5, <2>6 DEF Source!End, Left, Sent, Ended
  <2> QED
    BY <2>7, SourceSteps
<1>10. CASE \E r \in Requests : Take(r) \/ Reject(r)
  BY <1>3, <1>4, <1>10, SourceSteps
<1>11. CASE \E n \in 0..MaxSamples : Speak(n)
  BY <1>7, <1>11, SourceSteps
<1> QED
  BY <1>2, <1>5, <1>6, <1>8, <1>9, <1>10, <1>11 DEF Next, Serve, AllServed

(***************************************************************************)
(* litapi.py:120-183, as the gateway and LitServe rely on it: the worker is *)
(* a source of takes, one line for each clause and an end after the last.  *)
(***************************************************************************)
THEOREM WorkerServesTakes == Spec => ServesTakes
<1>1. WorkerInv /\ [Next]_vars => [Source!Next]_(Source!takeVars)
  BY SourceNext
<1> QED
  BY <1>1, SourceInit, WorkerHolds, PTL DEF Spec, ServesTakes, Source!Spec
=============================================================================
