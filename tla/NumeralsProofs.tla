---------------------------- MODULE NumeralsProofs ----------------------------
(***************************************************************************)
(* What is proved of the inverse text normalization, for any transcripts,  *)
(* any tables of words as NumeralsAssumption has them, and any least value *)
(* that is written in digits.                                              *)
(***************************************************************************)
EXTENDS Numerals, SequenceFacts

\* The words that _parse_int knows, and what it has made of some of them.
Units == DOMAIN Small \cup DOMAIN Scales
Sums == [total : Nat, current : Nat]
Silence == [total |-> 0, current |-> 0]

LEMMA VocabularyIs ==
  /\ \A w \in DOMAIN Small : Small[w] \in Nat
  /\ \A w \in DOMAIN Scales : Scales[w] \in Nat \ {0} /\ w \notin DOMAIN Small
  /\ \A w \in Units : w \notin Decimal
<1>1. \A w \in DOMAIN Scales : Scales[w] \in {100, 1000, 100000, 10000000}
  BY NumeralsAssumption
<1>2. \A v \in {100, 1000, 100000, 10000000} : v \in Nat \ {0}
  OBVIOUS
<1> QED
  BY <1>1, <1>2, NumeralsAssumption DEF Units

-----------------------------------------------------------------------------
(***************************************************************************)
(* Heard goes from token to token: f[k] is what the first k of them make.  *)
(***************************************************************************)
Hears(t, f, n) == f[0] = Silence /\ \A k \in 1..n : f[k] = Read(f[k - 1], t[k])

LEMMA HearingExists ==
  ASSUME NEW t, NEW n \in Nat
  PROVE  \E f : f = [k \in 0..n |-> IF k = 0 THEN Silence ELSE Read(f[k - 1], t[k])]
<1> DEFINE T == {m \in 0..n : ~(\E g : Hears(t, g, m))}
<1>1. T = {}
  <2> SUFFICES ASSUME T # {} PROVE FALSE
    OBVIOUS
  <2>1. T \in SUBSET Nat
    OBVIOUS
  <2>2. PICK m \in T : \A k \in T : m <= k
    <3> HIDE DEF T
    <3> QED BY <2>1, Least
  <2>3. m \in 0..n /\ ~(\E g : Hears(t, g, m))
    OBVIOUS
  <2>4. m # 0
    <3> DEFINE g == [k \in {0} |-> Silence]
    <3>1. g[0] = Silence /\ \A k \in 1..0 : FALSE
      OBVIOUS
    <3> HIDE DEF g
    <3>2. Hears(t, g, 0)
      BY <3>1 DEF Hears
    <3> QED
      BY <2>3, <3>2
  <2>5. m - 1 \in 0..n /\ ~(m <= m - 1)
    BY <2>3, <2>4
  <2>6. PICK g : Hears(t, g, m - 1)
    BY <2>2, <2>5
  <2> DEFINE h == [k \in 0..m |-> IF k # m THEN g[k] ELSE Read(g[m - 1], t[m])]
  <2>7. Hears(t, h, m)
    <3>1. h[0] = Silence
      BY <2>3, <2>4, <2>6 DEF Hears
    <3>2. ASSUME NEW k \in 1..m PROVE h[k] = Read(h[k - 1], t[k])
      <4>1. k - 1 \in 0..m /\ k - 1 # m /\ h[k - 1] = g[k - 1]
        BY <2>3
      <4>2. CASE k = m
        BY <4>1, <4>2
      <4>3. CASE k # m
        <5>1. k \in 1..(m - 1) /\ h[k] = g[k]
          BY <2>3, <4>3
        <5>2. g[k] = Read(g[k - 1], t[k])
          BY <2>6, <5>1 DEF Hears
        <5> QED
          BY <4>1, <5>1, <5>2
      <4> QED
        BY <4>2, <4>3
    <3> HIDE DEF h
    <3> QED
      BY <3>1, <3>2 DEF Hears
  <2> QED
    BY <2>3, <2>7
<1>2. n \in 0..n
  OBVIOUS
<1>3. PICK g : Hears(t, g, n)
  BY <1>1, <1>2
<1> DEFINE f == [k \in 0..n |-> g[k]]
<1>4. ASSUME NEW k \in 0..n PROVE f[k] = IF k = 0 THEN Silence ELSE Read(f[k - 1], t[k])
  <2>1. k # 0 => k - 1 \in 0..n /\ k \in 1..n
    OBVIOUS
  <2> QED
    BY <1>3, <2>1 DEF Hears
<1>5. f = [k \in 0..n |-> IF k = 0 THEN Silence ELSE Read(f[k - 1], t[k])]
  BY <1>4
<1> QED
  BY <1>5

LEMMA HeardIs ==
  ASSUME NEW t, Len(t) \in Nat
  PROVE  \E f : Hears(t, f, Len(t)) /\ Heard(t) = f[Len(t)]
<1> DEFINE f == CHOOSE f : f = [k \in 0..Len(t) |->
                                  IF k = 0 THEN Silence ELSE Read(f[k - 1], t[k])]
<1>1. Heard(t) = f[Len(t)]
  BY DEF Heard, Silence
<1>2. f = [k \in 0..Len(t) |-> IF k = 0 THEN Silence ELSE Read(f[k - 1], t[k])]
  BY HearingExists
<1> HIDE DEF f
<1>3. \A k \in 1..Len(t) : k \in 0..Len(t) /\ k # 0
  OBVIOUS
<1>4. 0 \in 0..Len(t)
  OBVIOUS
<1>5. Hears(t, f, Len(t))
  BY <1>2, <1>3, <1>4 DEF Hears
<1> QED
  BY <1>1, <1>5

LEMMA HearsAgree ==
  ASSUME NEW t, NEW u, NEW f, NEW g, NEW m \in Nat, Hears(t, f, m), Hears(u, g, m),
         \A k \in 1..m : t[k] = u[k]
  PROVE  f[m] = g[m]
<1> DEFINE T == {k \in 0..m : f[k] # g[k]}
<1> SUFFICES ASSUME T # {} PROVE FALSE
  OBVIOUS
<1>1. T \in SUBSET Nat
  OBVIOUS
<1>2. PICK n \in T : \A k \in T : n <= k
  <2> HIDE DEF T
  <2> QED BY <1>1, Least
<1>3. n \in 0..m /\ f[n] # g[n] /\ n # 0
  BY DEF Hears
<1>4. n \in 1..m /\ n - 1 \in 0..m /\ ~(n <= n - 1)
  BY <1>3
<1>5. f[n - 1] = g[n - 1]
  BY <1>2, <1>4
<1> QED
  BY <1>3, <1>4, <1>5 DEF Hears

(***************************************************************************)
(* Nothing, and one token more.                                            *)
(***************************************************************************)
LEMMA HeardNone ==
  ASSUME NEW t, Len(t) = 0
  PROVE  Heard(t) = Silence
BY HeardIs DEF Hears

LEMMA HeardOneMore ==
  ASSUME NEW S, NEW t \in Seq(S), NEW x \in S
  PROVE  Heard(Append(t, x)) = Read(Heard(t), x)
<1> DEFINE c == Append(t, x)
           n == Len(t)
<1>1. n \in Nat /\ Len(c) = n + 1 /\ c[n + 1] = x /\ \A k \in 1..n : c[k] = t[k]
  BY OneMore
<1> HIDE DEF c
<1>2. PICK f : Hears(t, f, n) /\ Heard(t) = f[n]
  BY <1>1, HeardIs
<1>3. PICK g : Hears(c, g, n + 1) /\ Heard(c) = g[n + 1]
  BY <1>1, HeardIs
<1> HIDE DEF n
<1>4. Hears(c, g, n) /\ g[n + 1] = Read(g[n], c[n + 1])
  <2>1. \A k \in 1..n : k \in 1..(n + 1)
    BY <1>1
  <2>2. n + 1 \in 1..(n + 1) /\ (n + 1) - 1 = n
    BY <1>1
  <2> QED
    BY <1>3, <2>1, <2>2 DEF Hears
<1>5. f[n] = g[n]
  BY <1>1, <1>2, <1>4, HearsAgree
<1>6. Heard(c) = Read(Heard(t), x)
  BY <1>1, <1>2, <1>3, <1>4, <1>5
<1> QED
  BY <1>6 DEF c

(***************************************************************************)
(* What _parse_int makes of words it knows is a number.                    *)
(***************************************************************************)
LEMMA ReadTyped ==
  ASSUME NEW a \in Sums, NEW x \in Units
  PROVE  Read(a, x) \in Sums
<1> DEFINE current == IF a.current = 0 THEN 1 ELSE a.current
<1>1. a.total \in Nat /\ a.current \in Nat /\ current \in Nat
  BY DEF Sums
<1>2. CASE x \in DOMAIN Small
  <2>1. Small[x] \in Nat
    BY <1>2, VocabularyIs
  <2>2. Read(a, x) = [a EXCEPT !.current = @ + Small[x]]
    BY <1>2 DEF Read
  <2>3. a.current + Small[x] \in Nat
    BY <1>1, <2>1
  <2> QED
    BY <2>2, <2>3 DEF Sums
<1>3. CASE x \notin DOMAIN Small /\ Scales[x] = 100
  <2>1. Read(a, x) = [a EXCEPT !.current = current * 100]
    BY <1>3 DEF Read
  <2>2. current * 100 \in Nat
    BY <1>1
  <2> QED
    BY <2>1, <2>2 DEF Sums
<1>4. CASE x \notin DOMAIN Small /\ Scales[x] # 100
  <2>1. Scales[x] \in Nat
    BY <1>4, VocabularyIs DEF Units
  <2>2. Read(a, x) = [total |-> a.total + current * Scales[x], current |-> 0]
    BY <1>4 DEF Read
  <2>3. \A p, q, r \in Nat : p + q * r \in Nat
    OBVIOUS
  <2>4. a.total + current * Scales[x] \in Nat
    <3> HIDE DEF current
    <3> QED BY <1>1, <2>1, <2>3
  <2> QED
    BY <2>2, <2>4 DEF Sums
<1> QED
  BY <1>2, <1>3, <1>4

LEMMA HeardTyped ==
  ASSUME NEW t \in Seq(Units)
  PROVE  Heard(t) \in Sums /\ ParseInt(t) \in Nat
<1> DEFINE n == Len(t)
<1>1. n \in Nat /\ \A k \in 1..n : t[k] \in Units
  BY ElementOfSeq, LenProperties
<1>2. PICK f : Hears(t, f, n) /\ Heard(t) = f[n]
  BY <1>1, HeardIs
<1> HIDE DEF n
<1> DEFINE T == {k \in 0..n : f[k] \notin Sums}
<1>3. T = {}
  <2> SUFFICES ASSUME T # {} PROVE FALSE
    OBVIOUS
  <2>1. T \in SUBSET Nat
    OBVIOUS
  <2>2. PICK k \in T : \A j \in T : k <= j
    <3> HIDE DEF T
    <3> QED BY <2>1, Least
  <2>3. k \in 0..n /\ f[k] \notin Sums
    OBVIOUS
  <2>4. k # 0
    BY <1>2, <2>3 DEF Hears, Silence, Sums
  <2>5. k \in 1..n /\ k - 1 \in 0..n /\ ~(k <= k - 1)
    BY <1>1, <2>3, <2>4
  <2>6. f[k - 1] \in Sums
    BY <2>2, <2>5
  <2>7. f[k] = Read(f[k - 1], t[k])
    BY <1>2, <2>5 DEF Hears
  <2> QED
    BY <1>1, <2>3, <2>5, <2>6, <2>7, ReadTyped
<1>4. Heard(t) \in Sums
  BY <1>1, <1>2, <1>3
<1> QED
  BY <1>4 DEF ParseInt, Sums

-----------------------------------------------------------------------------
(***************************************************************************)
-----------------------------------------------------------------------------
(***************************************************************************)
(* A run of numerals ends at the last of them.                             *)
(***************************************************************************)
Transcript == text \in Texts /\ i \in 1..(Len(text) + 1)

LEMMA TranscriptIs ==
  ASSUME text \in Texts
  PROVE  /\ text \in Seq(STRING) /\ Len(text) \in Nat
         /\ \A k \in 1..Len(text) : text[k] \in STRING
<1>1. text \in Seq(STRING)
  BY NumeralsAssumption
<1>2. Len(text) \in Nat /\ \A k \in 1..Len(text) : text[k] \in STRING
  BY <1>1, ElementOfSeq, LenProperties
<1> QED
  BY <1>1, <1>2

LEMMA BlankIsNoNumeral == ~IsNumeral(Blank)
BY NumeralsAssumption DEF IsNumeral

LEMMA RunEndIs ==
  ASSUME Transcript, i <= Len(text), IsNumeral(text[i])
  PROVE  /\ RunEnd(i) \in i..Len(text) /\ IsNumeral(text[RunEnd(i)])
         /\ \A k \in i..RunEnd(i) : text[k] = Blank \/ IsNumeral(text[k])
         /\ \A d \in RunEnds(i) : d <= RunEnd(i)
<1>1. Len(text) \in Nat /\ i \in 1..Len(text)
  BY TranscriptIs DEF Transcript
<1>2. RunEnds(i) \in SUBSET (0..Len(text))
  BY <1>1 DEF RunEnds
<1>3. i \in RunEnds(i)
  BY <1>1 DEF RunEnds
<1>4. \E e \in RunEnds(i) : \A d \in RunEnds(i) : d <= e
  BY <1>1, <1>2, <1>3, Greatest
<1>5. RunEnd(i) \in RunEnds(i) /\ \A d \in RunEnds(i) : d <= RunEnd(i)
  BY <1>4 DEF RunEnd
<1> QED
  BY <1>5 DEF RunEnds

LEMMA AsIsIs ==
  ASSUME text \in Texts, NEW b \in Nat \ {0}, NEW e \in Nat, b <= e + 1, e <= Len(text)
  PROVE  /\ AsIs(b, e) \in Seq({<<w>> : w \in STRING}) /\ Len(AsIs(b, e)) = e - b + 1
         /\ \A k \in 1..(e - b + 1) : /\ b + k - 1 \in b..e
                                      /\ AsIs(b, e)[k] = <<text[b + k - 1]>>
                                      /\ AsIs(b, e)[k][1] = text[b + k - 1]
<1> DEFINE n == e - b + 1
<1>1. Len(text) \in Nat /\ \A k \in 1..Len(text) : text[k] \in STRING
  BY TranscriptIs
<1>2. n \in Nat /\ \A k \in 1..n : b + k - 1 \in b..e /\ b + k - 1 \in 1..Len(text)
  BY <1>1
<1>3. AsIs(b, e) \in [1..n -> {<<w>> : w \in STRING}]
  BY <1>1, <1>2 DEF AsIs
<1>4. \A k \in 1..n : AsIs(b, e)[k] = <<text[b + k - 1]>>
  BY DEF AsIs
<1>5. AsIs(b, e) \in Seq({<<w>> : w \in STRING}) /\ Len(AsIs(b, e)) = n
  <2> DEFINE S == {<<w>> : w \in STRING}
             q == AsIs(b, e)
  <2>1. n \in Nat /\ q \in [1..n -> S]
    BY <1>2, <1>3
  <2> HIDE DEF S, q, n
  <2>2. q \in Seq(S) /\ Len(q) = n
    BY <2>1, SequenceOf
  <2> QED
    BY <2>2 DEF S, q
<1> QED
  BY <1>2, <1>4, <1>5

(***************************************************************************)
(* The tokens of a run are words that _parse_int knows, and the points.    *)
(***************************************************************************)
LEMMA ExpandTyped ==
  ASSUME NEW w, IsNumeral(w)
  PROVE  Expand(w) \in Seq(Units \cup Decimal)
<1>1. CASE w \in Tokenized
  <2>1. w \in Units \cup Decimal
    BY <1>1 DEF Tokenized, Units
  <2> QED
    BY <1>1, <2>1, OneTyped DEF Expand
<1>2. CASE w \notin Tokenized
  <2>1. PICK x \in DOMAIN Small, s \in DOMAIN Scales : Compounds[w] = <<x, s>>
    BY <1>2, NumeralsAssumption DEF IsNumeral, Numeral
  <2>2. x \in Units \cup Decimal /\ s \in Units \cup Decimal
    BY DEF Units
  <2>3. <<x, s>> \in Seq(Units \cup Decimal)
    BY <2>2
  <2> QED
    BY <1>2, <2>1, <2>3 DEF Expand
<1> QED
  BY <1>1, <1>2

LEMMA TokensTyped ==
  ASSUME text \in Texts, NEW b \in Nat \ {0}, NEW e \in Nat, b <= e,
         \A k \in b..e : text[k] = Blank \/ IsNumeral(text[k])
  PROVE  Tokens(b, e) \in Seq(Units \cup Decimal)
<1> DEFINE n == e - b + 1
           q == [k \in 1..n |-> IF text[b + k - 1] = Blank THEN <<>> ELSE Expand(text[b + k - 1])]
<1>1. n \in Nat /\ \A k \in 1..n : b + k - 1 \in b..e
  OBVIOUS
<1>2. ASSUME NEW k \in 1..n
      PROVE  (IF text[b + k - 1] = Blank THEN <<>> ELSE Expand(text[b + k - 1]))
               \in Seq(Units \cup Decimal)
  <2>1. text[b + k - 1] = Blank \/ IsNumeral(text[b + k - 1])
    BY <1>1
  <2> QED
    BY <2>1, ExpandTyped, EmptySeq
<1>3. q \in [1..n -> Seq(Units \cup Decimal)]
  BY <1>2
<1>4. Tokens(b, e) = FlattenSeq(q)
  BY DEF Tokens
<1> HIDE DEF q
<1>5. q \in Seq(Seq(Units \cup Decimal))
  BY <1>1, <1>3, SequenceOf
<1> QED
  BY <1>4, <1>5, FlattenTyped

(***************************************************************************)
(* What a run is rendered as is a number with the values after its point.  *)
(***************************************************************************)
Figures == {Digits(v, f) : v \in Nat, f \in Seq(Nat)}

LEMMA RenderedTyped ==
  ASSUME NEW t \in Seq(Units \cup Decimal)
  PROVE  Rendered(t) \subseteq Figures
<1> DEFINE n == Len(t)
           points == {k \in 1..n : t[k] \in Decimal}
           after(k) == SubSeq(t, k + 1, n)
<1>1. n \in Nat /\ \A k \in 1..n : t[k] \in Units \cup Decimal
  BY ElementOfSeq, LenProperties
<1>2. \A j \in 1..n : j \notin points => t[j] \in Units
  BY <1>1
<1>3. CASE points = {}
  <2>1. t \in [1..n -> Units] /\ t \in Seq(Units)
    <3>1. t \in [1..n -> Units]
      <4>1. t \in [1..n -> Units \cup Decimal]
        BY LenProperties
      <4> QED
        BY <1>2, <1>3, <4>1
    <3> QED
      BY <1>1, <3>1, SequenceOf
  <2>2. ParseInt(t) \in Nat
    BY <2>1, HeardTyped
  <2>3. \A d \in Rendered(t) : d = Digits(ParseInt(t), <<>>)
    BY <1>3 DEF Rendered
  <2>4. <<>> \in Seq(Nat)
    OBVIOUS
  <2>5. \A v \in Nat, f \in Seq(Nat) : Digits(v, f) \in Figures
    BY DEF Figures
  <2>6. Digits(ParseInt(t), <<>>) \in Figures
    BY <2>2, <2>4, <2>5
  <2> QED
    BY <2>3, <2>6
<1>4. CASE points # {}
  <2> SUFFICES ASSUME NEW d \in Rendered(t) PROVE d \in Figures
    OBVIOUS
  <2>1. PICK k \in points :
          /\ points = {k} /\ after(k) # <<>>
          /\ d = Digits(ParseInt(SubSeq(t, 1, k - 1)),
                        [m \in 1..Len(after(k)) |-> ParseInt(<<after(k)[m]>>)])
    BY <1>4 DEF Rendered
  <2>2. k \in 1..n /\ \A j \in 1..n : j # k => t[j] \in Units
    BY <1>2, <2>1
  <2> DEFINE a == after(k)
             u == SubSeq(t, 1, k - 1)
  <2>3. /\ u = [j \in 1..(k - 1) |-> t[j]]
        /\ a = [j \in 1..(n - k) |-> t[k + j]]
    BY <1>1, <2>2
  <2>4. u \in [1..(k - 1) -> Units] /\ a \in [1..(n - k) -> Units]
    <3>1. \A j \in 1..(k - 1) : j \in 1..n /\ j # k
      BY <1>1, <2>2
    <3>2. \A j \in 1..(n - k) : k + j \in 1..n /\ k + j # k
      BY <1>1, <2>2
    <3> QED
      BY <2>2, <2>3, <3>1, <3>2
  <2> HIDE DEF a, u, n, points
  <2>5. k - 1 \in Nat /\ n - k \in Nat
    BY <1>1, <2>2
  <2>6. u \in Seq(Units) /\ a \in Seq(Units) /\ Len(a) = n - k
    BY <2>4, <2>5, SequenceOf
  <2>7. ParseInt(u) \in Nat
    BY <2>6, HeardTyped
  <2>8. \A m \in 1..Len(a) : <<a[m]>> \in Seq(Units) /\ ParseInt(<<a[m]>>) \in Nat
    <3> SUFFICES ASSUME NEW m \in 1..Len(a)
                 PROVE  <<a[m]>> \in Seq(Units) /\ ParseInt(<<a[m]>>) \in Nat
      OBVIOUS
    <3>1. a[m] \in Units
      BY <2>6, ElementOfSeq
    <3>2. <<a[m]>> \in Seq(Units)
      BY <3>1
    <3> QED
      BY <3>2, HeardTyped
  <2> DEFINE f == [m \in 1..Len(a) |-> ParseInt(<<a[m]>>)]
  <2>9. f \in [1..Len(a) -> Nat] /\ Len(a) \in Nat
    BY <2>5, <2>6, <2>8
  <2>10. f \in Seq(Nat)
    <3> HIDE DEF f
    <3> QED BY <2>9, SequenceOf
  <2>11. d = Digits(ParseInt(u), f)
    BY <2>1 DEF a, u, n
  <2> HIDE DEF f
  <2> QED
    BY <2>7, <2>10, <2>11 DEF Figures
<1> QED
  BY <1>3, <1>4

(***************************************************************************)
(* There is at most one of them.                                           *)
(***************************************************************************)
LEMMA RenderedOnce == \A t : \A c, d \in Rendered(t) : c = d
<1> SUFFICES ASSUME NEW t, NEW c \in Rendered(t), NEW d \in Rendered(t) PROVE c = d
  OBVIOUS
<1> DEFINE points == {k \in 1..Len(t) : t[k] \in Decimal}
           P(k) == Digits(ParseInt(SubSeq(t, 1, k - 1)),
                          [n \in 1..Len(SubSeq(t, k + 1, Len(t))) |->
                             ParseInt(<<SubSeq(t, k + 1, Len(t))[n]>>)])
<1>1. CASE points = {}
  <2>1. c = Digits(ParseInt(t), <<>>) /\ d = Digits(ParseInt(t), <<>>)
    BY <1>1 DEF Rendered
  <2> QED
    BY <2>1
<1>2. CASE points # {}
  <2>1. \A x \in Rendered(t) : \E k \in points : points = {k} /\ x = P(k)
    BY <1>2 DEF Rendered
  <2> HIDE DEF points, P
  <2>2. PICK k \in points : points = {k} /\ c = P(k)
    BY <2>1
  <2>3. PICK j \in points : points = {j} /\ d = P(j)
    BY <2>1
  <2>4. j = k
    BY <2>2, <2>3
  <2> QED
    BY <2>2, <2>3, <2>4
<1> QED
  BY <1>1, <1>2

-----------------------------------------------------------------------------
(***************************************************************************)
(* The runs of a text, and what is made of each of them.                   *)
(***************************************************************************)
LEMMA RunIs ==
  ASSUME text \in Texts, NEW r \in Runs
  PROVE  /\ r[1] \in 1..Len(text) /\ r[2] \in 1..Len(text) /\ r[1] <= r[2]
         /\ r = <<r[1], r[2]>> /\ Stretch(r[1], r[2])
         /\ Tokens(r[1], r[2]) \in Seq(Units \cup Decimal)
<1>1. /\ r[1] \in 1..Len(text) /\ r[2] \in 1..Len(text) /\ r[1] <= r[2]
      /\ r = <<r[1], r[2]>> /\ Stretch(r[1], r[2])
  BY DEF Runs
<1>2. /\ r[1] \in Nat \ {0} /\ r[2] \in Nat
      /\ \A k \in r[1]..r[2] : text[k] = Blank \/ IsNumeral(text[k])
  BY <1>1, TranscriptIs DEF Stretch
<1> QED
  BY <1>1, <1>2, TokensTyped

\* f[r] is what _render_run returns for the run r.
Renders(f) ==
  /\ f \in [Runs -> {Kept} \cup Figures]
  /\ \A r \in Runs : IF Rendered(Tokens(r[1], r[2])) = {} THEN f[r] = Kept
                     ELSE f[r] \in Rendered(Tokens(r[1], r[2]))

LEMMA RendersExist ==
  ASSUME text \in Texts
  PROVE  \E f : Renders(f)
<1> DEFINE T(r) == Rendered(Tokens(r[1], r[2]))
           f == [r \in Runs |-> IF T(r) = {} THEN Kept ELSE CHOOSE d \in T(r) : TRUE]
<1>1. ASSUME NEW r \in Runs
      PROVE  IF T(r) = {} THEN f[r] = Kept ELSE f[r] \in T(r) /\ f[r] \in Figures
  <2>1. T(r) \subseteq Figures
    BY RunIs, RenderedTyped
  <2>2. f[r] = IF T(r) = {} THEN Kept ELSE CHOOSE d \in T(r) : TRUE
    OBVIOUS
  <2> HIDE DEF T, f
  <2> QED
    BY <2>1, <2>2
<1>2. f \in [Runs -> {Kept} \cup Figures]
  <2>1. \A r \in Runs : f[r] \in {Kept} \cup Figures
    <3> HIDE DEF T, f
    <3> QED BY <1>1
  <2>2. f = [r \in Runs |-> f[r]]
    OBVIOUS
  <2> HIDE DEF f
  <2> QED
    BY <2>1, <2>2
<1>3. Renders(f)
  <2> HIDE DEF f
  <2> QED BY <1>1, <1>2 DEF Renders
<1> QED
  BY <1>3

LEMMA KeptIsNoFigure == \A d \in Figures : d # Kept /\ Len(d) = 3
<1>1. \A v, f : Len(<<"digits", v, f>>) = 3
  OBVIOUS
<1>2. \A d \in Figures : Len(d) = 3
  BY <1>1 DEF Figures, Digits
<1>3. Len(Kept) = 0
  BY DEF Kept
<1> QED
  BY <1>2, <1>3

-----------------------------------------------------------------------------
(***************************************************************************)
(* What is put out of the parts up to m is made of what is put out of      *)
(* those up to a, and of the ones after that.                              *)
(***************************************************************************)
Pieces == {<<w>> : w \in STRING} \cup Figures

LEMMA PieceIs ==
  ASSUME text \in Texts, NEW f, Renders(f), NEW k \in 1..Len(text)
  PROVE  Piece(f, k) \in Seq(Pieces)
<1>1. CASE Written(f, k) = {}
  <2>1. text[k] \in STRING /\ <<text[k]>> \in Pieces
    BY TranscriptIs DEF Pieces
  <2> QED
    BY <1>1, <2>1, OneTyped DEF Piece
<1>2. CASE Written(f, k) # {}
  <2> DEFINE r == CHOOSE r \in Written(f, k) : TRUE
  <2>1. r \in Written(f, k)
    BY <1>2
  <2>2. Piece(f, k) = IF k = r[1] THEN <<f[r]>> ELSE <<>>
    BY <1>2 DEF Piece
  <2> HIDE DEF r
  <2>3. f[r] \in Pieces
    <3>1. r \in Runs /\ f[r] # Kept /\ f[r] \in {Kept} \cup Figures
      BY <2>1 DEF Written, Renders
    <3> QED
      BY <3>1 DEF Pieces
  <2>4. <<f[r]>> \in Seq(Pieces) /\ <<>> \in Seq(Pieces)
    BY <2>3, OneTyped
  <2> QED
    BY <2>2, <2>4
<1> QED
  BY <1>1, <1>2

Between(f, a, m) == FlattenSeq([k \in 1..(m - a) |-> Piece(f, a + k)])

LEMMA ComposedMore ==
  ASSUME text \in Texts, NEW f, Renders(f),
         NEW m \in 0..Len(text), NEW a \in 0..m
  PROVE  /\ Composed(f, m) = Composed(f, a) \o Between(f, a, m)
         /\ Composed(f, m) \in Seq(Pieces)
<1> DEFINE c == [k \in 1..m |-> Piece(f, k)]
           l == [k \in 1..a |-> Piece(f, k)]
           r == [k \in 1..(m - a) |-> Piece(f, a + k)]
           S == Seq(Pieces)
<1>1. /\ Len(text) \in Nat /\ m \in Nat /\ a \in Nat /\ m - a \in Nat
      /\ \A k \in 1..m : k \in 1..Len(text)
      /\ \A k \in 1..a : k \in 1..m
      /\ \A k \in 1..(m - a) : a + k \in 1..m
  BY TranscriptIs
<1>2. c \in [1..m -> S] /\ l \in [1..a -> S] /\ r \in [1..(m - a) -> S]
  BY <1>1, PieceIs
<1>3. \A k \in 1..m : c[k] = IF k <= a THEN l[k] ELSE r[k - a]
  <2> SUFFICES ASSUME NEW k \in 1..m PROVE c[k] = IF k <= a THEN l[k] ELSE r[k - a]
    OBVIOUS
  <2>1. ~(k <= a) => k - a \in 1..(m - a) /\ a + (k - a) = k
    BY <1>1
  <2>2. k <= a => k \in 1..a
    BY <1>1
  <2> QED
    BY <2>1, <2>2
<1>4. /\ Composed(f, m) = FlattenSeq(c) /\ Composed(f, a) = FlattenSeq(l)
      /\ Between(f, a, m) = FlattenSeq(r)
  BY DEF Composed, Between
<1> HIDE DEF c, l, r, S
<1>5. /\ c \in Seq(S) /\ Len(c) = m /\ l \in Seq(S) /\ Len(l) = a
      /\ r \in Seq(S) /\ Len(r) = m - a
  BY <1>1, <1>2, SequenceOf
<1>6. /\ l \o r \in Seq(S) /\ Len(l \o r) = Len(l) + Len(r)
      /\ \A k \in 1..(Len(l) + Len(r)) : (l \o r)[k] = IF k <= Len(l) THEN l[k] ELSE r[k - Len(l)]
  <2>1. l \in Seq(S) /\ r \in Seq(S)
    BY <1>5
  <2> QED
    BY ONLY <2>1, ConcatProperties
<1>7. a + (m - a) = m
  BY <1>1
<1>8. l \o r = c
  <2>1. Len(l \o r) = Len(c) /\ \A k \in 1..Len(l \o r) : (l \o r)[k] = c[k]
    BY <1>3, <1>5, <1>6, <1>7
  <2> QED
    BY <1>5, <1>6, <2>1, SeqEqual
<1>9. c \in Seq(Seq(Pieces)) /\ l \in Seq(Seq(Pieces)) /\ r \in Seq(Seq(Pieces))
  BY <1>5 DEF S
<1>10. FlattenSeq(l \o r) = FlattenSeq(l) \o FlattenSeq(r) /\ FlattenSeq(c) \in Seq(Pieces)
  BY <1>9, FlattenConcat, FlattenTyped
<1> QED
  BY <1>4, <1>8, <1>10
-----------------------------------------------------------------------------
(***************************************************************************)
(* No run is under way between calls: a run begins and ends with what is   *)
(* looked at in one step.                                                  *)
(***************************************************************************)
NoneUnderWay(j) == \A b \in 1..(j - 1), e \in j..Len(text) : ~Stretch(b, e)

LEMMA NoRunHere ==
  ASSUME Transcript, NoneUnderWay(i), i <= Len(text), text[i] = Blank \/ ~IsNumeral(text[i])
  PROVE  /\ NoneUnderWay(i + 1)
         /\ \A r \in Runs : i \notin r[1]..r[2]
<1>1. text \in Texts /\ Len(text) \in Nat /\ i \in 1..Len(text) /\ ~IsNumeral(text[i])
  BY TranscriptIs, BlankIsNoNumeral DEF Transcript
<1>2. \A b, e \in 1..Len(text) : i \in b..e => ~Stretch(b, e)
  <2> SUFFICES ASSUME NEW b \in 1..Len(text), NEW e \in 1..Len(text), i \in b..e, Stretch(b, e)
               PROVE  FALSE
    OBVIOUS
  <2>1. b # i
    BY <1>1 DEF Stretch
  <2>2. b \in 1..(i - 1) /\ e \in i..Len(text)
    BY <1>1, <2>1
  <2> QED
    BY <2>2 DEF NoneUnderWay
<1>3. ASSUME NEW b \in 1..i, NEW e \in (i + 1)..Len(text) PROVE ~Stretch(b, e)
  <2>1. b \in 1..Len(text) /\ e \in 1..Len(text) /\ i \in b..e
    BY <1>1
  <2> QED
    BY <1>2, <2>1
<1>4. NoneUnderWay(i + 1)
  <2>1. (i + 1) - 1 = i
    BY <1>1
  <2> QED
    BY <1>3, <2>1, Zenon DEF NoneUnderWay
<1> QED
  BY <1>1, <1>2, <1>4, RunIs

LEMMA RunHere ==
  ASSUME Transcript, NoneUnderWay(i), i <= Len(text), IsNumeral(text[i])
  PROVE  /\ <<i, RunEnd(i)>> \in Runs
         /\ NoneUnderWay(RunEnd(i) + 1)
         /\ \A r \in Runs, k \in i..RunEnd(i) : k \in r[1]..r[2] => r = <<i, RunEnd(i)>>
<1> DEFINE e == RunEnd(i)
<1>1. /\ text \in Texts /\ Len(text) \in Nat /\ i \in 1..Len(text) /\ IsNumeral(text[i])
      /\ e \in i..Len(text) /\ IsNumeral(text[e])
      /\ \A k \in i..e : text[k] = Blank \/ IsNumeral(text[k])
      /\ \A d \in RunEnds(i) : d <= e
  BY TranscriptIs, RunEndIs DEF Transcript
<1> HIDE DEF e
<1>2. Stretch(i, e)
  BY <1>1 DEF Stretch
<1>3. ASSUME NEW d \in 1..Len(text), Stretch(i, d), i <= d PROVE d <= e
  <2>1. d \in RunEnds(i)
    BY <1>1, <1>3 DEF Stretch, RunEnds
  <2> QED
    BY <1>1, <2>1
<1>4. ASSUME NEW b \in 1..e, NEW d \in (e + 1)..Len(text), Stretch(b, d) PROVE FALSE
  <2>1. b \in 1..Len(text) /\ d \in i..Len(text) /\ b <= e /\ e < d /\ d \in 1..Len(text)
    BY <1>1
  <2>2. CASE b < i
    <3>1. b \in 1..(i - 1)
      BY <1>1, <2>1, <2>2
    <3> QED
      BY <1>4, <2>1, <3>1 DEF NoneUnderWay
  <2>3. CASE b >= i
    <3>1. IsNumeral(text[d]) /\ \A k \in b..d : text[k] = Blank \/ IsNumeral(text[k])
      BY <1>4 DEF Stretch
    <3>2. ASSUME NEW k \in i..d PROVE text[k] = Blank \/ IsNumeral(text[k])
      <4>1. k \in i..e \/ k \in b..d
        BY <1>1, <2>1, <2>3
      <4> QED
        BY <1>1, <3>1, <4>1
    <3>3. Stretch(i, d)
      BY <1>1, <3>1, <3>2 DEF Stretch
    <3> QED
      BY <1>1, <1>3, <2>1, <3>3
  <2> QED
    BY <1>1, <2>1, <2>2, <2>3
<1>5. <<i, e>> \in Runs
  <2>1. <<i, e>> \in (1..Len(text)) \X (1..Len(text)) /\ i <= e
    BY <1>1
  <2>2. \A b \in 1..(i - 1) : ~Stretch(b, e)
    BY <1>1 DEF NoneUnderWay
  <2>3. ASSUME NEW d \in (e + 1)..Len(text) PROVE ~Stretch(i, d)
    <3>1. d \in 1..Len(text) /\ i <= d /\ ~(d <= e)
      BY <1>1
    <3> QED
      BY <1>3, <3>1
  <2> QED
    BY <1>2, <2>1, <2>2, <2>3 DEF Runs
<1>6. ASSUME NEW r \in Runs, NEW k \in i..e, k \in r[1]..r[2] PROVE r = <<i, e>>
  <2> DEFINE b == r[1]
             d == r[2]
  <2>1. /\ b \in 1..Len(text) /\ d \in 1..Len(text) /\ b <= d /\ r = <<b, d>> /\ Stretch(b, d)
        /\ \A a \in 1..(b - 1) : ~Stretch(a, d)
        /\ \A c \in (d + 1)..Len(text) : ~Stretch(b, c)
    BY <1>1, RunIs DEF Runs
  <2>2. b <= k /\ k <= d /\ i <= k /\ k <= e /\ k \in Int
    BY <1>1, <1>6, <2>1
  <2> HIDE DEF b, d
  <2>3. b >= i
    <3> SUFFICES ASSUME b < i PROVE FALSE
      BY <1>1, <2>1
    <3>1. b \in 1..(i - 1) /\ d \in i..Len(text)
      BY <1>1, <2>1, <2>2
    <3> QED
      BY <2>1, <3>1 DEF NoneUnderWay
  <2>4. d <= e
    <3> SUFFICES ASSUME e < d PROVE FALSE
      BY <1>1, <2>1
    <3>1. b \in 1..e /\ d \in (e + 1)..Len(text)
      BY <1>1, <2>1, <2>2
    <3> QED
      BY <1>4, <2>1, <3>1
  <2>5. IsNumeral(text[b]) /\ IsNumeral(text[d])
    BY <2>1 DEF Stretch
  <2>6. b = i
    <3> SUFFICES ASSUME i < b PROVE FALSE
      BY <1>1, <2>1, <2>3
    <3>1. i \in 1..(b - 1) /\ \A m \in i..d : m \in i..e
      BY <1>1, <2>1, <2>4
    <3>2. Stretch(i, d)
      BY <1>1, <2>5, <3>1 DEF Stretch
    <3> QED
      BY <2>1, <3>1, <3>2
  <2>7. d = e
    <3> SUFFICES ASSUME d < e PROVE FALSE
      BY <1>1, <2>1, <2>4
    <3>1. e \in (d + 1)..Len(text)
      BY <1>1, <2>1
    <3> QED
      BY <1>2, <2>1, <2>6, <3>1
  <2> QED
    BY <2>1, <2>6, <2>7
<1>7. NoneUnderWay(e + 1)
  <2>1. (e + 1) - 1 = e
    BY <1>1
  <2> QED
    BY <1>4, <2>1, Zenon DEF NoneUnderWay
<1> QED
  BY <1>5, <1>6, <1>7 DEF e

(***************************************************************************)
(* What is put out of the parts that are looked at in one step.            *)
(***************************************************************************)
LEMMA OneBetween ==
  ASSUME Transcript, i <= Len(text), NEW f, Renders(f), \A r \in Runs : i \notin r[1]..r[2]
  PROVE  Between(f, i - 1, i) = <<<<text[i]>>>>
<1> DEFINE q == [k \in 1..(i - (i - 1)) |-> Piece(f, (i - 1) + k)]
           p == <<<<text[i]>>>>
           v == <<<<text[i]>>>>
<1>1. i \in 1..Len(text) /\ i - (i - 1) = 1 /\ (i - 1) + 1 = i /\ text[i] \in STRING
  BY TranscriptIs DEF Transcript
<1>2. Piece(f, i) = p
  <2>1. Written(f, i) = {}
    BY DEF Written, Renders
  <2> QED
    BY <2>1 DEF Piece
<1>3. q \in [1..1 -> {p}] /\ q[1] = p
  <2>1. \A k \in 1..1 : k = 1
    OBVIOUS
  <2> QED
    BY <1>1, <1>2, <2>1
<1>4. p \in Seq(Pieces) /\ Len(p) = 1 /\ p[1] = <<text[i]>>
  <2>1. <<text[i]>> \in Pieces
    BY <1>1 DEF Pieces
  <2> QED
    BY <2>1, OneTyped
<1> HIDE DEF q, p
<1>5. q \in [1..1 -> Seq(Pieces)] /\ 1 \in Nat
  BY <1>3, <1>4
<1>6. q \in Seq(Seq(Pieces)) /\ Len(q) = 1
  BY <1>5, SequenceOf
<1>7. \A k \in 1..Len(q) : q[k] = <<p[k]>>
  <2>1. \A k \in 1..1 : k = 1
    OBVIOUS
  <2>2. p = <<p[1]>>
    BY <1>4 DEF p
  <2> QED
    BY <1>3, <1>6, <2>1, <2>2
<1>8. FlattenSeq(q) = p
  BY <1>4, <1>6, <1>7, FlattenSingles
<1> QED
  BY <1>8 DEF q, p, Between

LEMMA KeptBetween ==
  ASSUME Transcript, NoneUnderWay(i), i <= Len(text), IsNumeral(text[i]),
         NEW f, Renders(f), f[<<i, RunEnd(i)>>] = Kept
  PROVE  Between(f, i - 1, RunEnd(i)) = AsIs(i, RunEnd(i))
<1> DEFINE e == RunEnd(i)
           n == e - i + 1
           q == [k \in 1..(e - (i - 1)) |-> Piece(f, (i - 1) + k)]
           a == AsIs(i, e)
<1>1. /\ text \in Texts /\ i \in Nat \ {0} /\ e \in Nat /\ i <= e /\ i <= e + 1
      /\ e <= Len(text) /\ Len(text) \in Nat
  BY TranscriptIs, RunEndIs DEF Transcript
<1>2. \A r \in Runs, k \in i..e : k \in r[1]..r[2] => f[r] = Kept
  BY RunHere
<1>3. /\ a \in Seq({<<w>> : w \in STRING}) /\ Len(a) = n
      /\ \A k \in 1..n : i + k - 1 \in i..e /\ a[k] = <<text[i + k - 1]>>
  <2> HIDE DEF e
  <2> QED BY <1>1, AsIsIs
<1>4. \A k \in i..e : Piece(f, k) = <<<<text[k]>>>>
  <2>1. \A k \in i..e : Written(f, k) = {}
    <3> HIDE DEF e
    <3> QED BY <1>2 DEF Written, Renders
  <2> HIDE DEF e
  <2> QED
    BY <2>1 DEF Piece
<1> HIDE DEF e, a
<1>5. n \in Nat /\ e - (i - 1) = n /\ \A k \in 1..n : (i - 1) + k = i + k - 1
  BY <1>1
<1>6. \A k \in 1..n : q[k] = <<a[k]>> /\ a[k] \in Pieces
  <2> SUFFICES ASSUME NEW k \in 1..n PROVE q[k] = <<a[k]>> /\ a[k] \in Pieces
    OBVIOUS
  <2>1. i + k - 1 \in i..e /\ a[k] = <<text[i + k - 1]>> /\ (i - 1) + k = i + k - 1
    BY <1>3, <1>5
  <2>2. i + k - 1 \in 1..Len(text)
    BY <1>1, <2>1
  <2>3. text[i + k - 1] \in STRING
    BY <1>1, <2>2, TranscriptIs
  <2>4. q[k] = Piece(f, i + k - 1)
    BY <1>5, <2>1
  <2> QED
    BY <1>4, <2>1, <2>3, <2>4 DEF Pieces
<1>7. q \in [1..n -> Seq(Pieces)] /\ a \in [1..n -> Pieces]
  <2>1. \A k \in 1..n : q[k] \in Seq(Pieces)
    BY <1>6, OneTyped
  <2>2. \A k \in 1..n : a[k] \in Pieces
    BY <1>6
  <2>3. a = [k \in 1..n |-> a[k]]
    <3>1. a \in Seq({<<w>> : w \in STRING}) /\ Len(a) = n
      BY <1>3
    <3> HIDE DEF n
    <3> QED
      BY ONLY <3>1, LenProperties
  <2>4. q = [k \in 1..n |-> q[k]]
    BY <1>5
  <2> HIDE DEF q, n
  <2> QED
    BY <2>1, <2>2, <2>3, <2>4
<1> HIDE DEF q
<1>8. /\ q \in Seq(Seq(Pieces)) /\ Len(q) = n /\ a \in Seq(Pieces)
  <2> HIDE DEF n
  <2> QED BY <1>5, <1>7, SequenceOf
<1>9. FlattenSeq(q) = a
  <2> HIDE DEF n
  <2> QED BY <1>3, <1>6, <1>8, FlattenSingles
<1> QED
  BY <1>9 DEF q, a, e, Between

LEMMA FigureBetween ==
  ASSUME Transcript, NoneUnderWay(i), i <= Len(text), IsNumeral(text[i]),
         NEW f, Renders(f), f[<<i, RunEnd(i)>>] # Kept
  PROVE  Between(f, i - 1, RunEnd(i)) = <<f[<<i, RunEnd(i)>>]>>
<1> DEFINE e == RunEnd(i)
           n == e - i + 1
           here == <<i, e>>
           q == [k \in 1..(e - (i - 1)) |-> Piece(f, (i - 1) + k)]
           one == <<<<f[here]>>>>
           rest == [k \in 1..(n - 1) |-> <<>>]
<1>1. /\ text \in Texts /\ i \in Nat \ {0} /\ e \in Nat /\ i <= e /\ i <= e + 1
      /\ e <= Len(text) /\ Len(text) \in Nat
  BY TranscriptIs, RunEndIs DEF Transcript
<1>2. here \in Runs /\ \A r \in Runs, k \in i..e : k \in r[1]..r[2] => r = here
  BY RunHere
<1> HIDE DEF e
<1>3. here[1] = i /\ here[2] = e /\ f[here] \in Pieces
  <2>1. f[here] \in {Kept} \cup Figures /\ f[here] # Kept
    <3>1. f[here] # Kept
      BY DEF e
    <3> QED
      BY <1>2, <3>1 DEF Renders
  <2> QED
    BY <2>1 DEF Pieces
<1>4. \A k \in i..e : Written(f, k) = {here}
  <2>1. DOMAIN f = Runs
    BY DEF Renders
  <2>2. f[here] # Kept
    BY DEF e
  <2> HIDE DEF here
  <2> QED
    BY <1>2, <1>3, <2>1, <2>2 DEF Written
<1> HIDE DEF here
<1>5. \A k \in i..e : Piece(f, k) = IF k = i THEN <<f[here]>> ELSE <<>>
  <2> SUFFICES ASSUME NEW k \in i..e
               PROVE  Piece(f, k) = IF k = i THEN <<f[here]>> ELSE <<>>
    OBVIOUS
  <2>1. Written(f, k) = {here} /\ Written(f, k) # {}
    BY <1>4
  <2>2. (CHOOSE r \in Written(f, k) : TRUE) = here
    BY <2>1
  <2> QED
    BY <1>3, <2>1, <2>2 DEF Piece
<1>6. n \in Nat \ {0} /\ e - (i - 1) = n /\ n - 1 \in Nat
      /\ \A k \in 1..n : (i - 1) + k \in i..e /\ ((i - 1) + k = i <=> k = 1)
  BY <1>1
<1>7. \A k \in 1..n : q[k] = IF k = 1 THEN <<f[here]>> ELSE <<>>
  BY <1>5, <1>6
<1>8. q \in [1..n -> Seq(Pieces)]
  <2>1. <<f[here]>> \in Seq(Pieces) /\ <<>> \in Seq(Pieces)
    BY <1>3, OneTyped
  <2>2. \A k \in 1..n : q[k] \in Seq(Pieces)
    <3> HIDE DEF q, n
    <3> QED BY <1>7, <2>1
  <2>3. q = [k \in 1..n |-> q[k]]
    BY <1>6
  <2> HIDE DEF q, n
  <2> QED
    BY <2>2, <2>3
<1> HIDE DEF q, n
<1>9. q \in Seq(Seq(Pieces)) /\ Len(q) = n
  BY <1>6, <1>8, SequenceOf
<1>10. /\ one \in Seq(Seq(Pieces)) /\ Len(one) = 1 /\ one[1] = <<f[here]>>
       /\ <<f[here]>> \in Seq(Pieces)
  BY <1>3, OneTyped
<1>11. rest \in Seq(Seq(Pieces)) /\ Len(rest) = n - 1 /\ \A k \in 1..(n - 1) : rest[k] = <<>>
  <2>1. rest \in [1..(n - 1) -> Seq(Pieces)]
    BY EmptySeq
  <2>2. \A k \in 1..(n - 1) : rest[k] = <<>>
    OBVIOUS
  <2> HIDE DEF rest
  <2> QED
    BY <1>6, <2>1, <2>2, SequenceOf
<1> HIDE DEF one, rest
<1>12. q = one \o rest
  <2>1. one \in Seq(Seq(Pieces)) /\ rest \in Seq(Seq(Pieces))
    BY <1>10, <1>11
  <2>2. /\ one \o rest \in Seq(Seq(Pieces)) /\ Len(one \o rest) = Len(one) + Len(rest)
        /\ \A k \in 1..(Len(one) + Len(rest)) :
             (one \o rest)[k] = IF k <= Len(one) THEN one[k] ELSE rest[k - Len(one)]
    BY ONLY <2>1, ConcatProperties
  <2>3. Len(one) + Len(rest) = n
    BY <1>6, <1>10, <1>11
  <2>4. ASSUME NEW k \in 1..n PROVE (one \o rest)[k] = q[k]
    <3>1. CASE k = 1
      <4>1. (one \o rest)[k] = one[1]
        BY <1>6, <1>10, <2>2, <2>3, <3>1
      <4>2. q[k] = <<f[here]>>
        BY <1>7, <3>1
      <4> QED
        BY <1>10, <4>1, <4>2
    <3>2. CASE k # 1
      <4>1. k - 1 \in 1..(n - 1) /\ ~(k <= 1)
        BY <1>6, <3>2
      <4> QED
        BY <1>7, <1>10, <1>11, <2>2, <2>3, <3>2, <4>1
    <3> QED
      BY <3>1, <3>2
  <2> QED
    BY <1>9, <2>2, <2>3, <2>4, SeqEqual
<1>13. FlattenSeq(one) = <<f[here]>>
  <2>1. \A k \in 1..1 : k = 1
    OBVIOUS
  <2>2. <<f[here]>>[1] = f[here] /\ Len(<<f[here]>>) = 1
    OBVIOUS
  <2> QED
    BY <1>10, <2>1, <2>2, FlattenSingles
<1>14. FlattenSeq(rest) = <<>>
  BY <1>11, FlattenEmpties
<1>15. <<f[here]>> \o <<>> = <<f[here]>>
  BY <1>10, ConcatEmptySeq
<1>16. FlattenSeq(q) = <<f[here]>>
  <2>1. one \in Seq(Seq(Pieces)) /\ rest \in Seq(Seq(Pieces))
    BY <1>10, <1>11
  <2>2. FlattenSeq(one \o rest) = FlattenSeq(one) \o FlattenSeq(rest)
    BY ONLY <2>1, FlattenConcat
  <2> QED
    BY <1>12, <1>13, <1>14, <1>15, <2>2
<1> QED
  BY <1>16 DEF q, here, e, Between
LEMMA ToSetJoins ==
  ASSUME NEW S, NEW s \in Seq(S), NEW t \in Seq(S)
  PROVE  ToSet(s \o t) = ToSet(s) \cup ToSet(t)
<1> DEFINE m == Len(s)
           n == Len(t)
           c == s \o t
<1>1. /\ m \in Nat /\ n \in Nat /\ c \in Seq(S) /\ Len(c) = m + n
      /\ \A k \in 1..(m + n) : c[k] = IF k <= m THEN s[k] ELSE t[k - m]
  BY LenProperties, ConcatProperties
<1>2. DOMAIN s = 1..m /\ DOMAIN t = 1..n /\ DOMAIN c = 1..(m + n)
  <2> HIDE DEF c
  <2> QED BY <1>1, LenProperties
<1> HIDE DEF m, n, c
<1>3. \A k \in 1..m : k \in 1..(m + n) /\ c[k] = s[k]
  BY <1>1
<1>4. \A k \in 1..n : m + k \in 1..(m + n) /\ c[m + k] = t[k]
  <2> SUFFICES ASSUME NEW k \in 1..n PROVE m + k \in 1..(m + n) /\ c[m + k] = t[k]
    OBVIOUS
  <2>1. m + k \in 1..(m + n) /\ ~(m + k <= m) /\ (m + k) - m = k
    BY <1>1
  <2> QED
    BY <1>1, <2>1
<1>5. \A k \in 1..(m + n) : (k \in 1..m /\ c[k] = s[k]) \/ (k - m \in 1..n /\ c[k] = t[k - m])
  BY <1>1
<1>6. ToSet(c) = ToSet(s) \cup ToSet(t)
  BY <1>2, <1>3, <1>4, <1>5 DEF ToSet
<1> QED
  BY <1>6 DEF c

-----------------------------------------------------------------------------
(***************************************************************************)
(* The inductive invariant: no run is under way, and what has been put out *)
(* is what the parts so far are read as, the runs as _render_run has them. *)
(***************************************************************************)
ReadSoFar(f, o, j) ==
  /\ Renders(f)
  /\ o = Composed(f, j - 1)
  /\ \A r \in Runs : r[2] < j /\ f[r] # Kept => f[r] \in ToSet(o)

NumeralsInv == Transcript /\ NoneUnderWay(i) /\ \E f : ReadSoFar(f, out, i)

LEMMA TextStays ==
  ASSUME text' = text
  PROVE  /\ \A j : NoneUnderWay(j)' <=> NoneUnderWay(j)
         /\ \A f, o, j : ReadSoFar(f, o, j)' <=> ReadSoFar(f, o, j)
<1>1. \A b, e : Stretch(b, e)' <=> Stretch(b, e)
  BY DEF Stretch
<1>2. \A b, e : Tokens(b, e)' = Tokens(b, e)
  BY DEF Tokens
<1>3. Runs' = Runs
  BY <1>1 DEF Runs
<1>4. \A f : Renders(f)' <=> Renders(f)
  BY <1>2, <1>3 DEF Renders
<1>5. \A f, k : Piece(f, k)' = Piece(f, k)
  BY DEF Piece, Written
<1>6. \A f, m : Composed(f, m)' = Composed(f, m)
  BY <1>5 DEF Composed
<1> QED
  BY <1>1, <1>3, <1>4, <1>6 DEF NoneUnderWay, ReadSoFar

LEMMA NumeralsInit ==
  ASSUME Init
  PROVE  NumeralsInv
<1>1. text \in Texts /\ i = 1 /\ out = <<>> /\ Len(text) \in Nat
  BY TranscriptIs DEF Init
<1>2. PICK f : Renders(f)
  BY <1>1, RendersExist
<1>3. Composed(f, i - 1) = <<>>
  <2> DEFINE q == [k \in 1..(i - 1) |-> Piece(f, k)]
  <2>1. q = <<>>
    BY <1>1
  <2>2. Composed(f, i - 1) = FlattenSeq(q)
    BY DEF Composed
  <2> HIDE DEF q
  <2> QED
    BY <2>1, <2>2, FlattenNone
<1>4. \A r \in Runs : ~(r[2] < i)
  <2> SUFFICES ASSUME NEW r \in Runs PROVE ~(r[2] < i)
    OBVIOUS
  <2>1. r[2] \in 1..Len(text)
    BY <1>1, RunIs
  <2> QED
    BY <1>1, <2>1
<1>5. Transcript /\ NoneUnderWay(i)
  BY <1>1 DEF Transcript, NoneUnderWay
<1> QED
  BY <1>1, <1>2, <1>3, <1>4, <1>5 DEF NumeralsInv, ReadSoFar

LEMMA ReadOneMore ==
  ASSUME Transcript, NEW e \in i..Len(text), NoneUnderWay(e + 1),
         NEW f, ReadSoFar(f, out, i),
         \A r \in Runs : r[2] \in i..e /\ f[r] # Kept => f[r] \in ToSet(Between(f, i - 1, e)),
         text' = text, i' = e + 1, out' = out \o Between(f, i - 1, e)
  PROVE  NumeralsInv'
<1>1. /\ text \in Texts /\ Len(text) \in Nat /\ i \in Nat \ {0} /\ e \in Nat
      /\ i <= e /\ e <= Len(text)
  BY TranscriptIs DEF Transcript
<1>2. Renders(f) /\ out = Composed(f, i - 1)
  BY DEF ReadSoFar
<1> DEFINE m == i - 1
<1>3. m \in 0..e /\ m \in 0..Len(text) /\ e \in 0..Len(text) /\ 0 \in 0..m
  BY <1>1
<1> DEFINE w == Between(f, m, e)
<1>4. out \o w = Composed(f, e) /\ Composed(f, e) \in Seq(Pieces) /\ out \in Seq(Pieces)
  <2> HIDE DEF m
  <2>1. /\ Composed(f, e) = Composed(f, m) \o Between(f, m, e)
        /\ Composed(f, e) \in Seq(Pieces)
    BY <1>1, <1>2, <1>3, ComposedMore
  <2>2. Composed(f, m) \in Seq(Pieces)
    BY <1>1, <1>2, <1>3, ComposedMore
  <2>3. out = Composed(f, m)
    BY <1>2 DEF m
  <2> QED
    BY <2>1, <2>2, <2>3
<1>5. w \in Seq(Pieces)
  <2>1. \A k \in 1..(e - m) : Piece(f, m + k) \in Seq(Pieces)
    <3> SUFFICES ASSUME NEW k \in 1..(e - m) PROVE Piece(f, m + k) \in Seq(Pieces)
      OBVIOUS
    <3>1. m + k \in 1..Len(text)
      BY <1>1
    <3> HIDE DEF m
    <3> QED
      BY <1>1, <1>2, <3>1, PieceIs
  <2> DEFINE q == [k \in 1..(e - m) |-> Piece(f, m + k)]
  <2>2. e - m \in Nat
    BY <1>1
  <2>3. q \in [1..(e - m) -> Seq(Pieces)]
    BY <2>1
  <2>4. w = FlattenSeq(q)
    BY DEF Between
  <2> HIDE DEF q, m, w
  <2>5. q \in Seq(Seq(Pieces))
    BY <2>2, <2>3, SequenceOf
  <2> QED
    BY <2>4, <2>5, FlattenTyped
<1>6. \A r \in Runs : r[2] < e + 1 /\ f[r] # Kept => f[r] \in ToSet(out \o w)
  <2> SUFFICES ASSUME NEW r \in Runs, r[2] < e + 1, f[r] # Kept PROVE f[r] \in ToSet(out \o w)
    OBVIOUS
  <2>1. r[2] \in 1..Len(text)
    BY <1>1, RunIs
  <2>2. r[2] < i \/ r[2] \in i..e
    BY <1>1, <2>1
  <2>3. f[r] \in ToSet(out) \/ f[r] \in ToSet(w)
    BY <2>2 DEF ReadSoFar
  <2>4. ToSet(out \o w) = ToSet(out) \cup ToSet(w)
    <3>1. out \in Seq(Pieces) /\ w \in Seq(Pieces)
      BY <1>4, <1>5
    <3> HIDE DEF w
    <3> QED
      BY ONLY <3>1, ToSetJoins
  <2> QED
    BY <2>3, <2>4
<1>7. ReadSoFar(f, out \o w, e + 1)
  <2>1. (e + 1) - 1 = e
    BY <1>1
  <2> HIDE DEF w
  <2> QED
    BY <1>2, <1>4, <1>6, <2>1 DEF ReadSoFar
<1>8. out' = out \o w
  OBVIOUS
<1> HIDE DEF w
<1>9. NoneUnderWay(i)' /\ ReadSoFar(f, out, i)'
  <2>1. NoneUnderWay(e + 1)' /\ ReadSoFar(f, out \o w, e + 1)
    BY <1>7, TextStays
  <2> QED
    BY <1>8, <2>1, TextStays DEF NoneUnderWay, ReadSoFar
<1>10. Transcript'
  <2>1. e + 1 \in 1..(Len(text) + 1)
    BY <1>1
  <2> QED
    BY <1>1, <2>1 DEF Transcript
<1> QED
  BY <1>9, <1>10 DEF NumeralsInv

LEMMA NumeralsStep ==
  ASSUME NumeralsInv, [Next]_vars
  PROVE  NumeralsInv'
<1>1. /\ text \in Texts /\ Len(text) \in Nat /\ i \in 1..(Len(text) + 1)
      /\ Transcript /\ NoneUnderWay(i)
  BY TranscriptIs DEF NumeralsInv, Transcript
<1>2. PICK f : ReadSoFar(f, out, i)
  BY DEF NumeralsInv
<1>3. Renders(f) /\ out = Composed(f, i - 1)
  BY <1>2 DEF ReadSoFar
<1>4. out \in Seq(Pieces)
  <2> DEFINE m == i - 1
  <2>1. m \in 0..Len(text) /\ 0 \in 0..m
    BY <1>1
  <2> HIDE DEF m
  <2>2. Composed(f, m) \in Seq(Pieces)
    BY <1>1, <1>3, <2>1, ComposedMore
  <2> QED
    BY <1>3, <2>2 DEF m
<1>5. CASE Pass
  <2>1. /\ i <= Len(text) /\ i \in i..Len(text) /\ i \in 1..Len(text)
        /\ (text[i] = Blank \/ ~IsNumeral(text[i]))
        /\ text' = text /\ i' = i + 1 /\ out' = Append(out, <<text[i]>>)
    BY <1>1, <1>5 DEF Pass
  <2>2. NoneUnderWay(i + 1) /\ \A r \in Runs : i \notin r[1]..r[2]
    BY <1>1, <2>1, NoRunHere
  <2>3. Between(f, i - 1, i) = <<<<text[i]>>>>
    BY <1>1, <1>3, <2>1, <2>2, OneBetween
  <2>4. out' = out \o Between(f, i - 1, i)
    <3>1. <<text[i]>> \in Pieces
      BY <1>1, <2>1, TranscriptIs DEF Pieces
    <3> QED
      BY <1>4, <2>1, <2>3, <3>1, AppendIsConcat
  <2>5. \A r \in Runs : r[2] \notin i..i
    <3> SUFFICES ASSUME NEW r \in Runs, r[2] \in i..i PROVE FALSE
      OBVIOUS
    <3>1. r[1] \in 1..Len(text) /\ r[2] \in 1..Len(text) /\ r[1] <= r[2]
      BY <1>1, RunIs
    <3>2. i \in r[1]..r[2]
      BY <1>1, <3>1
    <3> QED
      BY <2>2, <3>2
  <2> QED
    BY <1>1, <1>2, <2>1, <2>2, <2>4, <2>5, ReadOneMore
<1>6. ASSUME i <= Len(text), IsNumeral(text[i]), text' = text, i' = RunEnd(i) + 1,
             out' = out \o Between(f, i - 1, RunEnd(i)),
             f[<<i, RunEnd(i)>>] # Kept =>
               f[<<i, RunEnd(i)>>] \in ToSet(Between(f, i - 1, RunEnd(i)))
      PROVE  NumeralsInv'
  <2> DEFINE e == RunEnd(i)
  <2>1. e \in i..Len(text)
    BY <1>1, <1>6, RunEndIs
  <2>2. /\ NoneUnderWay(e + 1)
        /\ \A r \in Runs, k \in i..e : k \in r[1]..r[2] => r = <<i, e>>
    BY <1>1, <1>6, RunHere
  <2>3. f[<<i, e>>] # Kept => f[<<i, e>>] \in ToSet(Between(f, i - 1, e))
    BY <1>6
  <2>4. i' = e + 1 /\ out' = out \o Between(f, i - 1, e)
    BY <1>6
  <2> HIDE DEF e
  <2>5. ASSUME NEW r \in Runs, r[2] \in i..e, f[r] # Kept
        PROVE  f[r] \in ToSet(Between(f, i - 1, e))
    <3>1. r[1] \in 1..Len(text) /\ r[2] \in 1..Len(text) /\ r[1] <= r[2]
      BY <1>1, RunIs
    <3>2. r[2] \in r[1]..r[2]
      BY <3>1
    <3>3. r = <<i, e>>
      BY <2>2, <2>5, <3>2
    <3> QED
      BY <2>3, <2>5, <3>3
  <2> QED
    BY <1>1, <1>2, <1>6, <2>1, <2>2, <2>4, <2>5, ReadOneMore
<1>7. ASSUME i <= Len(text), IsNumeral(text[i])
      PROVE  LET here == <<i, RunEnd(i)>>
                 rendered == Rendered(Tokens(i, RunEnd(i)))
             IN  IF rendered = {} THEN f[here] = Kept
                 ELSE f[here] \in rendered /\ f[here] # Kept
  <2> DEFINE e == RunEnd(i)
             here == <<i, e>>
  <2>1. here \in Runs
    BY <1>1, <1>7, RunHere
  <2>2. here[1] = i /\ here[2] = e
    OBVIOUS
  <2>3. f[here] \in {Kept} \cup Figures
    BY <1>3, <2>1 DEF Renders
  <2>4. Tokens(i, e) \in Seq(Units \cup Decimal)
    <3> HIDE DEF e
    <3> QED BY <1>1, <2>1, <2>2, RunIs
  <2>5. \A d \in Rendered(Tokens(i, e)) : d # Kept
    BY <2>4, RenderedTyped, KeptIsNoFigure
  <2>6. IF Rendered(Tokens(i, e)) = {} THEN f[here] = Kept ELSE f[here] \in Rendered(Tokens(i, e))
    <3> HIDE DEF e, here
    <3> QED BY <1>3, <2>1, <2>2 DEF Renders
  <2> HIDE DEF e, here
  <2>7. IF Rendered(Tokens(i, e)) = {} THEN f[here] = Kept
        ELSE f[here] \in Rendered(Tokens(i, e)) /\ f[here] # Kept
    BY <2>5, <2>6
  <2> QED
    BY <2>7 DEF e, here
<1>8. CASE KeepRun
  <2>1. /\ i <= Len(text) /\ IsNumeral(text[i]) /\ Rendered(Tokens(i, RunEnd(i))) = {}
        /\ text' = text /\ i' = RunEnd(i) + 1 /\ out' = out \o AsIs(i, RunEnd(i))
    BY <1>8 DEF KeepRun
  <2>2. f[<<i, RunEnd(i)>>] = Kept
    BY <1>7, <2>1
  <2>3. Between(f, i - 1, RunEnd(i)) = AsIs(i, RunEnd(i))
    BY <1>1, <1>3, <2>1, <2>2, KeptBetween
  <2> QED
    BY <1>6, <2>1, <2>2, <2>3
<1>9. CASE RewriteRun
  <2> DEFINE e == RunEnd(i)
             here == <<i, e>>
  <2>1. i <= Len(text) /\ IsNumeral(text[i]) /\ text' = text /\ i' = e + 1
    BY <1>9 DEF RewriteRun
  <2>2. PICK d \in Rendered(Tokens(i, e)) : out' = Append(out, d)
    BY <1>9 DEF RewriteRun
  <2>3. f[here] \in Rendered(Tokens(i, e)) /\ f[here] # Kept
    BY <1>7, <2>1, <2>2
  <2>4. f[here] = d
    <3> HIDE DEF e, here
    <3> QED BY <2>2, <2>3, RenderedOnce
  <2>5. Between(f, i - 1, e) = <<f[here]>>
    BY <1>1, <1>3, <2>1, <2>3, FigureBetween
  <2>6. d \in Pieces
    <3>1. here \in Runs
      BY <1>1, <2>1, RunHere
    <3> HIDE DEF e, here
    <3>2. f[here] \in {Kept} \cup Figures
      BY <1>3, <3>1 DEF Renders
    <3> QED
      BY <2>3, <2>4, <3>2 DEF Pieces
  <2>7. f[here] \in ToSet(<<f[here]>>)
    <3>1. 1 \in DOMAIN <<f[here]>> /\ <<f[here]>>[1] = f[here]
      OBVIOUS
    <3> HIDE DEF here
    <3> QED
      BY <3>1 DEF ToSet
  <2>8. out' = out \o <<f[here]>>
    <3> HIDE DEF e, here
    <3> QED BY <1>4, <2>2, <2>4, <2>6, AppendIsConcat
  <2> QED
    BY <1>6, <2>1, <2>5, <2>7, <2>8
<1>10. CASE UNCHANGED vars
  <2>1. text' = text /\ i' = i /\ out' = out
    BY <1>10 DEF vars
  <2>2. NoneUnderWay(i)' /\ ReadSoFar(f, out, i)'
    BY <1>1, <1>2, <2>1, TextStays DEF NoneUnderWay, ReadSoFar
  <2> QED
    BY <1>1, <2>1, <2>2 DEF NumeralsInv, Transcript
<1> QED
  BY <1>5, <1>8, <1>9, <1>10 DEF Next, Done

(***************************************************************************)
(* The text as a whole is read as _render_run has its runs.                *)
(***************************************************************************)
LEMMA TextIsRead ==
  ASSUME NumeralsInv, i > Len(text)
  PROVE  \E f \in Readings : Renders(f)
<1>1. text \in Texts /\ Len(text) \in Nat /\ i = Len(text) + 1
  BY TranscriptIs DEF NumeralsInv, Transcript
<1>2. PICK f : ReadSoFar(f, out, i)
  BY DEF NumeralsInv
<1>3. Renders(f) /\ out = Composed(f, Len(text))
  BY <1>1, <1>2 DEF ReadSoFar
<1>4. ASSUME NEW r \in Runs PROVE f[r] \in {Kept} \cup {p \in ToSet(out) : Len(p) = 3}
  <2>1. r[2] < i
    <3>1. r[2] \in 1..Len(text)
      BY <1>1, RunIs
    <3> QED
      BY <1>1, <3>1
  <2>2. f[r] # Kept => f[r] \in ToSet(out) /\ f[r] \in Figures
    BY <1>2, <1>3, <2>1 DEF ReadSoFar, Renders
  <2> QED
    BY <2>2, KeptIsNoFigure
<1>5. f \in [Runs -> {Kept} \cup {p \in ToSet(out) : Len(p) = 3}]
  BY <1>3, <1>4 DEF Renders
<1> QED
  BY <1>3, <1>5 DEF Readings

(***************************************************************************)
(* A run of numerals is written as one number or comes out with all of its *)
(* words and blanks, and everything about the runs comes out as it went in.*)
(***************************************************************************)
THEOREM WordsSurvive == Spec => []OtherWordsSurvive
<1>1. Init => NumeralsInv
  BY NumeralsInit
<1>2. NumeralsInv /\ [Next]_vars => NumeralsInv'
  BY NumeralsStep
<1>3. NumeralsInv => OtherWordsSurvive
  BY TextIsRead DEF OtherWordsSurvive
<1> QED
  BY <1>1, <1>2, <1>3, PTL DEF Spec
-----------------------------------------------------------------------------
(***************************************************************************)
(* What _parse_int makes of the words of a number so far: a total, what is *)
(* being counted, and whether there has been a scale, which there has once *)
(* the number is a hundred.                                                *)
(***************************************************************************)
HasScale(t) == \E k \in 1..Len(t) : t[k] \in DOMAIN Scales

Makes(t, total, current) ==
  /\ t \in Seq(Units)
  /\ Heard(t) = [total |-> total, current |-> current]
  /\ HasScale(t) <=> total + current >= 100

LEMMA HasScaleOneMore ==
  ASSUME NEW t \in Seq(Units), NEW x \in Units
  PROVE  HasScale(Append(t, x)) <=> HasScale(t) \/ x \in DOMAIN Scales
<1> DEFINE c == Append(t, x)
           n == Len(t)
<1>1. n \in Nat /\ Len(c) = n + 1 /\ c[n + 1] = x /\ \A k \in 1..n : c[k] = t[k]
  BY OneMore
<1> HIDE DEF c, n
<1>2. \A k \in 1..(n + 1) : k \in 1..n \/ k = n + 1
  BY <1>1
<1>3. (\A k \in 1..n : k \in 1..(n + 1)) /\ n + 1 \in 1..(n + 1)
  BY <1>1
<1>4. (\E k \in 1..(n + 1) : c[k] \in DOMAIN Scales)
        <=> (\E k \in 1..n : t[k] \in DOMAIN Scales) \/ x \in DOMAIN Scales
  BY <1>1, <1>2, <1>3
<1> QED
  BY <1>1, <1>4 DEF HasScale, c, n

\* The word for a small number, or none for zero.
LEMMA OnesMake ==
  ASSUME NEW t, NEW total \in Nat, NEW current \in Nat, Makes(t, total, current),
         total + current = 0 \/ total + current >= 100,
         NEW n \in 0..99, NEW o \in Ones(n)
  PROVE  o \in Seq(Units) /\ t \o o \in Seq(Units) /\ Makes(t \o o, total, current + n)
<1>1. t \in Seq(Units) /\ Heard(t) = [total |-> total, current |-> current]
      /\ (HasScale(t) <=> total + current >= 100)
  BY DEF Makes
<1>2. CASE o = <<>> /\ n = 0
  <2>1. t \o o = t /\ o \in Seq(Units)
    BY <1>1, <1>2, ConcatEmptySeq
  <2>2. current + n = current
    BY <1>2
  <2> QED
    BY <1>1, <2>1, <2>2
<1>3. CASE \E w \in DOMAIN Small : Small[w] = n /\ o = <<w>>
  <2>1. PICK w \in DOMAIN Small : Small[w] = n /\ o = <<w>>
    BY <1>3
  <2>2. w \in Units /\ w \notin DOMAIN Scales /\ o \in Seq(Units)
    BY <2>1, VocabularyIs, OneTyped DEF Units
  <2>3. t \o o = Append(t, w)
    BY <1>1, <2>1, <2>2, AppendIsConcat
  <2> DEFINE c == Append(t, w)
  <2>4. c \in Seq(Units) /\ Heard(c) = Read(Heard(t), w) /\ (HasScale(c) <=> HasScale(t))
    BY <1>1, <2>2, OneMore, HeardOneMore, HasScaleOneMore
  <2>5. Read(Heard(t), w) = [total |-> total, current |-> current + n]
    BY <1>1, <2>1 DEF Read
  <2>6. total + (current + n) >= 100 <=> total + current >= 100
    OBVIOUS
  <2> HIDE DEF c
  <2>7. Makes(c, total, current + n)
    BY <1>1, <2>4, <2>5, <2>6 DEF Makes
  <2> QED
    BY <2>2, <2>3, <2>4, <2>7 DEF c
<1> QED
  BY <1>2, <1>3 DEF Ones

\* A scale closes what it counts, a hundred but holds it.
LEMMA ScaleMakes ==
  ASSUME NEW u, NEW total \in Nat, NEW n \in Nat \ {0}, NEW m \in Nat, m = n \/ (m = 0 /\ n = 1),
         Makes(u, total, m), NEW s \in DOMAIN Scales
  PROVE  /\ Append(u, s) \in Seq(Units)
         /\ Scales[s] = 100 => Makes(Append(u, s), total, n * 100)
         /\ Scales[s] # 100 => Makes(Append(u, s), total + n * Scales[s], 0)
<1> DEFINE c == Append(u, s)
<1>1. u \in Seq(Units) /\ s \in Units /\ s \notin DOMAIN Small
  BY VocabularyIs DEF Makes, Units
<1>2. c \in Seq(Units) /\ Heard(c) = Read(Heard(u), s) /\ HasScale(c)
  BY <1>1, OneMore, HeardOneMore, HasScaleOneMore
<1>3. Heard(u) = [total |-> total, current |-> m] /\ (IF m = 0 THEN 1 ELSE m) = n
  BY DEF Makes
<1> HIDE DEF c
<1>4. CASE Scales[s] = 100
  <2>1. Heard(c) = [total |-> total, current |-> n * 100]
    BY <1>1, <1>2, <1>3, <1>4 DEF Read
  <2>2. total + n * 100 >= 100
    OBVIOUS
  <2>3. Makes(c, total, n * 100)
    BY <1>2, <2>1, <2>2 DEF Makes
  <2> QED
    BY <1>2, <1>4, <2>3 DEF c
<1>5. CASE Scales[s] # 100
  <2>1. Heard(c) = [total |-> total + n * Scales[s], current |-> 0]
    BY <1>1, <1>2, <1>3, <1>5 DEF Read
  <2>2. Scales[s] \in {1000, 100000, 10000000}
    BY <1>5, NumeralsAssumption
  <2>3. n * Scales[s] >= 100
    <3>1. n * 1000 >= 100 /\ n * 100000 >= 100 /\ n * 10000000 >= 100
      OBVIOUS
    <3> QED
      BY <2>2, <3>1
  <2>4. (total + n * Scales[s]) + 0 >= 100
    <3>1. n * Scales[s] \in Nat
      BY <2>2
    <3> DEFINE v == n * Scales[s]
    <3> HIDE DEF v
    <3>2. v \in Nat /\ v >= 100
      BY <2>3, <3>1 DEF v
    <3>3. (total + v) + 0 >= 100
      BY <3>2
    <3> QED
      BY <3>3 DEF v
  <2>5. Makes(c, total + n * Scales[s], 0)
    BY <1>2, <2>1, <2>4 DEF Makes
  <2> QED
    BY <1>2, <1>5, <2>5 DEF c
<1> QED
  BY <1>4, <1>5

\* So many of a scale, however their number is said.
LEMMA CountedMakes ==
  ASSUME NEW t, NEW total \in Nat, Makes(t, total, 0), NEW n \in Nat, NEW ways,
         n # 0 => \A c \in ways : c \in Seq(Units) /\ Makes(t \o c, total, n),
         NEW scale \in Nat, NEW x \in Counted(n, ways, scale)
  PROVE  /\ x \in Seq(Units) /\ t \o x \in Seq(Units)
         /\ scale = 100 => Makes(t \o x, total, n * 100)
         /\ scale # 100 => Makes(t \o x, total + n * scale, 0)
<1>1. t \in Seq(Units)
  BY DEF Makes
<1>2. CASE n = 0
  <2>1. x = <<>> /\ x \in Seq(Units) /\ t \o x = t
    BY <1>1, <1>2, ConcatEmptySeq DEF Counted
  <2>2. n * 100 = 0 /\ total + n * scale = total
    BY <1>2
  <2> QED
    BY <1>1, <2>1, <2>2
<1>3. CASE n # 0
  <2> DEFINE A == ways \cup (IF n = 1 THEN {<<>>} ELSE {})
             B == {s \in DOMAIN Scales : Scales[s] = scale}
  <2>0. PICK c \in A, s \in B : x = Append(c, s)
    <3>1. Counted(n, ways, scale) = {Append(c, s) : c \in A, s \in B}
      BY <1>3 DEF Counted
    <3> HIDE DEF A, B
    <3> QED
      BY ONLY <3>1
  <2>1. /\ c \in ways \/ (c = <<>> /\ n = 1)
        /\ s \in DOMAIN Scales /\ Scales[s] = scale /\ x = Append(c, s)
    <3>1. c \in A /\ s \in B /\ x = Append(c, s)
      BY <2>0
    <3> QED
      BY <3>1, Zenon
  <2> HIDE DEF A, B
  <2>2. PICK m \in Nat : (m = n \/ (m = 0 /\ n = 1)) /\ c \in Seq(Units) /\ Makes(t \o c, total, m)
    <3>1. CASE c \in ways
      BY <1>3, <3>1
    <3>2. CASE c = <<>> /\ n = 1
      <4>1. t \o c = t /\ c \in Seq(Units)
        BY <1>1, <3>2, ConcatEmptySeq
      <4> QED
        BY <3>2, <4>1
    <3> QED
      BY <2>1, <3>1, <3>2
  <2> DEFINE u == t \o c
             l == <<s>>
  <2>3. s \in Units /\ l \in Seq(Units)
    BY <2>1, OneTyped DEF Units
  <2>4. u \in Seq(Units) /\ x = c \o l /\ u \o l = Append(u, s)
    <3>1. u \in Seq(Units) /\ x = c \o l
      <4>1. u \in Seq(Units) /\ c \in Seq(Units)
        BY <2>2 DEF Makes
      <4> HIDE DEF u
      <4> QED
        BY <2>1, <2>3, <4>1, AppendIsConcat
    <3> HIDE DEF u
    <3> QED
      BY <2>3, <3>1, AppendIsConcat
  <2>5. t \o x = Append(u, s) /\ x \in Seq(Units)
    <3>1. c \in Seq(Units)
      BY <2>2
    <3> HIDE DEF l
    <3>2. t \in Seq(Units) /\ c \in Seq(Units) /\ l \in Seq(Units)
      BY <1>1, <2>3, <3>1
    <3>3. (t \o c) \o l = t \o (c \o l)
      BY ONLY <3>2, ConcatAssociative
    <3>4. c \o l \in Seq(Units)
      BY ONLY <3>2, ConcatProperties
    <3> QED
      BY <2>4, <3>3, <3>4
  <2>6. /\ Append(u, s) \in Seq(Units)
        /\ Scales[s] = 100 => Makes(Append(u, s), total, n * 100)
        /\ Scales[s] # 100 => Makes(Append(u, s), total + n * Scales[s], 0)
    <3>1. Makes(u, total, m) /\ n \in Nat \ {0}
      BY <1>3, <2>2
    <3> HIDE DEF u
    <3> QED
      BY <2>1, <2>2, <3>1, ScaleMakes
  <2> DEFINE w == Append(u, s)
  <2>7. /\ scale = 100 => Makes(w, total, n * 100)
        /\ scale # 100 => Makes(w, total + n * scale, 0)
    <3>1. Scales[s] = scale
      BY <2>1
    <3> QED
      BY ONLY <2>6, <3>1, Zenon
  <2>8. t \o x = w /\ w \in Seq(Units) /\ x \in Seq(Units)
    BY <2>5, <2>6
  <2> HIDE DEF u, l, w
  <2> QED
    BY ONLY <2>7, <2>8, Zenon
<1> QED
  BY <1>2, <1>3

\* One after the other; nothing yet, or with a scale; what scales are counted by.
Then(a, b) == a \o b
Scaled(v) == v = 0 \/ v >= 100
Counts == 0..999

LEMMA BelowThousandMakes ==
  ASSUME NEW t, NEW total \in Nat, Makes(t, total, 0), Scaled(total),
         NEW n \in Counts, NEW x \in BelowThousand(n)
  PROVE  x \in Seq(Units) /\ t \o x \in Seq(Units) /\ Makes(t \o x, total, n)
<1> DEFINE a == n \div 100
           b == n % 100
<1>1. a \in 0..99 /\ a \in Nat /\ b \in 0..99 /\ a * 100 + b = n /\ a * 100 \in Nat
  BY DEF Counts
<1> HIDE DEF a, b
<1>2. PICK h \in Counted(a, Ones(a), 100), o \in Ones(b) : x = Then(h, o)
  <2> DEFINE A == Counted(a, Ones(a), 100)
             B == Ones(b)
  <2>1. BelowThousand(n) = {Then(h, o) : h \in A, o \in B}
    BY DEF BelowThousand, Then, a, b
  <2> HIDE DEF A, B
  <2>2. \E h \in A, o \in B : x = Then(h, o)
    BY ONLY <2>1
  <2> QED
    BY <2>2, Zenon DEF A, B
<1>3. t \in Seq(Units) /\ (total + 0 = 0 \/ total + 0 >= 100) /\ 0 \in Nat
  BY DEF Makes, Scaled
<1>4. \A c \in Ones(a) : c \in Seq(Units) /\ Makes(t \o c, total, a)
  <2> SUFFICES ASSUME NEW c \in Ones(a) PROVE c \in Seq(Units) /\ Makes(t \o c, total, a)
    OBVIOUS
  <2>1. c \in Seq(Units) /\ Makes(t \o c, total, 0 + a)
    <3>1. /\ Makes(t, total, 0) /\ 0 \in Nat /\ a \in 0..99
          /\ (total + 0 = 0 \/ total + 0 >= 100)
      BY <1>1, <1>3
    <3> QED
      BY ONLY <3>1, OnesMake, ZenonT(30)
  <2>2. 0 + a = a
    BY <1>1
  <2> QED
    BY <2>1, <2>2
<1>5. h \in Seq(Units) /\ t \o h \in Seq(Units) /\ Makes(t \o h, total, a * 100)
  BY <1>1, <1>4, CountedMakes
<1> DEFINE u == t \o h
           v == a * 100
<1>6. total + v = 0 \/ total + v >= 100
  <2>1. v = 0 \/ v >= 100
    BY <1>1
  <2> QED
    BY <1>1, <2>1 DEF Scaled
<1>7. u \in Seq(Units) /\ Makes(u, total, v) /\ v \in Nat /\ v + b = n
  BY <1>1, <1>5
<1> HIDE DEF u, v
<1>8. o \in Seq(Units) /\ u \o o \in Seq(Units) /\ Makes(u \o o, total, v + b)
  BY <1>1, <1>6, <1>7, OnesMake
<1>9. t \o x = u \o o /\ x \in Seq(Units)
  <2>1. t \in Seq(Units) /\ h \in Seq(Units) /\ o \in Seq(Units)
    BY <1>3, <1>5, <1>8
  <2>2. (t \o h) \o o = t \o (h \o o)
    BY ONLY <2>1, ConcatAssociative
  <2>3. h \o o \in Seq(Units)
    BY ONLY <2>1, ConcatProperties
  <2> QED
    BY <1>2, <2>2, <2>3 DEF u, Then
<1> QED
  BY <1>7, <1>8, <1>9

\* The scales other than a hundred.
Closing == {1000, 100000, 10000000}

LEMMA GroupMakes ==
  ASSUME NEW t, NEW total \in Nat, Makes(t, total, 0), Scaled(total),
         NEW n \in Counts, NEW scale \in Closing, NEW x \in Group(n, scale)
  PROVE  /\ x \in Seq(Units) /\ t \o x \in Seq(Units)
         /\ Makes(t \o x, total + n * scale, 0)
         /\ total + n * scale \in Nat
         /\ Scaled(total + n * scale)
<1>1. x \in Counted(n, BelowThousand(n), scale) /\ n \in Nat
      /\ scale \in Nat /\ scale # 100
  <2>1. x \in Counted(n, BelowThousand(n), scale) /\ n \in Nat
    BY DEF Group, Counts
  <2>2. \A v \in Closing : v \in Nat /\ v # 100
    BY DEF Closing
  <2> QED
    BY <2>1, <2>2
<1>2. \A c \in BelowThousand(n) : c \in Seq(Units) /\ Makes(t \o c, total, n)
  <2>1. Makes(t, total, 0) /\ Scaled(total)
    OBVIOUS
  <2> SUFFICES ASSUME NEW c \in BelowThousand(n)
               PROVE  c \in Seq(Units) /\ Makes(t \o c, total, n)
    OBVIOUS
  <2> QED
    BY <2>1, BelowThousandMakes, Zenon
<1>3. x \in Seq(Units) /\ t \o x \in Seq(Units) /\ Makes(t \o x, total + n * scale, 0)
  BY <1>1, <1>2, CountedMakes
<1>4. n * 1000 \in Nat /\ n * 100000 \in Nat /\ n * 10000000 \in Nat
  BY <1>1
<1>5. n # 0 => n * 1000 >= 100 /\ n * 100000 >= 100 /\ n * 10000000 >= 100
  BY <1>1
<1>6. n * scale \in Nat /\ (n * scale = 0 \/ n * scale >= 100)
  <2>1. \A v \in Closing : n * v \in Nat /\ (n * v = 0 \/ n * v >= 100)
    BY <1>1, <1>4, <1>5 DEF Closing
  <2> QED
    BY <2>1
<1> DEFINE v == n * scale
<1> HIDE DEF v
<1>7. v \in Nat /\ (v = 0 \/ v >= 100)
  BY <1>6 DEF v
<1>8. total + v \in Nat /\ Scaled(total + v)
  BY <1>7 DEF Scaled
<1> QED
  BY <1>3, <1>8 DEF v

\* What a crore, a lakh and a thousand are.
Koti == 10000000
Lakh == 100000
Hajar == 1000

(***************************************************************************)
(* What _parse_int hears of the spelling of a number is that number, and   *)
(* it has a scale if it is a hundred or more.                              *)
(***************************************************************************)
LEMMA SpellingIs ==
  ASSUME NEW n \in Numbers, NEW s \in Spelling(n)
  PROVE  /\ s \in Seq(Units) /\ ParseInt(s) = Value(n) /\ Value(n) \in Nat
         /\ HasScale(s) <=> Value(n) >= 100
<1> DEFINE C == n.crore * Koti
           L == n.lakh * Lakh
           H == n.hajar * Hajar
<1>1. n.crore \in Counts /\ n.lakh \in Counts /\ n.hajar \in Counts /\ n.rest \in Counts
  <2>1. n \in [crore : Counts, lakh : Counts, hajar : Counts, rest : Counts]
    BY NumbersAssumption DEF Counts
  <2> QED
    BY <2>1
<1>2. PICK c \in Group(n.crore, Koti), l \in Group(n.lakh, Lakh),
           h \in Group(n.hajar, Hajar), r \in BelowThousand(n.rest) : s = ((c \o l) \o h) \o r
  <2> DEFINE M == Group(n.crore, Koti)
             K == Group(n.lakh, Lakh)
             T == Group(n.hajar, Hajar)
             U == BelowThousand(n.rest)
  <2>1. Spelling(n) = {Then(Then(Then(c, l), h), r) : c \in M, l \in K, h \in T, r \in U}
    BY DEF Spelling, Then, Koti, Lakh, Hajar
  <2> HIDE DEF M, K, T, U
  <2>2. \E c \in M, l \in K, h \in T, r \in U : s = Then(Then(Then(c, l), h), r)
    BY ONLY <2>1
  <2> QED
    BY <2>2, Zenon DEF Then, M, K, T, U
<1> DEFINE e == <<>>
<1>3. Makes(e, 0, 0)
  <2>1. e \in Seq(Units) /\ Len(e) = 0
    OBVIOUS
  <2> HIDE DEF e
  <2>2. Heard(e) = [total |-> 0, current |-> 0]
    BY <2>1, HeardNone DEF Silence
  <2>3. ~HasScale(e)
    BY <2>1 DEF HasScale
  <2>4. ~(0 + 0 >= 100)
    OBVIOUS
  <2> QED
    BY <2>1, <2>2, <2>3, <2>4 DEF Makes
<1>4. Koti \in Closing /\ Lakh \in Closing /\ Hajar \in Closing /\ 0 \in Nat /\ Scaled(0)
  BY DEF Koti, Lakh, Hajar, Closing, Scaled
<1> DEFINE C0 == 0 + C
<1>5. Makes(c, C0, 0) /\ C0 \in Nat /\ Scaled(C0)
  <2> HIDE DEF e
  <2>1. c \in Seq(Units) /\ Makes(e \o c, 0 + C, 0) /\ 0 + C \in Nat /\ Scaled(0 + C)
    BY <1>1, <1>2, <1>3, <1>4, GroupMakes, ZenonT(30)
  <2>2. e \o c = c
    BY <2>1, ConcatEmptySeq DEF e
  <2> HIDE DEF C
  <2> QED
    BY <2>1, <2>2, Zenon
<1> HIDE DEF C, e, C0
<1> DEFINE cl == c \o l
           CL == C0 + L
<1>6. Makes(cl, CL, 0) /\ CL \in Nat /\ Scaled(CL)
  BY <1>1, <1>2, <1>4, <1>5, GroupMakes, ZenonT(30)
<1> HIDE DEF cl, CL
<1> DEFINE clh == cl \o h
           CLH == CL + H
<1>8. Makes(clh, CLH, 0) /\ CLH \in Nat /\ Scaled(CLH)
  BY <1>1, <1>2, <1>4, <1>6, GroupMakes, ZenonT(30)
<1> HIDE DEF clh, CLH
<1>9. Makes(clh \o r, CLH, n.rest)
  BY <1>1, <1>2, <1>8, BelowThousandMakes, ZenonT(30)
<1>10. s = clh \o r
  BY <1>2, Zenon DEF cl, clh
<1>11. Value(n) = CLH + n.rest /\ Value(n) \in Nat
  <2> DEFINE k == n.crore
             l1 == n.lakh
             h1 == n.hajar
             r1 == n.rest
  <2>1. k \in Nat /\ l1 \in Nat /\ h1 \in Nat /\ r1 \in Nat
    <3>1. \A v \in Counts : v \in Nat
      BY DEF Counts
    <3> QED
      BY <1>1, <3>1, Zenon
  <2>2. Value(n) = k * Koti + l1 * Lakh + h1 * Hajar + r1
    BY DEF Value, Koti, Lakh, Hajar
  <2>3. CLH = ((0 + k * Koti) + l1 * Lakh) + h1 * Hajar
    BY DEF CLH, CL, C0, C
  <2> HIDE DEF k, l1, h1, r1
  <2>4. /\ k * Koti + l1 * Lakh + h1 * Hajar + r1 =
             (((0 + k * Koti) + l1 * Lakh) + h1 * Hajar) + r1
        /\ k * Koti + l1 * Lakh + h1 * Hajar + r1 \in Nat
    BY <2>1 DEF Koti, Lakh, Hajar
  <2> QED
    BY <2>2, <2>3, <2>4, Zenon DEF r1
<1> QED
  BY <1>9, <1>10, <1>11 DEF Makes, ParseInt
(***************************************************************************)
(* What is made of the spelling of a number, and of one with a fraction.   *)
(***************************************************************************)
LEMMA SpellingRendered ==
  ASSUME NEW n \in Numbers, NEW s \in Spelling(n)
  PROVE  Rendered(s) = IF Value(n) >= MinValue \/ Value(n) >= 100
                       THEN {Digits(Value(n), <<>>)} ELSE {}
<1>1. /\ s \in Seq(Units) /\ ParseInt(s) = Value(n) /\ Value(n) \in Nat
      /\ HasScale(s) <=> Value(n) >= 100
  BY SpellingIs
<1>2. \A k \in 1..Len(s) : s[k] \notin Decimal
  BY <1>1, ElementOfSeq, VocabularyIs
<1>3. {k \in 1..Len(s) : s[k] \in Decimal} = {}
  BY <1>2
<1>4. (\E t \in ToSet(s) : t \in DOMAIN Scales) <=> HasScale(s)
  <2>1. DOMAIN s = 1..Len(s)
    BY <1>1, LenProperties
  <2> QED
    BY <2>1 DEF ToSet, HasScale
<1>5. Rendered(s) = {Digits(v, <<>>) : v \in {v \in {ParseInt(s)} :
                       v >= MinValue \/ \E t \in ToSet(s) : t \in DOMAIN Scales}}
  BY <1>3 DEF Rendered
<1> DEFINE V == {v \in {ParseInt(s)} :
                   v >= MinValue \/ \E t \in ToSet(s) : t \in DOMAIN Scales}
<1>6. V = IF Value(n) >= MinValue \/ Value(n) >= 100 THEN {Value(n)} ELSE {}
  BY <1>1, <1>4
<1>7. Rendered(s) = {Digits(v, <<>>) : v \in V}
  BY <1>5
<1> HIDE DEF V
<1> QED
  BY <1>6, <1>7

LEMMA OneHeard ==
  ASSUME NEW x \in DOMAIN Small
  PROVE  ParseInt(<<x>>) = Small[x]
<1>1. Makes(<<>>, 0, 0) /\ 0 \in Nat
  <2> DEFINE e == <<>>
  <2>1. e \in Seq(Units) /\ Len(e) = 0
    OBVIOUS
  <2> HIDE DEF e
  <2>2. Heard(e) = [total |-> 0, current |-> 0]
    BY <2>1, HeardNone DEF Silence
  <2>3. ~HasScale(e)
    BY <2>1 DEF HasScale
  <2>4. ~(0 + 0 >= 100)
    OBVIOUS
  <2>5. Makes(e, 0, 0)
    BY <2>1, <2>2, <2>3, <2>4 DEF Makes
  <2> QED
    BY <2>5 DEF e
<1>2. x \in Units /\ Small[x] \in Nat
  BY VocabularyIs DEF Units
<1> DEFINE e == <<>>
           c == Append(e, x)
<1>3. e \in Seq(Units) /\ Heard(e) = [total |-> 0, current |-> 0]
  BY <1>1 DEF Makes
<1>4. c = <<x>>
  BY <1>2
<1> HIDE DEF e
<1>5. Heard(c) = Read(Heard(e), x)
  BY <1>2, <1>3, HeardOneMore
<1>6. Heard(c) = [total |-> 0, current |-> 0 + Small[x]]
  BY <1>3, <1>5 DEF Read
<1> HIDE DEF c
<1>7. ParseInt(c) = Small[x]
  BY <1>2, <1>6 DEF ParseInt
<1> QED
  BY <1>4, <1>7

LEMMA FractionRendered ==
  ASSUME NEW t \in Seq(Units \cup Decimal), NEW n \in Numbers, NEW k \in 1..(Len(t) - 1),
         SubSeq(t, 1, k - 1) \in Spelling(n), t[k] \in Decimal,
         \A j \in (k + 1)..Len(t) : t[j] \in DOMAIN Small
  PROVE  Rendered(t) = {Digits(Value(n), [j \in 1..(Len(t) - k) |-> Small[t[k + j]]])}
<1> DEFINE m == Len(t)
           points == {j \in 1..m : t[j] \in Decimal}
           u == SubSeq(t, 1, k - 1)
           a == SubSeq(t, k + 1, m)
           whole(j) == ParseInt(SubSeq(t, 1, j - 1))
           after(j) == SubSeq(t, j + 1, m)
           fraction(j) == [l \in 1..Len(after(j)) |-> ParseInt(<<after(j)[l]>>)]
<1>1. m \in Nat /\ k \in 1..m /\ k < m /\ \A j \in 1..m : t[j] \in Units \cup Decimal
  BY ElementOfSeq, LenProperties
<1>2. u \in Seq(Units) /\ ParseInt(u) = Value(n)
  BY SpellingIs
<1>3. Len(u) = k - 1 /\ \A j \in 1..(k - 1) : u[j] = t[j]
  <2>1. u = [j \in 1..(k - 1) |-> t[j]]
    BY <1>1
  <2>2. k - 1 \in Nat /\ k - 1 <= m
    BY <1>1
  <2>3. Len(u) = k - 1
    BY <1>1, <2>2
  <2> QED
    BY <2>1, <2>3
<1>4. a = [j \in 1..(m - k) |-> t[k + j]] /\ Len(a) = m - k /\ m - k \in Nat \ {0}
  BY <1>1
<1>5. points = {k}
  <2>1. k \in points
    BY <1>1
  <2>2. ASSUME NEW j \in 1..m, j # k PROVE t[j] \notin Decimal
    <3>1. CASE j < k
      <4>1. j \in 1..(k - 1) /\ j \in 1..Len(u)
        BY <1>1, <1>3, <3>1
      <4> HIDE DEF u
      <4>2. u[j] \in Units
        BY <1>2, <4>1, ElementOfSeq
      <4> QED
        BY <1>3, <4>1, <4>2, VocabularyIs
    <3>2. CASE j > k
      <4>1. j \in (k + 1)..Len(t)
        BY <1>1, <3>2
      <4>2. t[j] \in Units
        BY <4>1 DEF Units
      <4> QED
        BY <4>2, VocabularyIs
    <3> QED
      BY <1>1, <2>2, <3>1, <3>2
  <2> QED
    BY <2>1, <2>2
<1>6. fraction(k) = [j \in 1..(m - k) |-> Small[t[k + j]]]
  <2>1. fraction(k) = [l \in 1..(m - k) |-> ParseInt(<<a[l]>>)]
    BY <1>4
  <2>2. ASSUME NEW j \in 1..(m - k) PROVE ParseInt(<<a[j]>>) = Small[t[k + j]]
    <3>1. a[j] = t[k + j]
      <4> HIDE DEF a
      <4> QED BY <1>4
    <3>2. k + j \in (k + 1)..m
      BY <1>1
    <3> HIDE DEF a
    <3>3. a[j] \in DOMAIN Small
      BY <3>1, <3>2
    <3> QED
      BY <3>1, <3>3, OneHeard
  <2> HIDE DEF a, fraction
  <2> QED
    BY <2>1, <2>2
<1>7. Rendered(t) = {Digits(whole(j), fraction(j)) :
                       j \in {j \in points : points = {j} /\ after(j) # <<>>}}
  BY <1>5 DEF Rendered
<1>8. {j \in points : points = {j} /\ after(j) # <<>>} = {k}
  <2>1. after(k) # <<>>
    <3>1. Len(a) # 0 /\ after(k) = a
      BY <1>4
    <3> HIDE DEF a, after
    <3> QED
      BY <3>1
  <2> HIDE DEF after, points
  <2> QED
    BY <1>5, <2>1
<1> DEFINE P(j) == Digits(whole(j), fraction(j))
           J == {j \in points : points = {j} /\ after(j) # <<>>}
<1>9. Rendered(t) = {P(j) : j \in J}
  BY <1>7
<1>10. J = {k}
  BY <1>8
<1>11. P(k) = Digits(Value(n), [j \in 1..(Len(t) - k) |-> Small[t[k + j]]])
  <2> HIDE DEF fraction
  <2> QED BY <1>2, <1>6
<1> HIDE DEF P, J
<1>12. Rendered(t) = {P(k)}
  BY <1>9, <1>10
<1> QED
  BY <1>11, <1>12

-----------------------------------------------------------------------------
(***************************************************************************)
(* What _render_run has a run read as is what is said in it.               *)
(***************************************************************************)
LEMMA SaidIs == \A r : Said(r) = Tokens(r[1], r[2])
BY DEF Said, Tokens, Expand

LEMMA RunIsRead ==
  ASSUME text \in Texts, NEW f, Renders(f), NEW r \in Runs
  PROVE  ReadAs(f[r], Said(r))
<1> DEFINE s == Said(r)
           d == f[r]
<1>1. s \in Seq(Units \cup Decimal)
  BY RunIs, SaidIs
<1>2. IF Rendered(s) = {} THEN d = Kept ELSE d \in Rendered(s)
  <2>1. s = Tokens(r[1], r[2])
    BY SaidIs
  <2> HIDE DEF s
  <2> QED
    BY <2>1 DEF Renders
<1> HIDE DEF s, d
<1>3. ASSUME NEW n \in Numbers, s \in Spellings[n]
      PROVE  d = IF Value(n) >= MinValue \/ Value(n) >= 100 THEN Digits(Value(n), <<>>) ELSE Kept
  <2>1. s \in Spelling(n)
    BY <1>3 DEF Spellings
  <2>2. Rendered(s) = IF Value(n) >= MinValue \/ Value(n) >= 100
                      THEN {Digits(Value(n), <<>>)} ELSE {}
    BY <2>1, SpellingRendered
  <2> QED
    BY <1>2, <2>2
<1>4. ASSUME NEW n \in Numbers, NEW k \in 1..(Len(s) - 1), SubSeq(s, 1, k - 1) \in Spellings[n],
             s[k] \in Decimal, \A j \in (k + 1)..Len(s) : s[j] \in DOMAIN Small
      PROVE  d = Digits(Value(n), [j \in 1..(Len(s) - k) |-> Small[s[k + j]]])
  <2>1. SubSeq(s, 1, k - 1) \in Spelling(n)
    BY <1>4 DEF Spellings
  <2>2. Rendered(s) = {Digits(Value(n), [j \in 1..(Len(s) - k) |-> Small[s[k + j]]])}
    BY <1>1, <1>4, <2>1, FractionRendered
  <2> QED
    BY <1>2, <2>2
<1>5. ReadAs(d, s)
  BY <1>3, <1>4 DEF ReadAs
<1> QED
  BY <1>5 DEF d, s

(***************************************************************************)
(* Whatever the tables: a number that is spelled, as its crores, lakhs and *)
(* thousands, each counted by a number below a thousand, and the rest, is  *)
(* written as that number wherever it stands in a transcript, or kept if   *)
(* it is a small one; with a fraction, it is written with the fraction.    *)
(***************************************************************************)
THEOREM SpelledNumbers == Spec => []NumbersAreRead
<1>1. Init => NumeralsInv
  BY NumeralsInit
<1>2. NumeralsInv /\ [Next]_vars => NumeralsInv'
  BY NumeralsStep
<1>3. NumeralsInv => NumbersAreRead
  <2> SUFFICES ASSUME NumeralsInv, i > Len(text)
               PROVE  \E f \in Readings : \A r \in DOMAIN f : ReadAs(f[r], Said(r))
    BY DEF NumbersAreRead
  <2>1. PICK f \in Readings : Renders(f)
    BY TextIsRead
  <2>2. DOMAIN f = Runs
    BY <2>1 DEF Renders
  <2>3. text \in Texts
    BY DEF NumeralsInv, Transcript
  <2> QED
    BY <2>1, <2>2, <2>3, RunIsRead
<1> QED
  BY <1>1, <1>2, <1>3, PTL DEF Spec
=============================================================================
