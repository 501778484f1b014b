------------------------------ MODULE Numerals ------------------------------
(***************************************************************************)
(* Inverse text normalization, src/utils/itn.py: spelled-out numbers of a  *)
(* transcript become digits.                                               *)
(*                                                                         *)
(* What the code knows of a word is in its tables, which are constants.  A *)
(* transcript is a sequence of words and blanks, as re.split leaves it;    *)
(* what is written in digits is a tuple of its whole part and of the       *)
(* values after the decimal point.                                         *)
(*                                                                         *)
(*   text   the parts of the transcript                                    *)
(*   i      the next part to be looked at                                  *)
(*   out    what has been put out: a word or a blank as <<w>>, a number as *)
(*          <<"digits", whole, fraction>>                                  *)
(***************************************************************************)
EXTENDS Integers, Sequences, SequencesExt

CONSTANTS
  Texts,      \* transcripts
  MinValue,   \* min_value; ITN_MIN_VALUE is 10
  Small,      \* _SMALL, what a numeral is worth
  Scales,     \* _SCALES
  Decimal,    \* _DECIMAL
  Compounds,  \* the numerals _expand takes apart: a small one and a scale
  Numbers     \* numbers that may be spelled; the code has no such table

Blank == " "

Tokenized == DOMAIN Small \cup DOMAIN Scales \cup Decimal
Numeral == Tokenized \cup DOMAIN Compounds
IsNumeral(w) == w \in Numeral

ASSUME NumeralsAssumption ==
  /\ Texts \subseteq Seq(STRING) /\ MinValue \in Nat
  /\ \A w \in DOMAIN Small : Small[w] \in Nat
  /\ \A w \in DOMAIN Scales : Scales[w] \in {100, 1000, 100000, 10000000}
  /\ \A w \in DOMAIN Compounds :
       \E x \in DOMAIN Small, s \in DOMAIN Scales : Compounds[w] = <<x, s>>
  /\ DOMAIN Small \cap DOMAIN Scales = {}
  /\ Decimal \cap (DOMAIN Small \cup DOMAIN Scales) = {}
  /\ Blank \notin Numeral

ASSUME NumbersAssumption ==
  Numbers \subseteq [crore : 0..999, lakh : 0..999, hajar : 0..999, rest : 0..999]

\* _expand: a numeral, or a numeral with a scale at its end in one word.
Expand(w) == IF w \in Tokenized THEN <<w>> ELSE Compounds[w]

\* A bug to be caught: a thousand closes the hundreds but does not count them.
ReadScaleOnly(acc, token) ==
  LET current == IF acc.current = 0 THEN 1 ELSE acc.current
  IN  IF token \in DOMAIN Small
      THEN [acc EXCEPT !.current = @ + Small[token]]
      ELSE IF Scales[token] = 100
      THEN [acc EXCEPT !.current = 100]
      ELSE [total |-> acc.total + current * Scales[token], current |-> 0]

\* _parse_int of tokens none of which is a decimal point.
Read(acc, token) ==
  LET current == IF acc.current = 0 THEN 1 ELSE acc.current
  IN  IF token \in DOMAIN Small
      THEN [acc EXCEPT !.current = @ + Small[token]]
      ELSE IF Scales[token] = 100
      THEN [acc EXCEPT !.current = current * 100]
      ELSE [total |-> acc.total + current * Scales[token], current |-> 0]

Heard(tokens) ==
  LET acc[k \in 0..Len(tokens)] ==
        IF k = 0 THEN [total |-> 0, current |-> 0] ELSE Read(acc[k - 1], tokens[k])
  IN  acc[Len(tokens)]
ParseInt(tokens) == Heard(tokens).total + Heard(tokens).current

\* _render_run: the digits of a run of tokens, or nothing.
Digits(whole, fraction) == <<"digits", whole, fraction>>

Rendered(tokens) ==
  LET points == {k \in 1..Len(tokens) : tokens[k] \in Decimal}
      whole(k) == ParseInt(SubSeq(tokens, 1, k - 1))
      after(k) == SubSeq(tokens, k + 1, Len(tokens))
  IN  IF points # {}
      THEN {Digits(whole(k), [n \in 1..Len(after(k)) |-> ParseInt(<<after(k)[n]>>)]) :
              k \in {k \in points : points = {k} /\ after(k) # <<>>}}
      ELSE {Digits(v, <<>>) :
              v \in {v \in {ParseInt(tokens)} :
                       v >= MinValue \/ \E t \in ToSet(tokens) : t \in DOMAIN Scales}}

-----------------------------------------------------------------------------
VARIABLES text, i, out

vars == <<text, i, out>>

Init == text \in Texts /\ i = 1 /\ out = <<>>

\* The run of numerals that begins at part b: where it ends, blanks between its
\* words included and those after it not, and its tokens.
RunEnds(b) ==
  {e \in b..Len(text) : /\ IsNumeral(text[e])
                        /\ \A k \in b..e : text[k] = Blank \/ IsNumeral(text[k])}
RunEnd(b) == CHOOSE e \in RunEnds(b) : \A d \in RunEnds(b) : d <= e

RunEndWithBlank(b) ==  \* a bug to be caught: the blank after a run is swallowed
  LET e == CHOOSE e \in RunEnds(b) : \A d \in RunEnds(b) : d <= e
  IN  IF e < Len(text) THEN e + 1 ELSE e

Tokens(b, e) ==
  FlattenSeq([k \in 1..(e - b + 1) |->
                IF text[b + k - 1] = Blank THEN <<>> ELSE Expand(text[b + k - 1])])

AsIs(b, e) == [k \in 1..(e - b + 1) |-> <<text[b + k - 1]>>]

-----------------------------------------------------------------------------
\* A blank, or a word that is no numeral, passes through.
Pass ==
  /\ i <= Len(text)
  /\ text[i] = Blank \/ ~IsNumeral(text[i])
  /\ out' = Append(out, <<text[i]>>)
  /\ i' = i + 1
  /\ UNCHANGED text

\* A bug to be caught: of a run that is not rendered only the first word is kept.
KeepFirst ==
  /\ i <= Len(text) /\ IsNumeral(text[i])
  /\ Rendered(Tokens(i, RunEnd(i))) = {}
  /\ out' = Append(out, <<text[i]>>)
  /\ i' = RunEnd(i) + 1
  /\ UNCHANGED text

\* A run that is not to be rendered passes through as it is.
KeepRun ==
  /\ i <= Len(text) /\ IsNumeral(text[i])
  /\ Rendered(Tokens(i, RunEnd(i))) = {}
  /\ out' = out \o AsIs(i, RunEnd(i))
  /\ i' = RunEnd(i) + 1
  /\ UNCHANGED text

RewriteRun ==
  /\ i <= Len(text) /\ IsNumeral(text[i])
  /\ \E d \in Rendered(Tokens(i, RunEnd(i))) : out' = Append(out, d)
  /\ i' = RunEnd(i) + 1
  /\ UNCHANGED text

Done == i > Len(text) /\ UNCHANGED vars

Next == Pass \/ KeepRun \/ RewriteRun \/ Done

Spec == Init /\ [][Next]_vars

-----------------------------------------------------------------------------
\* The runs of a text: its longest stretches of numerals with blanks between them.
Stretch(b, e) ==
  /\ IsNumeral(text[b]) /\ IsNumeral(text[e])
  /\ \A k \in b..e : text[k] = Blank \/ IsNumeral(text[k])

Runs ==
  {r \in (1..Len(text)) \X (1..Len(text)) :
     /\ r[1] <= r[2] /\ Stretch(r[1], r[2])
     /\ \A b \in 1..(r[1] - 1) : ~Stretch(b, r[2])
     /\ \A e \in (r[2] + 1)..Len(text) : ~Stretch(r[1], e)}

\* What is put out if each run r is kept, or written as f[r]: the digits take the
\* place of the run, and everything else is where it was.
Kept == <<>>
Written(f, k) == {r \in DOMAIN f : k \in r[1]..r[2] /\ f[r] # Kept}
Piece(f, k) ==
  IF Written(f, k) = {} THEN <<<<text[k]>>>>
  ELSE LET r == CHOOSE r \in Written(f, k) : TRUE
       IN  IF k = r[1] THEN <<f[r]>> ELSE <<>>
Composed(f, m) == FlattenSeq([k \in 1..m |-> Piece(f, k)])

\* How the text was read, if it was.
Readings ==
  {f \in [Runs -> {Kept} \cup {p \in ToSet(out) : Len(p) = 3}] :
     out = Composed(f, Len(text))}

(***************************************************************************)
(* "Any token not in them ends the run and passes through byte-identical"; *)
(* "a missed conversion, never mangled text": a run of numerals is written *)
(* as one number, or comes out as it went in with all of its words and     *)
(* blanks, and so does everything about the runs.                          *)
(***************************************************************************)
OtherWordsSurvive == i > Len(text) => Readings # {}

(***************************************************************************)
(* The reference: how a number is spelled.  Its crores, lakhs and          *)
(* thousands, each counted by a number below a thousand, and what is left; *)
(* a one before a scale need not be said, nor need a zero.  A numeral and  *)
(* its scale may be one word.                                              *)
(***************************************************************************)
Value(n) == n.crore * 10000000 + n.lakh * 100000 + n.hajar * 1000 + n.rest

Ones(n) == {<<w>> : w \in {w \in DOMAIN Small : Small[w] = n}}
             \cup (IF n = 0 THEN {<<>>} ELSE {})

\* n of a scale, n itself said in one of the given ways.
Counted(n, ways, scale) ==
  IF n = 0 THEN {<<>>}
  ELSE {Append(c, s) : c \in ways \cup (IF n = 1 THEN {<<>>} ELSE {}),
                       s \in {s \in DOMAIN Scales : Scales[s] = scale}}

BelowThousand(n) ==
  {h \o o : h \in Counted(n \div 100, Ones(n \div 100), 100), o \in Ones(n % 100)}
Group(n, scale) == Counted(n, BelowThousand(n), scale)

Spelling(n) ==
  {((c \o l) \o h) \o r :
     c \in Group(n.crore, 10000000), l \in Group(n.lakh, 100000),
     h \in Group(n.hajar, 1000), r \in BelowThousand(n.rest)}

Spellings == [n \in Numbers |-> Spelling(n)]

\* The words of a run, with those written as one word taken apart.
Said(r) ==
  FlattenSeq([k \in 1..(r[2] - r[1] + 1) |->
                LET w == text[r[1] + k - 1]
                IN  IF w = Blank THEN <<>>
                    ELSE IF w \in Tokenized THEN <<w>> ELSE Compounds[w]])

(***************************************************************************)
(* Wherever a number is spelled, be it of crores and with compounds, it is *)
(* written as that number at that place, unless it is a small one without  *)
(* a scale, which is kept; and if a decimal point and more numerals follow *)
(* it, it is written with their values after the point.  A scale counted   *)
(* by another, as in a thousand crores, is not a spelling of this kind.    *)
(***************************************************************************)
ReadAs(d, s) ==
  \A n \in Numbers :
    /\ s \in Spellings[n] =>
         d = IF Value(n) >= MinValue \/ Value(n) >= 100 THEN Digits(Value(n), <<>>) ELSE Kept
    /\ \A k \in 1..(Len(s) - 1) :
         (/\ SubSeq(s, 1, k - 1) \in Spellings[n] /\ s[k] \in Decimal
          /\ \A j \in (k + 1)..Len(s) : s[j] \in DOMAIN Small) =>
           d = Digits(Value(n), [j \in 1..(Len(s) - k) |-> Small[s[k + j]]])

NumbersAreRead ==
  i > Len(text) => \E f \in Readings : \A r \in DOMAIN f : ReadAs(f[r], Said(r))

Words == FlattenSeq([k \in 1..Len(text) |-> IF text[k] = Blank THEN <<>> ELSE <<text[k]>>])
Sayable == {Small[w] : w \in DOMAIN Small} \ {0}
Say(n) == CHOOSE w \in DOMAIN Small : Small[w] = n

(***************************************************************************)
(* "The failure mode is a missed conversion, never mangled text": two      *)
(* numbers said one after the other are not made into a third.             *)
(***************************************************************************)
NeverMangled ==
  i > Len(text) =>
    \A m, n \in Sayable : (Words = <<Say(m), Say(n)>> /\ m < 100 /\ n < 100) =>
      Digits(m + n, <<>>) \notin ToSet(out)
=============================================================================
