---------------------------- MODULE MCNumerals ------------------------------
EXTENDS Numerals

MCSmall == [shunno |-> 0, ek |-> 1, dui |-> 2, nine |-> 9, dosh |-> 10, ashi |-> 80]
MCScales == [koti |-> 10000000, lakh |-> 100000, hajar |-> 1000, sho |-> 100]
MCDecimal == {"doshomik"}
MCCompounds == [duisho |-> <<"dui", "sho">>, nineHajar |-> <<"nine", "hajar">>,
                ashiKoti |-> <<"ashi", "koti">>]

\* Below, at and above a hundred; what is left of a number, and counts of scales.
MCNumbers ==
  [crore : {0, 2, 101}, lakh : {0, 80}, hajar : {0, 1, 209}, rest : {0, 2, 9, 10, 100, 180, 910}]

\* A word for each way in which the code treats words, and one it does not know.
Vocabulary == {"ek", "dui", "dosh", "sho", "duisho", "hajar", "doshomik", "bari"}

Spaced(words) ==
  FlattenSeq([k \in 1..Len(words) |-> IF k = 1 THEN <<words[k]>> ELSE <<Blank, words[k]>>])

\* The same words, with those that have a compound in one.
RECURSIVE Joined(_)
Joined(words) ==
  IF Len(words) < 2 THEN words
  ELSE LET w == {w \in DOMAIN Compounds : Compounds[w] = SubSeq(words, 1, 2)}
       IN  IF w # {} THEN <<CHOOSE x \in w : TRUE>> \o Joined(SubSeq(words, 3, Len(words)))
           ELSE <<words[1]>> \o Joined(Tail(words))

UpTo(n) == UNION {[1..k -> Vocabulary] : k \in 0..n}

Spelled == UNION {Spelling(n) : n \in Numbers} \ {<<>>}

\* Up to four words, blanks at the ends of those of up to two, and the spellings of
\* numbers, alone and among other words, and with a fraction.
MCTexts ==
  {Spaced(w) : w \in UpTo(4)}
    \cup {<<Blank>> \o Spaced(w) : w \in UpTo(2)}
    \cup {Spaced(w) \o <<Blank>> : w \in UpTo(2)}
    \cup {Spaced(s) : s \in Spelled} \cup {Spaced(Joined(s)) : s \in Spelled}
    \cup {Spaced(<<"ek", "bari">> \o s \o <<"bari", "dosh", "doshomik", "dui">>) : s \in Spelled}
    \cup {Spaced(s \o <<"doshomik", "dui", "shunno">>) : s \in Spelled}

MCShortTexts == {Spaced(w) : w \in UpTo(2)} \cup {Spaced(w) \o <<Blank>> : w \in UpTo(2)}
=============================================================================
