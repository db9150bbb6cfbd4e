----------------------------- MODULE MCTextLines -----------------------------
(* A small instance of TextLines for TLC: lines of five octets, the widest    *)
(* character and the space of a continuation, so that every text breaks.      *)
EXTENDS TextLines, SequencesExt

CONSTANT MaxLength  \* bound: characters of a text

\* Characters of one, two and four octets.
MCOthers == {"a", "e'", "emoji"}

MCWidth == [c \in MCOthers |-> IF c = "a" THEN 1 ELSE IF c = "e'" THEN 2 ELSE 4]

MCName == <<"a", "a">>

MCValues == BoundedSeq(Chars, MaxLength)

\* WithoutCR says of every text what SelectSeq says of it.
ASSUME WithoutCRAssumption ==
    \A text \in MCValues : WithoutCR(text) = SelectSeq(text, LAMBDA c : c # "CR")
=============================================================================
