------------------------------- MODULE TextLines -------------------------------
(***************************************************************************)
(* How a TEXT value is written into a document: write_text_line with       *)
(* escape_text and fold_line (src/ical.rs).  The two loops go over the     *)
(* characters of the value and of the content line made of it; octets      *)
(* count, but a line breaks only between characters.  The reader is the    *)
(* calcard library: it unfolds and unescapes as RFC 5545 says.             *)
(***************************************************************************)
EXTENDS Naturals, Sequences

CONSTANTS
    Others,      \* characters without a meaning in a content line
    Width,       \* the UTF-8 octets of each of them
    Name,        \* the property's name with its colon
    Values,      \* the texts to be written
    Limit        \* the octets of a physical line (75)

Special == {"BS", ";", ",", "n", "LF", "CR", " "}

Chars == Others \cup Special

ASSUME TextAssumption ==
    /\ Others \cap Special = {}
    /\ Width \in [Others -> 1..4]
    /\ Name \in Seq(Chars \ {"CR", "LF"})
    /\ Values \subseteq Seq(Chars)
    /\ Limit \in Nat /\ Limit > 4

VARIABLES
    value,    \* the text given to write_text_line
    at,       \* which character the loop is at
    phase,    \* which loop: "escape", "fold", or "done"
    line,     \* the content line: the name, and what is escaped so far
    budget,   \* fold_line: octets of content the physical line may hold
    used,     \* fold_line: octets of content it holds
    out,      \* what is written
    column    \* history: octets of the physical line being written

vars == <<value, at, phase, line, budget, used, out, column>>

Octets(c) == IF c \in Others THEN Width[c] ELSE 1

Init ==
    /\ value \in Values
    /\ at = 1
    /\ phase = "escape"
    /\ line = Name
    /\ budget = Limit
    /\ used = 0
    /\ out = << >>
    /\ column = 0

-----------------------------------------------------------------------------

\* A faulty variant of Escaped: a backslash of the text is left alone.
EscapedSeparators(c) ==
    IF c \in {";", ","} THEN <<"BS", c>>
    ELSE IF c = "LF" THEN <<"BS", "n">>
    ELSE IF c = "CR" THEN << >>
    ELSE <<c>>

\* What escape_text makes of one character.
Escaped(c) ==
    IF c \in {"BS", ";", ","} THEN <<"BS", c>>
    ELSE IF c = "LF" THEN <<"BS", "n">>
    ELSE IF c = "CR" THEN << >>
    ELSE <<c>>

\* One turn of the loop of escape_text.
Escape ==
    /\ phase = "escape"
    /\ at <= Len(value)
    /\ line' = line \o Escaped(value[at])
    /\ at' = at + 1
    /\ UNCHANGED <<value, phase, budget, used, out, column>>

StartFolding ==
    /\ phase = "escape"
    /\ at > Len(value)
    /\ phase' = "fold"
    /\ at' = 1
    /\ UNCHANGED <<value, line, budget, used, out, column>>

\* A faulty variant of Break: the leading space is not counted.
BreakWithFullBudget(c) ==
    /\ used + Octets(c) > budget
    /\ out' = out \o <<"CR", "LF", " ", c>>
    /\ used' = Octets(c)
    /\ budget' = Limit
    /\ column' = 1 + Octets(c)

\* The character does not fit: a physical line ends before it, and the next
\* one begins with a space, which takes one octet of its budget.
Break(c) ==
    /\ used + Octets(c) > budget
    /\ out' = out \o <<"CR", "LF", " ", c>>
    /\ used' = Octets(c)
    /\ budget' = Limit - 1
    /\ column' = 1 + Octets(c)

Push(c) ==
    /\ used + Octets(c) <= budget
    /\ out' = Append(out, c)
    /\ used' = used + Octets(c)
    /\ column' = column + Octets(c)
    /\ UNCHANGED budget

\* One turn of the loop of fold_line.
Fold ==
    /\ phase = "fold"
    /\ at <= Len(line)
    /\ Break(line[at]) \/ Push(line[at])
    /\ at' = at + 1
    /\ UNCHANGED <<value, phase, line>>

EndLine ==
    /\ phase = "fold"
    /\ at > Len(line)
    /\ out' = out \o <<"CR", "LF">>
    /\ phase' = "done"
    /\ UNCHANGED <<value, at, line, budget, used, column>>

Next == Escape \/ StartFolding \/ Fold \/ EndLine

Spec == Init /\ [][Next]_vars

-----------------------------------------------------------------------------
(***************************************************************************)
(* The reader.  It goes over a text from the first character to the last,  *)
(* and each character takes it a step further.                             *)
(***************************************************************************)

Scan(step, start, text) ==
    LET scan[i \in 0..Len(text)] ==
          IF i = 0 THEN start ELSE step[scan[i - 1]][text[i]]
    IN  scan[Len(text)]

\* A content line ends with a line break, unless a space follows: then it goes
\* on, and neither the break nor the space is part of it.
Unfolding == [content : Seq(Chars), state : {"line", "CR", "CRLF", "end"}]

Unfolded(r, c) ==
    IF r.state = "end" THEN r
    ELSE IF r.state = "CRLF" THEN [r EXCEPT !.state = IF c = " " THEN "line" ELSE "end"]
    ELSE IF r.state = "CR" /\ c = "LF" THEN [r EXCEPT !.state = "CRLF"]
    ELSE IF c = "CR" THEN [r EXCEPT !.state = "CR"]
    ELSE [content |-> Append(r.content, c), state |-> "line"]

UnfoldStep == [r \in Unfolding |-> [c \in Chars |-> Unfolded(r, c)]]

Unfold(text) == Scan(UnfoldStep, [content |-> << >>, state |-> "line"], text)

\* A backslash says how the character after it is meant.
Unescaping == [quoted : BOOLEAN, text : Seq(Chars)]

Unescaped(r, c) ==
    IF ~r.quoted /\ c = "BS" THEN [r EXCEPT !.quoted = TRUE]
    ELSE [quoted |-> FALSE,
          text |-> Append(r.text, IF r.quoted /\ c = "n" THEN "LF" ELSE c)]

UnescapeStep == [r \in Unescaping |-> [c \in Chars |-> Unescaped(r, c)]]

Unescape(text) == Scan(UnescapeStep, [quoted |-> FALSE, text |-> << >>], text)

\* What follows the name in a content line.
Body(content) == SubSeq(content, Len(Name) + 1, Len(content))

\* The value a reader finds in what was written.
ReadBack == Unescape(Body(Unfold(out).content)).text

-----------------------------------------------------------------------------
(***************************************************************************)
(* Properties.                                                             *)
(***************************************************************************)

\* Every variable holds a value of its type.
TypeOK ==
    /\ value \in Values
    /\ phase \in {"escape", "fold", "done"}
    /\ at \in Nat \ {0}
    /\ line \in Seq(Chars)
    /\ budget \in {Limit, Limit - 1}
    /\ used \in Nat
    /\ out \in Seq(Chars)
    /\ column \in Nat

\* "no physical line exceeds 75 octets" (src/src/ical.rs:61): whatever mix of one
\* and more octets the line has, and in its continuations with their space.
LinesFit == column <= Limit

KeepStep ==
    [kept \in Seq(Chars) |->
       [c \in Chars |-> IF c = "CR" THEN kept ELSE Append(kept, c)]]

\* A text without its carriage returns.
WithoutCR(text) == Scan(KeepStep, << >>, text)

\* "calcard unfolds them on read, so the round-trip is lossless"
\* (src/src/ical.rs:62): what a reader gets back from the escaped and folded
\* lines is the text, apart from its carriage returns.
ReadsBack == phase = "done" => ReadBack = WithoutCR(value)

-----------------------------------------------------------------------------
(***************************************************************************)
(* The inductive invariant.                                                *)
(***************************************************************************)

\* The octets on the physical line are those fold_line counts, and the
\* space of a continuation.
BudgetInv ==
    /\ budget = Limit => column = used
    /\ budget = Limit - 1 => column = used + 1
    /\ used <= budget

\* How much of the value is in the content line.
Written == SubSeq(value, 1, IF phase = "escape" THEN at - 1 ELSE Len(value))

\* The content line is the name, without a line break, and what unescapes to
\* the part of the value that is written.
EscapeInv ==
    /\ phase = "escape" => at <= Len(value) + 1
    /\ line \in Seq(Chars \ {"CR", "LF"})
    /\ Len(line) >= Len(Name)
    /\ Unescape(Body(line)) = [quoted |-> FALSE, text |-> WithoutCR(Written)]

\* The lines written unfold to the part of the content line that is folded.
FoldInv ==
    /\ phase = "escape" => out = << >>
    /\ phase = "fold" =>
         /\ at <= Len(line) + 1
         /\ Unfold(out) = [content |-> SubSeq(line, 1, at - 1), state |-> "line"]
    /\ phase = "done" => Unfold(out) = [content |-> line, state |-> "CRLF"]

IInv == TypeOK /\ BudgetInv /\ EscapeInv /\ FoldInv
=============================================================================
