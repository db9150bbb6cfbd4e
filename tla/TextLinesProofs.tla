---------------------------- MODULE TextLinesProofs ----------------------------
(***************************************************************************)
(* No text, however long and whatever its characters, is written with a    *)
(* physical line longer than Limit octets, and every text is read back     *)
(* without its carriage returns.  The reader is defined by recursion on    *)
(* the text: that such a definition defines something, and what one more   *)
(* character adds, is shown first.                                         *)
(***************************************************************************)
EXTENDS TextLines, TLAPS, SequenceTheorems, WellFoundedInduction

-----------------------------------------------------------------------------
(***************************************************************************)
(* Induction over the natural numbers, by the set of the numbers for which *)
(* something holds: a number outside would have a smallest one.            *)
(***************************************************************************)

Smaller == {p \in Nat \X Nat : p[1] < p[2]}

LEMMA SmallerWellFounded == IsWellFoundedOn(Smaller, Nat)
  BY NatLessThanWellFounded DEF OpToRel, Smaller

LEMMA SetInduction ==
    ASSUME NEW S, 0 \in S, \A n \in Nat : n \in S => n + 1 \in S
    PROVE  Nat \subseteq S
  <1>. DEFINE T == Nat \ S
  <1>. SUFFICES ASSUME T # {} PROVE FALSE
    OBVIOUS
  <1>1. PICK x \in T : \A y \in T : <<y, x>> \notin Smaller
    <2>1. T \subseteq Nat
      OBVIOUS
    <2>. HIDE DEF T
    <2>. QED
      BY <2>1, SmallerWellFounded, WFMin
  <1>2. x # 0 /\ x - 1 \in T
    OBVIOUS
  <1>3. <<x - 1, x>> \in Smaller
    BY <1>2 DEF Smaller
  <1>. QED
    BY <1>1, <1>2, <1>3

-----------------------------------------------------------------------------
(***************************************************************************)
(* Going over a text step by step.                                         *)
(***************************************************************************)

\* f holds where the steps lead after each of the first n characters.
Scans(f, n, step, start, text) ==
    f = [i \in 0..n |-> IF i = 0 THEN start ELSE step[f[i - 1]][text[i]]]

\* A character of C takes a step from one member of A to another.
Steps(step, start, A, C) == start \in A /\ step \in [A -> [C -> A]]

\* Two texts begin with the same n characters.
Agree(s, t, n) == \A i \in 1..n : s[i] = t[i]

\* The steps from start over the first n characters lead somewhere.
LEMMA ScanExtends ==
    ASSUME NEW A, NEW C, NEW start \in A, NEW step \in [A -> [C -> A]],
           NEW text \in Seq(C), NEW n \in Nat, n + 1 <= Len(text),
           NEW f \in [0..n -> A], Scans(f, n, step, start, text)
    PROVE  \E g \in [0..(n + 1) -> A] : Scans(g, n + 1, step, start, text)
  <1>. DEFINE last == step[f[n]][text[n + 1]]
  <1>. DEFINE g == [i \in 0..(n + 1) |-> IF i = n + 1 THEN last ELSE f[i]]
  <1>1. last \in A
    <2>1. f[n] \in A /\ text[n + 1] \in C
      BY ElementOfSeq
    <2>. QED
      BY <2>1
  <1>2. g \in [0..(n + 1) -> A]
    BY <1>1
  <1>3. ASSUME NEW i \in 0..(n + 1)
        PROVE  g[i] = IF i = 0 THEN start ELSE step[g[i - 1]][text[i]]
    <2>1. CASE i = n + 1
      <3>1. g[i] = last /\ i # 0 /\ g[i - 1] = f[n] /\ text[i] = text[n + 1]
        BY <2>1
      <3>. QED
        BY <3>1
    <2>2. CASE i \in 0..n
      <3>1. g[i] = f[i] /\ (i # 0 => g[i - 1] = f[i - 1])
        BY <2>2
      <3>2. f[i] = IF i = 0 THEN start ELSE step[f[i - 1]][text[i]]
        BY <2>2 DEF Scans
      <3>. QED
        BY <3>1, <3>2
    <2>. QED
      BY <2>1, <2>2
  <1>. HIDE DEF g
  <1>4. Scans(g, n + 1, step, start, text)
    BY <1>2, <1>3 DEF Scans
  <1>. QED
    BY <1>2, <1>4

LEMMA ScanExists ==
    ASSUME NEW A, NEW C, NEW start \in A, NEW step \in [A -> [C -> A]],
           NEW text \in Seq(C)
    PROVE  \E f \in [0..Len(text) -> A] : Scans(f, Len(text), step, start, text)
  <1>. DEFINE S == {n \in Nat : n <= Len(text) =>
                      \E f \in [0..n -> A] : Scans(f, n, step, start, text)}
  <1>1. 0 \in S
    <2>. DEFINE f == [i \in 0..0 |-> start]
    <2>1. f \in [0..0 -> A] /\ Scans(f, 0, step, start, text)
      BY DEF Scans
    <2>. QED
      BY <2>1
  <1>2. ASSUME NEW n \in Nat, n \in S
        PROVE  n + 1 \in S
    <2>1. Len(text) \in Nat
      BY LenProperties
    <2>. SUFFICES ASSUME n + 1 <= Len(text)
                  PROVE  \E f \in [0..(n + 1) -> A] : Scans(f, n + 1, step, start, text)
      OBVIOUS
    <2>2. PICK f \in [0..n -> A] : Scans(f, n, step, start, text)
      BY <1>2, <2>1
    <2>. QED
      BY <2>2, ScanExtends
  <1>3. Nat \subseteq S
    <2>. HIDE DEF S
    <2>. QED
      BY <1>1, <1>2, SetInduction
  <1>. QED
    BY <1>3, LenProperties

\* There is only one such function, also of a longer text that goes on.
LEMMA ScanUnique ==
    ASSUME NEW step, NEW start, NEW s, NEW t, NEW m \in Nat, NEW n \in Nat, m <= n,
           Agree(s, t, m),
           NEW f, Scans(f, m, step, start, s), NEW g, Scans(g, n, step, start, t)
    PROVE  \A i \in 0..m : f[i] = g[i]
  <1>. DEFINE S == {i \in Nat : i <= m => f[i] = g[i]}
  <1>1. \A i \in 0..m : f[i] = IF i = 0 THEN start ELSE step[f[i - 1]][s[i]]
    BY DEF Scans
  <1>2. \A i \in 0..n : g[i] = IF i = 0 THEN start ELSE step[g[i - 1]][t[i]]
    BY DEF Scans
  <1>3. 0 \in S
    BY <1>1, <1>2
  <1>4. ASSUME NEW i \in Nat, i \in S
        PROVE  i + 1 \in S
    <2>. SUFFICES ASSUME i + 1 <= m
                  PROVE  f[i + 1] = g[i + 1]
      OBVIOUS
    <2>1. f[i] = g[i] /\ s[i + 1] = t[i + 1]
      BY <1>4 DEF Agree
    <2>2. f[i + 1] = step[f[i]][s[i + 1]]
      BY <1>1
    <2>3. g[i + 1] = step[g[i]][t[i + 1]]
      BY <1>2
    <2>. QED
      BY <2>1, <2>2, <2>3
  <1>5. Nat \subseteq S
    <2>. HIDE DEF S
    <2>. QED
      BY <1>3, <1>4, SetInduction
  <1>. QED
    BY <1>5

LEMMA ScanGoesOn ==
    ASSUME NEW step, NEW start, NEW s, NEW t, NEW n \in Nat,
           Agree(s, t, n),
           NEW f, Scans(f, n, step, start, s), NEW g, Scans(g, n + 1, step, start, t)
    PROVE  g[n + 1] = step[f[n]][t[n + 1]]
  <1>1. f[n] = g[n]
    <2>1. n + 1 \in Nat /\ n <= n + 1 /\ n \in 0..n
      OBVIOUS
    <2>2. \A i \in 0..n : f[i] = g[i]
      BY <2>1, ScanUnique
    <2>. QED
      BY <2>1, <2>2
  <1>2. g[n + 1] = step[g[n]][t[n + 1]]
    <2>1. n + 1 \in 0..(n + 1) /\ n + 1 # 0 /\ (n + 1) - 1 = n
      OBVIOUS
    <2>2. g[n + 1] = step[g[(n + 1) - 1]][t[n + 1]]
      BY <2>1 DEF Scans
    <2>. QED
      BY <2>1, <2>2
  <1>. QED
    BY <1>1, <1>2

\* Where Scan is after each character.
Scanned(step, start, text) == CHOOSE f : Scans(f, Len(text), step, start, text)

LEMMA ScannedProperties ==
    ASSUME NEW A, NEW C, NEW start \in A, NEW step \in [A -> [C -> A]],
           NEW text \in Seq(C)
    PROVE  /\ Scanned(step, start, text) \in [0..Len(text) -> A]
           /\ Scans(Scanned(step, start, text), Len(text), step, start, text)
           /\ Scan(step, start, text) = Scanned(step, start, text)[Len(text)]
  <1>. DEFINE g == Scanned(step, start, text)
  <1>1. Scan(step, start, text) = g[Len(text)]
    BY DEF Scan, Scans, Scanned
  <1>2. PICK f \in [0..Len(text) -> A] : Scans(f, Len(text), step, start, text)
    BY ScanExists
  <1>3. Scans(g, Len(text), step, start, text)
    BY <1>2 DEF Scanned
  <1>. HIDE DEF g
  <1>4. \A i \in 0..Len(text) : f[i] = g[i]
    <2>1. Len(text) \in Nat /\ Agree(text, text, Len(text))
      BY LenProperties DEF Agree
    <2>. QED
      BY <1>2, <1>3, <2>1, ScanUnique
  <1>5. g \in [0..Len(text) -> A]
    BY <1>2, <1>3, <1>4 DEF Scans
  <1>. QED
    BY <1>1, <1>3, <1>5 DEF g

\* Where the steps lead, and where one more character leads.
LEMMA ScanType ==
    ASSUME NEW A, NEW C, NEW start, NEW step, Steps(step, start, A, C),
           NEW text \in Seq(C)
    PROVE  Scan(step, start, text) \in A
  <1>1. /\ Scanned(step, start, text) \in [0..Len(text) -> A]
        /\ Scan(step, start, text) = Scanned(step, start, text)[Len(text)]
    BY ScannedProperties DEF Steps
  <1>. QED
    BY <1>1, LenProperties

LEMMA ScanEmpty ==
    ASSUME NEW A, NEW C, NEW start, NEW step, Steps(step, start, A, C)
    PROVE  Scan(step, start, << >>) = start
  <1>. DEFINE empty == << >>
  <1>1. empty \in Seq(C) /\ Len(empty) = 0
    BY EmptySeq
  <1>2. /\ Scans(Scanned(step, start, empty), Len(empty), step, start, empty)
        /\ Scan(step, start, empty) = Scanned(step, start, empty)[Len(empty)]
    <2>1. empty \in Seq(C)
      BY <1>1
    <2>. HIDE DEF empty
    <2>. QED
      BY <2>1, ScannedProperties DEF Steps
  <1>. QED
    BY <1>1, <1>2 DEF Scans

LEMMA ScanAppend ==
    ASSUME NEW A, NEW C, NEW start, NEW step, Steps(step, start, A, C),
           NEW text \in Seq(C), NEW c \in C
    PROVE  Scan(step, start, Append(text, c)) = step[Scan(step, start, text)][c]
  <1>. DEFINE n == Len(text)
              more == Append(text, c)
              f == Scanned(step, start, text)
              g == Scanned(step, start, more)
  <1>1. /\ n \in Nat /\ more \in Seq(C) /\ Len(more) = n + 1
        /\ more[n + 1] = c /\ \A i \in 1..n : text[i] = more[i]
    BY AppendProperties, LenProperties
  <1>. HIDE DEF more
  <1>2. Scans(f, n, step, start, text) /\ Scan(step, start, text) = f[n]
    BY ScannedProperties DEF Steps
  <1>3. Scans(g, n + 1, step, start, more) /\ Scan(step, start, more) = g[n + 1]
    <2>1. more \in Seq(C) /\ Len(more) = n + 1
      BY <1>1
    <2>2. Scans(g, Len(more), step, start, more) /\ Scan(step, start, more) = g[Len(more)]
      <3>1. ASSUME NEW t \in Seq(C)
            PROVE  /\ Scans(Scanned(step, start, t), Len(t), step, start, t)
                   /\ Scan(step, start, t) = Scanned(step, start, t)[Len(t)]
        BY ScannedProperties DEF Steps
      <3>. QED
        BY <2>1, <3>1
    <2>. HIDE DEF g, n
    <2>. QED
      BY <2>1, <2>2
  <1>. HIDE DEF n, f, g
  <1>4. g[n + 1] = step[f[n]][more[n + 1]]
    <2>1. n \in Nat /\ Agree(text, more, n)
      BY <1>1 DEF Agree
    <2>. QED
      BY <2>1, <1>2, <1>3, ScanGoesOn
  <1>. QED
    BY <1>1, <1>2, <1>3, <1>4 DEF more

-----------------------------------------------------------------------------
(***************************************************************************)
(* What one more character is to the reader.                               *)
(***************************************************************************)

LEMMA UnfoldSteps ==
    /\ [content |-> << >>, state |-> "line"] \in Unfolding
    /\ UnfoldStep \in [Unfolding -> [Chars -> Unfolding]]
  <1>1. ASSUME NEW r \in Unfolding, NEW c \in Chars
        PROVE  Unfolded(r, c) \in Unfolding
    <2>1. /\ r.content \in Seq(Chars)
          /\ \A s \in {"line", "CR", "CRLF", "end"} : [r EXCEPT !.state = s] \in Unfolding
      BY DEF Unfolding
    <2>2. [content |-> Append(r.content, c), state |-> "line"] \in Unfolding
      BY <2>1, AppendProperties DEF Unfolding
    <2>. QED
      BY <2>1, <2>2, Zenon DEF Unfolded
  <1>. QED
    BY <1>1 DEF UnfoldStep, Unfolding

LEMMA UnfoldAppend ==
    ASSUME NEW text \in Seq(Chars), NEW c \in Chars
    PROVE  /\ Unfold(text) \in Unfolding
           /\ Unfold(Append(text, c)) = UnfoldStep[Unfold(text)][c]
  <1>. DEFINE start == [content |-> << >>, state |-> "line"]
  <1>1. Steps(UnfoldStep, start, Unfolding, Chars)
    BY UnfoldSteps DEF Steps
  <1>. HIDE DEF start
  <1>2. Scan(UnfoldStep, start, text) \in Unfolding
    BY <1>1, ScanType
  <1>3. Scan(UnfoldStep, start, Append(text, c)) = UnfoldStep[Scan(UnfoldStep, start, text)][c]
    BY <1>1, ScanAppend
  <1>. QED
    BY <1>2, <1>3 DEF Unfold, start

LEMMA UnfoldNothing == Unfold(<< >>) = [content |-> << >>, state |-> "line"]
  <1>. DEFINE start == [content |-> << >>, state |-> "line"]
  <1>1. Steps(UnfoldStep, start, Unfolding, Chars)
    BY UnfoldSteps DEF Steps
  <1>. HIDE DEF start
  <1>2. Scan(UnfoldStep, start, << >>) = start
    BY <1>1, ScanEmpty
  <1>. QED
    BY <1>2 DEF Unfold, start

LEMMA UnescapeSteps ==
    /\ [quoted |-> FALSE, text |-> << >>] \in Unescaping
    /\ UnescapeStep \in [Unescaping -> [Chars -> Unescaping]]
  <1>0. "LF" \in Chars
    BY DEF Chars, Special
  <1>1. ASSUME NEW r \in Unescaping, NEW c \in Chars
        PROVE  Unescaped(r, c) \in Unescaping
    <2>. DEFINE d == IF r.quoted /\ c = "n" THEN "LF" ELSE c
    <2>1. r.text \in Seq(Chars) /\ [r EXCEPT !.quoted = TRUE] \in Unescaping
      BY DEF Unescaping
    <2>2. d \in Chars
      BY <1>0, Zenon
    <2>. HIDE DEF d
    <2>3. [quoted |-> FALSE, text |-> Append(r.text, d)] \in Unescaping
      BY <2>1, <2>2, AppendProperties DEF Unescaping
    <2>. QED
      BY <2>1, <2>3, Zenon DEF Unescaped, d
  <1>. QED
    BY <1>1 DEF UnescapeStep, Unescaping

LEMMA UnescapeAppend ==
    ASSUME NEW text \in Seq(Chars), NEW c \in Chars
    PROVE  /\ Unescape(text) \in Unescaping
           /\ Unescape(Append(text, c)) = UnescapeStep[Unescape(text)][c]
  <1>. DEFINE start == [quoted |-> FALSE, text |-> << >>]
  <1>1. Steps(UnescapeStep, start, Unescaping, Chars)
    BY UnescapeSteps DEF Steps
  <1>. HIDE DEF start
  <1>2. Scan(UnescapeStep, start, text) \in Unescaping
    BY <1>1, ScanType
  <1>3. Scan(UnescapeStep, start, Append(text, c))
          = UnescapeStep[Scan(UnescapeStep, start, text)][c]
    BY <1>1, ScanAppend
  <1>. QED
    BY <1>2, <1>3 DEF Unescape, start

LEMMA UnescapeNothing == Unescape(<< >>) = [quoted |-> FALSE, text |-> << >>]
  <1>. DEFINE start == [quoted |-> FALSE, text |-> << >>]
  <1>1. Steps(UnescapeStep, start, Unescaping, Chars)
    BY UnescapeSteps DEF Steps
  <1>. HIDE DEF start
  <1>2. Scan(UnescapeStep, start, << >>) = start
    BY <1>1, ScanEmpty
  <1>. QED
    BY <1>2 DEF Unescape, start

LEMMA KeepSteps ==
    << >> \in Seq(Chars) /\ KeepStep \in [Seq(Chars) -> [Chars -> Seq(Chars)]]
  <1>1. \A kept \in Seq(Chars), c \in Chars : Append(kept, c) \in Seq(Chars)
    BY AppendProperties
  <1>. QED
    BY <1>1 DEF KeepStep

LEMMA WithoutCRAppend ==
    ASSUME NEW text \in Seq(Chars), NEW c \in Chars
    PROVE  /\ WithoutCR(text) \in Seq(Chars)
           /\ WithoutCR(Append(text, c)) =
                IF c = "CR" THEN WithoutCR(text) ELSE Append(WithoutCR(text), c)
  <1>. DEFINE start == << >>
  <1>1. Steps(KeepStep, start, Seq(Chars), Chars)
    BY KeepSteps DEF Steps
  <1>. HIDE DEF start
  <1>2. Scan(KeepStep, start, text) \in Seq(Chars)
    BY <1>1, ScanType
  <1>3. Scan(KeepStep, start, Append(text, c)) = KeepStep[Scan(KeepStep, start, text)][c]
    BY <1>1, ScanAppend
  <1>. QED
    BY <1>2, <1>3 DEF WithoutCR, KeepStep, start

LEMMA WithoutCRNothing == WithoutCR(<< >>) = << >>
  <1>. DEFINE start == << >>
  <1>1. Steps(KeepStep, start, Seq(Chars), Chars)
    BY KeepSteps DEF Steps
  <1>. HIDE DEF start
  <1>2. Scan(KeepStep, start, << >>) = start
    BY <1>1, ScanEmpty
  <1>. QED
    BY <1>2 DEF WithoutCR, start

-----------------------------------------------------------------------------
(***************************************************************************)
(* Texts that grow.                                                        *)
(***************************************************************************)

\* Characters come one after the other.
LEMMA ConcatTwo ==
    ASSUME NEW S, NEW s \in Seq(S), NEW a \in S, NEW b \in S
    PROVE  s \o <<a, b>> = Append(Append(s, a), b)
  <1>. DEFINE t == <<a, b>>
              l == s \o t
              r == Append(Append(s, a), b)
  <1>1. t \in Seq(S) /\ Len(t) = 2 /\ t[1] = a /\ t[2] = b
    OBVIOUS
  <1>2. /\ l \in Seq(S) /\ Len(l) = Len(s) + 2
        /\ \A i \in 1..(Len(s) + 2) : l[i] = IF i <= Len(s) THEN s[i] ELSE t[i - Len(s)]
    <2>1. t \in Seq(S) /\ Len(t) = 2
      BY <1>1
    <2>. HIDE DEF t
    <2>2. /\ l \in Seq(S) /\ Len(l) = Len(s) + Len(t)
          /\ \A i \in 1..(Len(s) + Len(t)) : l[i] = IF i <= Len(s) THEN s[i] ELSE t[i - Len(s)]
      BY <2>1, ConcatProperties
    <2>. HIDE DEF l
    <2>. QED
      BY <2>1, <2>2
  <1>3. /\ r \in Seq(S) /\ Len(r) = Len(s) + 2 /\ Len(s) \in Nat
        /\ \A i \in 1..Len(s) : r[i] = s[i]
        /\ r[Len(s) + 1] = a /\ r[Len(s) + 2] = b
    BY AppendProperties, LenProperties
  <1>. HIDE DEF t, l, r
  <1>4. ASSUME NEW i \in 1..Len(l) PROVE l[i] = r[i]
    <2>1. CASE i <= Len(s)
      <3>1. i \in 1..Len(s) /\ i \in 1..(Len(s) + 2)
        BY <1>2, <1>3, <2>1
      <3>. QED
        BY <1>2, <1>3, <2>1, <3>1
    <2>2. CASE i = Len(s) + 1
      <3>1. i \in 1..(Len(s) + 2) /\ ~(i <= Len(s)) /\ i - Len(s) = 1
        BY <1>3, <2>2
      <3>2. l[i] = t[1]
        BY <1>2, <3>1
      <3>. QED
        BY <1>1, <1>3, <2>2, <3>2
    <2>3. CASE i = Len(s) + 2
      <3>1. i \in 1..(Len(s) + 2) /\ ~(i <= Len(s)) /\ i - Len(s) = 2
        BY <1>3, <2>3
      <3>2. l[i] = t[2]
        BY <1>2, <3>1
      <3>. QED
        BY <1>1, <1>3, <2>3, <3>2
    <2>. QED
      BY <1>2, <1>3, <2>1, <2>2, <2>3
  <1>5. Len(l) = Len(r)
    BY <1>2, <1>3
  <1>6. l = r
    BY <1>2, <1>3, <1>4, <1>5, SeqEqual
  <1>. QED
    BY <1>6 DEF l, r, t

LEMMA ConcatFour ==
    ASSUME NEW S, NEW s \in Seq(S), NEW a \in S, NEW b \in S, NEW c \in S, NEW d \in S
    PROVE  s \o <<a, b, c, d>> = Append(Append(Append(Append(s, a), b), c), d)
  <1>1. <<a, b>> \in Seq(S) /\ <<c, d>> \in Seq(S)
    OBVIOUS
  <1>2. <<a, b, c, d>> = <<a, b>> \o <<c, d>>
    <2>1. <<a>> \in Seq(S) /\ <<a, b>> = Append(<<a>>, b)
      OBVIOUS
    <2>2. <<a, b, c>> = Append(<<a, b>>, c) /\ <<a, b, c, d>> = Append(<<a, b, c>>, d)
      OBVIOUS
    <2>. QED
      BY <1>1, <2>2, ConcatTwo
  <1>3. s \o <<a, b>> = Append(Append(s, a), b) /\ s \o <<a, b>> \in Seq(S)
    BY <1>1, ConcatTwo, ConcatProperties
  <1>4. (s \o <<a, b>>) \o <<c, d>> = Append(Append(s \o <<a, b>>, c), d)
    BY <1>3, ConcatTwo
  <1>5. s \o (<<a, b>> \o <<c, d>>) = (s \o <<a, b>>) \o <<c, d>>
    BY <1>1, ConcatAssociative
  <1>. QED
    BY <1>2, <1>3, <1>4, <1>5

LEMMA SubSeqGrows ==
    ASSUME NEW S, NEW s \in Seq(S), NEW n \in 1..Len(s)
    PROVE  /\ SubSeq(s, 1, n - 1) \in Seq(S)
           /\ SubSeq(s, 1, n) = Append(SubSeq(s, 1, n - 1), s[n])
  <1>1. SubSeq(s, 1, n - 1) \in Seq(S) /\ s[n] \in S
    <2>1. Len(s) \in Nat /\ \A i \in 1..(n - 1) : s[i] \in S
      BY LenProperties, ElementOfSeq
    <2>. QED
      BY <2>1, SubSeqProperties, ElementOfSeq
  <1>2. SubSeq(s, 1, n) = SubSeq(s, 1, n - 1) \o <<s[n]>>
    <2>1. 1 \in 1..Len(s) /\ n \in 1..Len(s)
      BY LenProperties
    <2>. QED
      BY <2>1, SubSeqRecursiveSecond
  <1>. QED
    BY <1>1, <1>2, AppendIsConcat

LEMMA BodyGrows ==
    ASSUME NEW l \in Seq(Chars), Len(l) >= Len(Name), NEW e \in Seq(Chars)
    PROVE  Body(l) \in Seq(Chars) /\ Body(l \o e) = Body(l) \o e
  <1>. DEFINE n == Len(Name)
              b == Body(l)
              more == Body(l \o e)
  <1>1. n \in Nat /\ Len(l) \in Nat /\ Len(e) \in Nat /\ n <= Len(l)
    BY TextAssumption, LenProperties
  <1>2. /\ l \o e \in Seq(Chars) /\ Len(l \o e) = Len(l) + Len(e)
        /\ \A i \in 1..(Len(l) + Len(e)) :
             (l \o e)[i] = IF i <= Len(l) THEN l[i] ELSE e[i - Len(l)]
    BY ConcatProperties
  <1>3. /\ b \in Seq(Chars) /\ Len(b) = Len(l) - n
        /\ \A i \in 1..(Len(l) - n) : b[i] = l[n + i]
    <2>1. \A i \in (n + 1)..Len(l) : l[i] \in Chars
      BY <1>1, ElementOfSeq
    <2>. QED
      BY <1>1, <2>1, SubSeqProperties DEF Body
  <1>4. /\ more \in Seq(Chars) /\ Len(more) = Len(l) + Len(e) - n
        /\ \A i \in 1..(Len(l) + Len(e) - n) : more[i] = (l \o e)[n + i]
    <2>1. \A i \in (n + 1)..(Len(l) + Len(e)) : (l \o e)[i] \in Chars
      BY <1>1, <1>2, ElementOfSeq
    <2>. QED
      BY <1>1, <1>2, <2>1, SubSeqProperties DEF Body
  <1>5. /\ b \o e \in Seq(Chars) /\ Len(b \o e) = Len(b) + Len(e)
        /\ \A i \in 1..(Len(b) + Len(e)) :
             (b \o e)[i] = IF i <= Len(b) THEN b[i] ELSE e[i - Len(b)]
    BY <1>3, ConcatProperties
  <1>. HIDE DEF n, b, more
  <1>6. \A i \in 1..Len(more) : more[i] = (b \o e)[i]
    BY <1>1, <1>2, <1>3, <1>4, <1>5
  <1>7. more = b \o e
    <2>1. more \in Seq(Chars) /\ b \o e \in Seq(Chars) /\ Len(more) = Len(b \o e)
      BY <1>1, <1>3, <1>4, <1>5
    <2>. QED
      BY <1>6, <2>1, SeqEqual
  <1>. QED
    BY <1>3, <1>7 DEF b, more

-----------------------------------------------------------------------------
(***************************************************************************)
(* The invariant.                                                          *)
(***************************************************************************)

LEMMA OctetsRange ==
    ASSUME NEW c \in Chars
    PROVE  Octets(c) \in 1..4
  BY TextAssumption, SMT DEF Octets, Chars

LEMMA ShortText ==
    ASSUME NEW S, NEW a \in S, NEW b \in S, NEW c \in S, NEW d \in S
    PROVE  /\ << >> \in Seq(S) /\ <<a>> \in Seq(S) /\ <<a, b>> \in Seq(S)
           /\ <<a, b, c, d>> \in Seq(S)
  OBVIOUS

LEMMA EscapedIsText ==
    ASSUME NEW c \in Chars
    PROVE  Escaped(c) \in Seq(Chars)
  <1>1. "BS" \in Chars /\ "n" \in Chars
    BY DEF Chars, Special
  <1>2. /\ << >> \in Seq(Chars) /\ <<c>> \in Seq(Chars)
        /\ <<"BS", c>> \in Seq(Chars) /\ <<"BS", "n">> \in Seq(Chars)
    BY <1>1, ShortText
  <1>. QED
    BY <1>2, Zenon DEF Escaped

\* The text grows, and the octets of its last line stay within the budget.
LEMMA BreakInv ==
    ASSUME IInv, NEW c \in Chars, Break(c)
    PROVE  out' \in Seq(Chars) /\ used' \in Nat /\ column' \in Nat
           /\ budget' = Limit - 1 /\ BudgetInv'
  <1>1. out' \in Seq(Chars)
    <2>1. {"CR", "LF", " "} \subseteq Chars
      BY DEF Chars, Special
    <2>. DEFINE fold == <<"CR", "LF", " ", c>>
    <2>2. fold \in Seq(Chars)
      BY <2>1, ShortText
    <2>3. out \in Seq(Chars) /\ out' = out \o fold
      BY DEF Break, IInv, TypeOK
    <2>. HIDE DEF fold
    <2>. QED
      BY <2>2, <2>3
  <1>. DEFINE w == Octets(c)
  <1>2. w \in 1..4
    BY OctetsRange
  <1>3. used' = w /\ budget' = Limit - 1 /\ column' = 1 + w
    BY DEF Break
  <1>. HIDE DEF w
  <1>. QED
    BY <1>1, <1>2, <1>3, TextAssumption DEF BudgetInv

LEMMA PushInv ==
    ASSUME IInv, NEW c \in Chars, Push(c)
    PROVE  out' \in Seq(Chars) /\ used' \in Nat /\ column' \in Nat
           /\ budget' = budget /\ BudgetInv'
  <1>1. out' \in Seq(Chars)
    BY DEF Push, IInv, TypeOK
  <1>. DEFINE w == Octets(c)
  <1>2. w \in 1..4
    BY OctetsRange
  <1>3. used + w <= budget /\ used' = used + w /\ column' = column + w /\ budget' = budget
    BY DEF Push
  <1>. HIDE DEF w
  <1>4. used \in Nat /\ column \in Nat /\ budget \in {Limit, Limit - 1}
    BY DEF IInv, TypeOK
  <1>. QED
    BY <1>1, <1>2, <1>3, <1>4, TextAssumption DEF IInv, BudgetInv

\* The lines stay within their octets, whatever is written next.
LEMMA NextLines ==
    ASSUME IInv, [Next]_vars
    PROVE  TypeOK' /\ BudgetInv'
  <1>. USE DEF IInv, TypeOK
  <1>1. CASE Escape
    <2>1. value \in Seq(Chars)
      BY TextAssumption
    <2>2. value[at] \in Chars
      BY <1>1, <2>1 DEF Escape
    <2>3. line' \in Seq(Chars)
      BY <1>1, <2>2, EscapedIsText DEF Escape
    <2>. QED
      BY <1>1, <2>3 DEF Escape, BudgetInv
  <1>2. CASE StartFolding
    BY <1>2 DEF StartFolding, BudgetInv
  <1>3. CASE Fold
    <2>1. PICK c \in Chars : Break(c) \/ Push(c)
      BY <1>3 DEF Fold
    <2>2. /\ out' \in Seq(Chars) /\ used' \in Nat /\ column' \in Nat
          /\ budget' \in {Limit, Limit - 1} /\ BudgetInv'
      BY <2>1, BreakInv, PushInv
    <2>3. value' = value /\ phase' = phase /\ line' = line /\ at' \in Nat \ {0}
      BY <1>3 DEF Fold
    <2>. QED
      BY <2>2, <2>3
  <1>4. CASE EndLine
    <2>1. {"CR", "LF"} \subseteq Chars
      BY DEF Chars, Special
    <2>. QED
      BY <1>4, <2>1 DEF EndLine, BudgetInv
  <1>5. CASE UNCHANGED vars
    BY <1>5 DEF vars, BudgetInv
  <1>. QED
    BY <1>1, <1>2, <1>3, <1>4, <1>5 DEF Next

\* The table of the unescaping, read at one place.
LEMMA UnescapeStepIs ==
    ASSUME NEW state \in Unescaping, NEW d \in Chars
    PROVE  UnescapeStep[state][d] = Unescaped(state, d)
BY DEF UnescapeStep

\* Unescaping undoes the escaping of one character, and drops a carriage return.
LEMMA EscapingUndone ==
    ASSUME NEW b \in Seq(Chars), NEW t \in Seq(Chars), NEW c \in Chars,
           Unescape(b) = [quoted |-> FALSE, text |-> t]
    PROVE  Unescape(b \o Escaped(c)) =
             [quoted |-> FALSE, text |-> IF c = "CR" THEN t ELSE Append(t, c)]
  <1>. DEFINE open == [quoted |-> TRUE, text |-> t]
              plain == [quoted |-> FALSE, text |-> t]
  <1>1. "BS" \in Chars /\ "n" \in Chars
    BY DEF Chars, Special
  <1>2. plain \in Unescaping /\ open \in Unescaping
    BY DEF Unescaping
  <1>3. ASSUME NEW d \in Chars
        PROVE  Unescape(b \o <<"BS", d>>) = Unescaped(open, d)
    <2>1. Append(b, "BS") \in Seq(Chars)
      BY <1>1, AppendProperties
    <2>2. Unescape(Append(b, "BS")) = UnescapeStep[plain]["BS"]
      BY <1>1, UnescapeAppend
    <2>3. UnescapeStep[plain]["BS"] = open
      BY <1>1, <1>2 DEF UnescapeStep, Unescaped
    <2>4. Unescape(Append(Append(b, "BS"), d)) = UnescapeStep[open][d]
      <3>. HIDE DEF open, plain
      <3>1. Unescape(Append(b, "BS")) = open
        BY <2>2, <2>3
      <3>. QED
        BY <2>1, <3>1, UnescapeAppend
    <2>5. UnescapeStep[open][d] = Unescaped(open, d)
      <3>. HIDE DEF open
      <3>. QED
        BY <1>2, UnescapeStepIs
    <2>6. b \o <<"BS", d>> = Append(Append(b, "BS"), d)
      BY <1>1, ConcatTwo
    <2>. QED
      BY <2>4, <2>5, <2>6
  <1>4. CASE c \in {"BS", ";", ","}
    BY <1>3, <1>4 DEF Escaped, Unescaped
  <1>5. CASE c = "LF"
    BY <1>1, <1>3, <1>5 DEF Escaped, Unescaped
  <1>6. CASE c = "CR"
    <2>1. Escaped(c) = << >> /\ b \o << >> = b
      BY <1>6, ConcatEmptySeq DEF Escaped
    <2>. QED
      BY <1>6, <2>1
  <1>7. CASE c \notin {"BS", ";", ",", "LF", "CR"}
    <2>1. b \o Escaped(c) = Append(b, c)
      BY <1>7, AppendIsConcat DEF Escaped
    <2>2. Unescape(Append(b, c)) = UnescapeStep[plain][c]
      BY UnescapeAppend
    <2>3. UnescapeStep[plain][c] = Unescaped(plain, c)
      BY <1>2 DEF UnescapeStep
    <2>4. Unescaped(plain, c) = [quoted |-> FALSE, text |-> Append(t, c)]
      BY <1>7 DEF Unescaped
    <2>. QED
      BY <1>7, <2>1, <2>2, <2>3, <2>4
  <1>. QED
    BY <1>4, <1>5, <1>6, <1>7

\* No line break is left in what is escaped.
LEMMA EscapedIsOneLine ==
    ASSUME NEW c \in Chars
    PROVE  Escaped(c) \in Seq(Chars \ {"CR", "LF"})
  <1>. DEFINE S == Chars \ {"CR", "LF"}
  <1>1. "BS" \in S /\ "n" \in S
    BY DEF Chars, Special
  <1>2. << >> \in Seq(S) /\ <<"BS", "n">> \in Seq(S)
    BY <1>1, ShortText
  <1>3. c \in S => <<c>> \in Seq(S) /\ <<"BS", c>> \in Seq(S)
    BY <1>1, ShortText
  <1>4. c \in {"BS", ";", ","} => c \in S
    OBVIOUS
  <1>. HIDE DEF S
  <1>5. c \notin {"CR", "LF"} => c \in S
    BY DEF S
  <1>6. Escaped(c) \in Seq(S)
    BY <1>2, <1>3, <1>4, <1>5, Zenon DEF Escaped
  <1>. QED
    BY <1>6 DEF S

\* Unfolding goes on within a line, also over a fold.
LEMMA FoldingUndone ==
    ASSUME NEW o \in Seq(Chars), NEW t \in Seq(Chars), NEW c \in Chars \ {"CR", "LF"},
           Unfold(o) = [content |-> t, state |-> "line"]
    PROVE  /\ Unfold(Append(o, c)) = [content |-> Append(t, c), state |-> "line"]
           /\ Unfold(o \o <<"CR", "LF">>) = [content |-> t, state |-> "CRLF"]
           /\ Unfold(o \o <<"CR", "LF", " ", c>>) =
                [content |-> Append(t, c), state |-> "line"]
  <1>. DEFINE At(s) == [content |-> t, state |-> s]
              next == [content |-> Append(t, c), state |-> "line"]
              o1 == Append(o, "CR")
              o2 == Append(o1, "LF")
              o3 == Append(o2, " ")
  <1>1. "CR" \in Chars /\ "LF" \in Chars /\ " " \in Chars
    BY DEF Chars, Special
  <1>2. o1 \in Seq(Chars) /\ o2 \in Seq(Chars) /\ o3 \in Seq(Chars)
    BY <1>1, AppendProperties
  <1>3. At("line") \in Unfolding /\ At("CR") \in Unfolding /\ At("CRLF") \in Unfolding
    BY DEF Unfolding
  <1>4. ASSUME NEW text \in Seq(Chars), NEW s \in {"line", "CR", "CRLF"},
               NEW d \in Chars, Unfold(text) = At(s)
        PROVE  Unfold(Append(text, d)) = Unfolded(At(s), d)
    <2>1. Unfold(Append(text, d)) = UnfoldStep[At(s)][d]
      BY <1>4, UnfoldAppend
    <2>2. At(s) \in Unfolding
      BY <1>3
    <2>. QED
      BY <2>1, <2>2 DEF UnfoldStep
  <1>5. /\ Unfolded(At("line"), c) = next
        /\ Unfolded(At("line"), "CR") = At("CR")
        /\ Unfolded(At("CR"), "LF") = At("CRLF")
        /\ Unfolded(At("CRLF"), " ") = At("line")
    BY DEF Unfolded
  <1>6. /\ o \o <<"CR", "LF">> = o2
        /\ o \o <<"CR", "LF", " ", c>> = Append(o3, c)
    <2>. DEFINE cr == "CR"
                lf == "LF"
                sp == " "
    <2>1. cr \in Chars /\ lf \in Chars /\ sp \in Chars /\ c \in Chars
      BY <1>1
    <2>. HIDE DEF cr, lf, sp
    <2>2. o \o <<cr, lf>> = Append(Append(o, cr), lf)
      BY <2>1, ConcatTwo
    <2>3. o \o <<cr, lf, sp, c>> = Append(Append(Append(Append(o, cr), lf), sp), c)
      BY <2>1, ConcatFour
    <2>. QED
      BY <2>2, <2>3 DEF cr, lf, sp
  <1>. HIDE DEF At, next, o1, o2, o3
  <1>7. Unfold(o) = At("line")
    BY DEF At
  <1>8. Unfold(o1) = At("CR")
    BY <1>1, <1>4, <1>5, <1>7 DEF o1
  <1>9. Unfold(o2) = At("CRLF")
    BY <1>1, <1>2, <1>4, <1>5, <1>8 DEF o2
  <1>10. Unfold(o3) = At("line")
    BY <1>1, <1>2, <1>4, <1>5, <1>9 DEF o3
  <1>11. Unfold(Append(o3, c)) = next /\ Unfold(Append(o, c)) = next
    BY <1>2, <1>4, <1>5, <1>7, <1>10
  <1>. QED
    BY <1>6, <1>9, <1>11 DEF At, next

LEMMA InitIInv == Init => IInv
  <1>. SUFFICES ASSUME Init PROVE IInv
    OBVIOUS
  <1>1. Name \in Seq(Chars) /\ value \in Seq(Chars) /\ Len(value) \in Nat
    BY TextAssumption, SeqMonotonic, LenProperties DEF Init
  <1>2. TypeOK /\ BudgetInv
    BY <1>1, TextAssumption DEF Init, TypeOK, BudgetInv
  <1>3. EscapeInv
    <2>1. Body(line) = << >> /\ Written = << >>
      <3>1. Len(Name) \in Nat
        BY <1>1, LenProperties
      <3>. QED
        BY <3>1, SubSeqEmpty DEF Init, Body, Written
    <2>2. Len(line) >= Len(Name)
      BY <1>1, LenProperties DEF Init
    <2>3. line \in Seq(Chars \ {"CR", "LF"}) /\ at <= Len(value) + 1
      BY <1>1, TextAssumption DEF Init
    <2>. QED
      BY <2>1, <2>2, <2>3, UnescapeNothing, WithoutCRNothing DEF EscapeInv
  <1>4. FoldInv
    BY DEF Init, FoldInv
  <1>. QED
    BY <1>2, <1>3, <1>4 DEF IInv

\* What is escaped so far unescapes to what was escaped.
LEMMA NextEscape ==
    ASSUME IInv, [Next]_vars
    PROVE  EscapeInv'
  <1>1. /\ value \in Seq(Chars) /\ Len(value) \in Nat /\ at \in Nat \ {0}
        /\ line \in Seq(Chars) /\ Len(line) \in Nat /\ Len(Name) \in Nat
    BY TextAssumption, LenProperties DEF IInv, TypeOK
  <1>2. CASE Escape
    <2>. DEFINE c == value[at]
                e == Escaped(c)
                b == Body(line)
                kept == WithoutCR(Written)
    <2>1. phase = "escape" /\ phase' = "escape" /\ at <= Len(value) /\ at' = at + 1
          /\ value' = value /\ line' = line \o e
      BY <1>2 DEF Escape
    <2>2. c \in Chars /\ at \in 1..Len(value)
      BY <1>1, <2>1, ElementOfSeq
    <2>3. /\ Written = SubSeq(value, 1, at - 1) /\ Written \in Seq(Chars)
          /\ Written' = Append(Written, c)
      <3>1. Written = SubSeq(value, 1, at - 1) /\ Written' = SubSeq(value, 1, at)
        BY <1>1, <2>1 DEF Written
      <3>. QED
        BY <1>1, <2>2, <3>1, SubSeqGrows
    <2>4. e \in Seq(Chars \ {"CR", "LF"}) /\ e \in Seq(Chars)
      BY <2>2, EscapedIsOneLine, EscapedIsText
    <2>. HIDE DEF e, c
    <2>5. line' \in Seq(Chars \ {"CR", "LF"})
      BY <2>1, <2>4, ConcatProperties DEF IInv, EscapeInv
    <2>6. Len(line') >= Len(Name)
      <3>1. Len(line') = Len(line) + Len(e) /\ Len(e) \in Nat
        BY <1>1, <2>1, <2>4, ConcatProperties, LenProperties
      <3>. QED
        BY <1>1, <3>1 DEF IInv, EscapeInv
    <2>7. b \in Seq(Chars) /\ Body(line') = b \o e
      BY <1>1, <2>1, <2>4, BodyGrows DEF IInv, EscapeInv
    <2>8. /\ kept \in Seq(Chars)
          /\ WithoutCR(Written') = IF c = "CR" THEN kept ELSE Append(kept, c)
      BY <2>2, <2>3, WithoutCRAppend
    <2>9. Unescape(b) = [quoted |-> FALSE, text |-> kept]
      BY DEF IInv, EscapeInv
    <2>10. Unescape(b \o e) =
             [quoted |-> FALSE, text |-> IF c = "CR" THEN kept ELSE Append(kept, c)]
      <3>. HIDE DEF b, kept
      <3>. QED
        BY <2>2, <2>7, <2>8, <2>9, EscapingUndone DEF e
    <2>11. Unescape(Body(line')) = [quoted |-> FALSE, text |-> WithoutCR(Written')]
      BY <2>7, <2>8, <2>10
    <2>12. phase' = "escape" => at' <= Len(value') + 1
      BY <1>1, <2>1
    <2>. QED
      BY <2>5, <2>6, <2>11, <2>12 DEF EscapeInv
  <1>3. CASE StartFolding
    <2>1. /\ phase = "escape" /\ phase' = "fold" /\ value' = value /\ line' = line
          /\ at - 1 = Len(value)
      BY <1>1, <1>3 DEF StartFolding, IInv, EscapeInv
    <2>2. Written' = Written
      BY <2>1 DEF Written
    <2>. QED
      BY <2>1, <2>2 DEF IInv, EscapeInv, Body
  <1>4. CASE Fold \/ EndLine \/ UNCHANGED vars
    <2>1. /\ value' = value /\ line' = line
          /\ (phase' = phase /\ (phase = "escape" => at' = at))
             \/ (phase = "fold" /\ phase' = "done")
      BY <1>4 DEF Fold, EndLine, vars
    <2>2. Written' = Written
      BY <2>1 DEF Written
    <2>. QED
      BY <2>1, <2>2 DEF IInv, EscapeInv, Body
  <1>. QED
    BY <1>2, <1>3, <1>4 DEF Next

\* What is written so far unfolds to what was folded.
LEMMA NextFold ==
    ASSUME IInv, [Next]_vars
    PROVE  FoldInv'
  <1>. DEFINE S == Chars \ {"CR", "LF"}
  <1>1. /\ at \in Nat \ {0} /\ line \in Seq(S) /\ Len(line) \in Nat
        /\ line \in Seq(Chars) /\ out \in Seq(Chars)
    BY LenProperties DEF IInv, TypeOK, EscapeInv
  <1>2. CASE Escape
    BY <1>2 DEF Escape, IInv, FoldInv
  <1>3. CASE StartFolding
    <2>1. /\ phase' = "fold" /\ at' = 1 /\ line' = line /\ out' = << >>
      BY <1>3 DEF StartFolding, IInv, FoldInv
    <2>2. SubSeq(line', 1, at' - 1) = << >>
      BY <2>1, SubSeqEmpty
    <2>3. Unfold(out') = [content |-> << >>, state |-> "line"]
      BY <2>1, UnfoldNothing
    <2>4. at' <= Len(line') + 1
      BY <1>1, <2>1
    <2>. QED
      BY <2>1, <2>2, <2>3, <2>4 DEF FoldInv
  <1>4. CASE Fold
    <2>. DEFINE c == line[at]
                done == SubSeq(line, 1, at - 1)
    <2>1. /\ phase = "fold" /\ phase' = "fold" /\ at <= Len(line) /\ at' = at + 1
          /\ line' = line /\ (Break(c) \/ Push(c))
      BY <1>4 DEF Fold
    <2>2. at \in 1..Len(line) /\ c \in S
      BY <1>1, <2>1, ElementOfSeq
    <2>3. done \in Seq(Chars) /\ SubSeq(line, 1, at) = Append(done, c)
      BY <1>1, <2>2, SubSeqGrows
    <2>4. Unfold(out) = [content |-> done, state |-> "line"]
      BY <2>1 DEF IInv, FoldInv
    <2>5. out' = Append(out, c) \/ out' = out \o <<"CR", "LF", " ", c>>
      BY <2>1 DEF Break, Push
    <2>. HIDE DEF c, done
    <2>6. Unfold(out') = [content |-> Append(done, c), state |-> "line"]
      <3>1. /\ Unfold(Append(out, c)) = [content |-> Append(done, c), state |-> "line"]
            /\ Unfold(out \o <<"CR", "LF", " ", c>>) =
                 [content |-> Append(done, c), state |-> "line"]
        BY <1>1, <2>2, <2>3, <2>4, FoldingUndone
      <3>. QED
        BY <2>5, <3>1
    <2>7. SubSeq(line', 1, at' - 1) = Append(done, c) /\ at' <= Len(line') + 1
      BY <1>1, <2>1, <2>3
    <2>. QED
      BY <2>1, <2>6, <2>7 DEF FoldInv
  <1>5. CASE EndLine
    <2>1. /\ phase = "fold" /\ phase' = "done" /\ line' = line
          /\ out' = out \o <<"CR", "LF">> /\ at > Len(line)
      BY <1>5 DEF EndLine
    <2>2. at - 1 = Len(line)
      BY <1>1, <2>1 DEF IInv, FoldInv
    <2>3. SubSeq(line, 1, at - 1) = line
      BY <1>1, <2>2, SubSeqFull
    <2>4. Unfold(out) = [content |-> line, state |-> "line"]
      BY <2>1, <2>3 DEF IInv, FoldInv
    <2>5. " " \in S
      BY DEF Chars, Special
    <2>6. Unfold(out') = [content |-> line, state |-> "CRLF"]
      BY <1>1, <2>1, <2>4, <2>5, FoldingUndone
    <2>. QED
      BY <2>1, <2>6 DEF FoldInv
  <1>6. CASE UNCHANGED vars
    BY <1>6 DEF vars, IInv, FoldInv
  <1>. QED
    BY <1>2, <1>3, <1>4, <1>5, <1>6 DEF Next

LEMMA NextIInv ==
    ASSUME IInv, [Next]_vars
    PROVE  IInv'
  BY NextLines, NextEscape, NextFold DEF IInv

\* The invariant holds in every state of every run.
THEOREM TextInvariance == Spec => []IInv
  BY InitIInv, NextIInv, PTL DEF Spec

\* No physical line exceeds Limit octets, whatever the text and its name.
THEOREM LinesAlwaysFit == Spec => []LinesFit
  <1>1. IInv => LinesFit
    BY TextAssumption DEF IInv, TypeOK, BudgetInv, LinesFit
  <1>. QED
    BY <1>1, TextInvariance, PTL

\* "calcard unfolds them on read, so the round-trip is lossless"
\* (src/src/ical.rs:62), of every text and for every length of a line: a reader
\* gets the text back, without its carriage returns.
THEOREM TextsAreReadBack == Spec => []ReadsBack
  <1>1. ASSUME IInv, phase = "done"
        PROVE  ReadBack = WithoutCR(value)
    <2>1. Unfold(out).content = line
      BY <1>1 DEF IInv, FoldInv
    <2>2. ReadBack = WithoutCR(Written)
      BY <1>1, <2>1 DEF IInv, EscapeInv, ReadBack
    <2>3. value \in Seq(Chars)
      BY <1>1, TextAssumption DEF IInv, TypeOK
    <2>4. Written = value
      BY <1>1, <2>3, SubSeqFull DEF Written
    <2>. QED
      BY <2>2, <2>4
  <1>2. IInv => ReadsBack
    BY <1>1 DEF ReadsBack
  <1>. QED
    BY <1>2, TextInvariance, PTL
=============================================================================
