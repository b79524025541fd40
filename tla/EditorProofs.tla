----------------------------- MODULE EditorProofs -----------------------------
(***************************************************************************)
(* Proofs about components that share no state with any other: the import  *)
(* of the libraries of the language model, the commands registered with    *)
(* the editor, the keys of a buffer, the events, the pipe that takes the   *)
(* place of the standard output, the quickfix, the environments, the       *)
(* kernels, the configuration, the tasks of the language model, the screen *)
(* of a terminal and the output of commands.  Each is proved of its own    *)
(* specification, for every value of its constants; the last section joins *)
(* them.  The first has what Lines computes, by induction over its texts.  *)
(***************************************************************************)
EXTENDS Editor, SequenceTheorems, WellFoundedInduction, TLAPS

------------------------------------------------------------------------------
(* Lines: what Folded computes, for every step, and what the steps of      *)
(* Lines make of texts.                                                    *)

\* A set of naturals that holds 0 and with n also n + 1 has them all.
LEMMA NatInduction1 ==
    ASSUME NEW S, 0 \in S, \A n \in Nat : n \in S => n + 1 \in S
    PROVE  \A n \in Nat : n \in S
<1> SUFFICES ASSUME Nat \ S # {} PROVE FALSE
    OBVIOUS
<1>1. PICK n \in Nat \ S : \A m \in Nat \ S : ~(<<m, n>> \in OpToRel(<, Nat))
    BY NatLessThanWellFounded, WFMin
<1>2. n # 0
    OBVIOUS
<1>3. n - 1 \in Nat /\ n - 1 < n /\ (n - 1) + 1 = n
    BY <1>2
<1>4. <<n - 1, n>> \in OpToRel(<, Nat)
    BY <1>3 DEF OpToRel
<1> QED
    BY <1>1, <1>3, <1>4

\* A set of sequences that holds the empty one and with each also those that are
\* longer by one element has them all.
LEMMA SeqInduction1 ==
    ASSUME NEW A, NEW S, <<>> \in S, \A s \in Seq(A) : s \in S => \A x \in A : Append(s, x) \in S
    PROVE  \A s \in Seq(A) : s \in S
<1> DEFINE N == {n \in Nat : \A s \in Seq(A) : Len(s) = n => s \in S}
<1>1. 0 \in N
    OBVIOUS
<1>2. ASSUME NEW n \in Nat, n \in N PROVE n + 1 \in N
  <2>1. ASSUME NEW s \in Seq(A), Len(s) = n + 1 PROVE s \in S
    <3> DEFINE t == SubSeq(s, 1, n)
    <3>1. t \in Seq(A) /\ Len(t) = n /\ s[n + 1] \in A /\ s = Append(t, s[n + 1])
        BY <2>1
    <3>2. t \in S
        BY <1>2, <3>1
    <3> QED
        BY <3>1, <3>2
  <2> QED
      BY <2>1
<1>3. \A n \in Nat : n \in N
  <2> HIDE DEF N
  <2> QED
      BY <1>1, <1>2, NatInduction1
<1> QED
    BY <1>3

\* What there is after the first elements, for each number of them up to n.
IsFold(f, step, first, s, n) ==
    f = [i \in 0 .. n |-> IF i = 0 THEN first ELSE step[f[i - 1]][s[i]]]

LEMMA FoldExists ==
    ASSUME NEW step, NEW first, NEW s, NEW n \in Nat
    PROVE  \E f : IsFold(f, step, first, s, n)
<1> DEFINE S == {k \in Nat : \E f : IsFold(f, step, first, s, k)}
<1>1. 0 \in S
  <2> DEFINE f == [i \in 0 .. 0 |-> first]
  <2>1. f = [i \in 0 .. 0 |-> IF i = 0 THEN first ELSE step[f[i - 1]][s[i]]]
      OBVIOUS
  <2> QED
      BY <2>1 DEF IsFold
<1>2. ASSUME NEW k \in Nat, k \in S PROVE k + 1 \in S
  <2>1. PICK f : IsFold(f, step, first, s, k)
      BY <1>2
  <2> DEFINE g == [i \in 0 .. (k + 1) |-> IF i = k + 1 THEN step[f[k]][s[k + 1]] ELSE f[i]]
  <2>2. ASSUME NEW i \in 0 .. (k + 1) PROVE g[i] = IF i = 0 THEN first ELSE step[g[i - 1]][s[i]]
    <3>1. CASE i = k + 1
      <4>1. i # 0 /\ i - 1 = k /\ g[k] = f[k] /\ g[i] = step[f[k]][s[k + 1]]
          BY <3>1
      <4> QED
          BY <3>1, <4>1
    <3>2. CASE i # k + 1 /\ i # 0
      <4>1. i \in 0 .. k /\ i - 1 \in 0 .. k /\ g[i] = f[i] /\ g[i - 1] = f[i - 1]
          BY <3>2
      <4>2. f[i] = step[f[i - 1]][s[i]]
          BY <2>1, <3>2, <4>1 DEF IsFold
      <4> QED
          BY <3>2, <4>1, <4>2
    <3>3. CASE i = 0
      <4>1. 0 \in 0 .. k /\ 0 # k + 1 /\ g[0] = f[0]
          OBVIOUS
      <4>2. f[0] = first
          BY <2>1, <4>1 DEF IsFold
      <4>3. g[0] = first
          BY <4>1, <4>2, Zenon
      <4> QED
          BY <3>3, <4>3
    <3> QED
        BY <3>1, <3>2, <3>3
  <2>3. g = [i \in 0 .. (k + 1) |-> g[i]]
      OBVIOUS
  <2> HIDE DEF g
  <2>4. g = [i \in 0 .. (k + 1) |-> IF i = 0 THEN first ELSE step[g[i - 1]][s[i]]]
      BY <2>2, <2>3
  <2> QED
      BY <2>4 DEF IsFold
<1> HIDE DEF S
<1>3. n \in S
    BY <1>1, <1>2, NatInduction1
<1> QED
    BY <1>3 DEF S

LEMMA FoldedIs ==
    ASSUME NEW step, NEW first, NEW s, Len(s) \in Nat
    PROVE  \E f : IsFold(f, step, first, s, Len(s)) /\ Folded(step, first, s) = f[Len(s)]
<1> DEFINE f == CHOOSE g : IsFold(g, step, first, s, Len(s))
<1>1. IsFold(f, step, first, s, Len(s))
    BY FoldExists
<1>2. Folded(step, first, s) = f[Len(s)]
    BY DEF Folded, IsFold
<1> QED
    BY <1>1, <1>2

LEMMA FoldedEmpty ==
    ASSUME NEW step, NEW first
    PROVE  Folded(step, first, <<>>) = first
<1> DEFINE e == <<>>
<1>1. Len(e) = 0
    OBVIOUS
<1> HIDE DEF e
<1>2. PICK f : IsFold(f, step, first, e, 0) /\ Folded(step, first, e) = f[0]
    BY <1>1, FoldedIs
<1>3. f[0] = first
    BY <1>2 DEF IsFold
<1>4. Folded(step, first, e) = first
    BY <1>2, <1>3, Zenon
<1> QED
    BY <1>4 DEF e

LEMMA FoldedAppend ==
    ASSUME NEW A, NEW s \in Seq(A), NEW x \in A, NEW step, NEW first
    PROVE  Folded(step, first, Append(s, x)) = step[Folded(step, first, s)][x]
<1> DEFINE n == Len(s)
           t == Append(s, x)
<1>1. n \in Nat /\ Len(t) = n + 1 /\ t[n + 1] = x /\ \A i \in 1 .. n : t[i] = s[i]
    OBVIOUS
<1>2. PICK f : IsFold(f, step, first, s, n) /\ Folded(step, first, s) = f[n]
    BY <1>1, FoldedIs
<1> HIDE DEF n, t
<1>3. PICK g : IsFold(g, step, first, t, n + 1) /\ Folded(step, first, t) = g[n + 1]
  <2>1. Len(t) \in Nat
      BY <1>1
  <2>2. PICK g : IsFold(g, step, first, t, Len(t)) /\ Folded(step, first, t) = g[Len(t)]
      BY <2>1, FoldedIs
  <2> QED
      BY <1>1, <2>2, Zenon
<1>4. f[0] = first /\ g[0] = first
    BY <1>1, <1>2, <1>3 DEF IsFold
<1>5. ASSUME NEW k \in Nat, k < n PROVE f[k + 1] = step[f[k]][s[k + 1]]
  <2>1. k + 1 \in 0 .. n /\ k + 1 # 0 /\ (k + 1) - 1 = k
      BY <1>1, <1>5
  <2> QED
      BY <1>2, <2>1 DEF IsFold
<1>6. ASSUME NEW k \in Nat, k <= n PROVE g[k + 1] = step[g[k]][t[k + 1]]
  <2>1. k + 1 \in 0 .. n + 1 /\ k + 1 # 0 /\ (k + 1) - 1 = k
      BY <1>1, <1>6
  <2> QED
      BY <1>3, <2>1 DEF IsFold
<1> DEFINE S == {k \in Nat : k <= n => g[k] = f[k]}
<1>7. 0 \in S
  <2>1. g[0] = f[0]
      BY <1>4, Zenon
  <2> QED
      BY <2>1
<1>8. ASSUME NEW k \in Nat, k \in S PROVE k + 1 \in S
  <2>1. ASSUME k + 1 <= n PROVE g[k + 1] = f[k + 1]
    <3>1. k < n /\ k <= n /\ g[k] = f[k] /\ t[k + 1] = s[k + 1]
        BY <1>1, <1>8, <2>1
    <3> QED
        BY <1>5, <1>6, <3>1
  <2> QED
      BY <2>1
<1>9. n \in S
  <2> HIDE DEF S
  <2> QED
      BY <1>1, <1>7, <1>8, NatInduction1
<1>10. g[n] = f[n] /\ g[n + 1] = step[g[n]][x]
    BY <1>1, <1>6, <1>9
<1>11. Folded(step, first, t) = step[Folded(step, first, s)][x]
    BY <1>2, <1>3, <1>10, Zenon
<1> QED
    BY <1>11 DEF t

\* A sequence behind another is dealt with when the other has been.
LEMMA FoldedConcat ==
    ASSUME NEW A, NEW s \in Seq(A), NEW t \in Seq(A), NEW step, NEW first
    PROVE  Folded(step, first, s \o t) = Folded(step, Folded(step, first, s), t)
<1> DEFINE mid == Folded(step, first, s)
           S   == {u \in Seq(A) : Folded(step, first, s \o u) = Folded(step, mid, u)}
<1>1. <<>> \in S
  <2>1. s \o <<>> = s /\ <<>> \in Seq(A)
      OBVIOUS
  <2>2. Folded(step, mid, <<>>) = mid
      BY FoldedEmpty
  <2> QED
      BY <2>1, <2>2
<1>2. ASSUME NEW u \in Seq(A), u \in S, NEW x \in A PROVE Append(u, x) \in S
  <2>1. s \o Append(u, x) = Append(s \o u, x) /\ s \o u \in Seq(A) /\ Append(u, x) \in Seq(A)
      OBVIOUS
  <2>2. Folded(step, first, Append(s \o u, x)) = step[Folded(step, first, s \o u)][x]
      BY <2>1, FoldedAppend
  <2>3. Folded(step, mid, Append(u, x)) = step[Folded(step, mid, u)][x]
      BY FoldedAppend
  <2>4. Folded(step, first, s \o u) = Folded(step, mid, u)
      BY <1>2
  <2>5. Folded(step, first, s \o Append(u, x)) = Folded(step, mid, Append(u, x))
      BY <2>1, <2>2, <2>3, <2>4, Zenon
  <2> QED
      BY <2>1, <2>5
<1> HIDE DEF S
<1>3. t \in S
    BY <1>1, <1>2, SeqInduction1
<1> QED
    BY <1>3 DEF S

LEMMA Steps ==
    ASSUME NEW text \in Strings, NEW more \in Strings, NEW c \in Characters, NEW lines \in StringLists
    PROVE  /\ AddText[text][more] = text \o more
           /\ CutStep[lines][c] = IF c = LF THEN Append(lines, <<>>)
                                  ELSE Append(Front(lines), Append(Last(lines), c))
           /\ JoinStep[text][more] = Append(text, LF) \o more
           /\ UnbrokenStep[text][c] = IF c = LF THEN text ELSE Append(text, c)
           /\ SolidStep[lines][more] = IF more = <<>> THEN lines ELSE Append(lines, more)
    BY DEF AddText, CutStep, JoinStep, UnbrokenStep, SolidStep

\* A sequence that is not empty, by its last element.
LEMMA FrontAndLast ==
    ASSUME NEW A, NEW s \in Seq(A), s # <<>>
    PROVE  Front(s) \in Seq(A) /\ Last(s) \in A /\ s = Append(Front(s), Last(s))
    BY DEF Front, Last

LEMMA AppendedLast ==
    ASSUME NEW A, NEW s \in Seq(A), NEW x \in A
    PROVE  /\ Append(s, x) \in Seq(A) /\ Append(s, x) # <<>> /\ <<x>> = Append(<<>>, x)
           /\ Front(Append(s, x)) = s /\ Last(Append(s, x)) = x
    BY DEF Front, Last

LEMMA ConcatAppend ==
    ASSUME NEW A, NEW s \in Seq(A), NEW t \in Seq(A), NEW x \in A
    PROVE  /\ s \o Append(t, x) = Append(s \o t, x) /\ s \o t \in Seq(A) /\ Append(t, x) \in Seq(A)
           /\ s \o <<>> = s /\ <<>> \o s = s
    OBVIOUS

LEMMA Associative ==
    ASSUME NEW A, NEW r \in Seq(A), NEW s \in Seq(A), NEW t \in Seq(A)
    PROVE  (r \o s) \o t = r \o (s \o t) /\ s \o t \in Seq(A)
    BY ConcatAssociative

LEMMA StringsAssociate ==
    ASSUME NEW r \in Strings, NEW s \in Strings, NEW t \in Strings
    PROVE  (r \o s) \o t = r \o (s \o t) /\ s \o t \in Strings
    BY Associative DEF Strings

LEMMA ListsAssociate ==
    ASSUME NEW r \in StringLists, NEW s \in StringLists, NEW t \in StringLists
    PROVE  (r \o s) \o t = r \o (s \o t) /\ s \o t \in StringLists
    BY Associative DEF StringLists

\* One list of lines is the beginning of another.
Begins(shorter, longer) == \E more \in StringLists : longer = shorter \o more

\* The beginning of a list is a beginning of whatever is appended to that list.
LEMMA BeginningKept ==
    ASSUME NEW u \in StringLists, NEW v, NEW w \in StringLists, Begins(u, v)
    PROVE  Begins(u, v \o w)
<1>1. PICK more \in StringLists : v = u \o more
    BY DEF Begins
<1>2. (u \o more) \o w = u \o (more \o w) /\ more \o w \in StringLists
    BY ListsAssociate
<1> QED
    BY <1>1, <1>2, Zenon DEF Begins

LEMMA LineAppended ==
    ASSUME NEW lines \in StringLists, NEW l \in Strings
    PROVE  /\ Append(lines, l) \in StringLists /\ Append(lines, l) # <<>> /\ <<l>> = Append(<<>>, l)
           /\ Front(Append(lines, l)) = lines /\ Last(Append(lines, l)) = l
    BY AppendedLast DEF StringLists

LEMMA NoText == <<>> \in Strings /\ <<>> \in StringLists /\ LF \in Characters
    BY LinesAssumption DEF Strings, StringLists

LEMMA FlatAppend ==
    /\ Flat(<<>>) = <<>>
    /\ \A lines \in StringLists : Flat(lines) \in Strings
    /\ \A lines \in StringLists, l \in Strings : Flat(Append(lines, l)) = Flat(lines) \o l
<1> DEFINE S == {lines \in StringLists : Flat(lines) \in Strings}
<1>1. Flat(<<>>) = <<>>
    BY FoldedEmpty DEF Flat
<1>2. ASSUME NEW lines \in StringLists, NEW l \in Strings, Flat(lines) \in Strings
      PROVE  Flat(Append(lines, l)) = Flat(lines) \o l
  <2>1. Flat(Append(lines, l)) = AddText[Flat(lines)][l]
      BY FoldedAppend DEF Flat, StringLists
  <2> QED
      BY <1>2, <2>1, Steps, NoText
<1>3. <<>> \in S
    BY <1>1, NoText
<1>4. ASSUME NEW lines \in StringLists, lines \in S, NEW l \in Strings PROVE Append(lines, l) \in S
  <2>1. Append(lines, l) \in StringLists /\ Flat(lines) \o l \in Strings
      BY <1>4 DEF Strings, StringLists
  <2> QED
      BY <1>2, <1>4, <2>1
<1>5. \A lines \in StringLists : lines \in S
  <2> HIDE DEF S
  <2> QED
      BY <1>3, <1>4, SeqInduction1 DEF StringLists
<1> QED
    BY <1>1, <1>2, <1>5

LEMMA FlatConcat ==
    ASSUME NEW lines \in StringLists, NEW more \in StringLists
    PROVE  lines \o more \in StringLists /\ Flat(lines \o more) = Flat(lines) \o Flat(more)
<1> DEFINE S == {m \in StringLists : Flat(lines \o m) = Flat(lines) \o Flat(m)}
<1>1. <<>> \in S
  <2>1. lines \o <<>> = lines /\ Flat(lines) \o <<>> = Flat(lines)
      BY FlatAppend DEF Strings, StringLists
  <2> QED
      BY <2>1, FlatAppend, NoText
<1>2. ASSUME NEW m \in StringLists, m \in S, NEW l \in Strings PROVE Append(m, l) \in S
  <2>1. lines \o Append(m, l) = Append(lines \o m, l) /\ lines \o m \in StringLists /\ Append(m, l) \in StringLists
      BY ConcatAppend DEF StringLists
  <2>2. Flat(Append(lines \o m, l)) = Flat(lines \o m) \o l /\ Flat(Append(m, l)) = Flat(m) \o l
      BY <2>1, FlatAppend
  <2>3. (Flat(lines) \o Flat(m)) \o l = Flat(lines) \o (Flat(m) \o l)
    <3>1. Flat(lines) \in Strings /\ Flat(m) \in Strings
        BY FlatAppend
    <3> QED
        BY <3>1, StringsAssociate
  <2> QED
      BY <1>2, <2>1, <2>2, <2>3
<1>3. more \in S
  <2> HIDE DEF S
  <2> QED
      BY <1>1, <1>2, SeqInduction1 DEF StringLists
<1> QED
    BY <1>3 DEF StringLists

LEMMA UnbrokenAppend ==
    /\ Unbroken(<<>>) = <<>>
    /\ \A t \in Strings : Unbroken(t) \in Strings
    /\ \A t \in Strings, c \in Characters :
          Unbroken(Append(t, c)) = IF c = LF THEN Unbroken(t) ELSE Append(Unbroken(t), c)
<1> DEFINE S == {t \in Strings : Unbroken(t) \in Strings}
<1>1. Unbroken(<<>>) = <<>>
    BY FoldedEmpty DEF Unbroken
<1>2. ASSUME NEW t \in Strings, NEW c \in Characters, Unbroken(t) \in Strings
      PROVE  Unbroken(Append(t, c)) = IF c = LF THEN Unbroken(t) ELSE Append(Unbroken(t), c)
  <2>1. Unbroken(Append(t, c)) = UnbrokenStep[Unbroken(t)][c]
      BY FoldedAppend DEF Unbroken, Strings
  <2> QED
      BY <1>2, <2>1, Steps, NoText
<1>3. <<>> \in S
    BY <1>1, NoText
<1>4. ASSUME NEW t \in Strings, t \in S, NEW c \in Characters PROVE Append(t, c) \in S
  <2>1. Append(t, c) \in Strings /\ Append(Unbroken(t), c) \in Strings
      BY <1>4, AppendedLast DEF Strings
  <2> QED
      BY <1>2, <1>4, <2>1
<1>5. \A t \in Strings : t \in S
  <2> HIDE DEF S
  <2> QED
      BY <1>3, <1>4, SeqInduction1 DEF Strings
<1> QED
    BY <1>1, <1>2, <1>5

LEMMA UnbrokenConcat ==
    ASSUME NEW s \in Strings, NEW t \in Strings
    PROVE  s \o t \in Strings /\ Unbroken(s \o t) = Unbroken(s) \o Unbroken(t)
<1> DEFINE S == {u \in Strings : Unbroken(s \o u) = Unbroken(s) \o Unbroken(u)}
<1>1. <<>> \in S
  <2>1. s \o <<>> = s /\ Unbroken(s) \o <<>> = Unbroken(s)
      BY UnbrokenAppend DEF Strings
  <2> QED
      BY <2>1, UnbrokenAppend, NoText
<1>2. ASSUME NEW u \in Strings, u \in S, NEW c \in Characters PROVE Append(u, c) \in S
  <2>1. s \o Append(u, c) = Append(s \o u, c) /\ s \o u \in Strings /\ Append(u, c) \in Strings
      BY ConcatAppend DEF Strings
  <2>2. Unbroken(s) \o Append(Unbroken(u), c) = Append(Unbroken(s) \o Unbroken(u), c)
      BY UnbrokenAppend, ConcatAppend DEF Strings
  <2> QED
      BY <1>2, <2>1, <2>2, UnbrokenAppend
<1>3. t \in S
  <2> HIDE DEF S
  <2> QED
      BY <1>1, <1>2, SeqInduction1 DEF Strings
<1> QED
    BY <1>3 DEF Strings

LEMMA SolidAppend ==
    /\ Solid(<<>>) = <<>>
    /\ \A lines \in StringLists : Solid(lines) \in StringLists
    /\ \A lines \in StringLists, l \in Strings :
          Solid(Append(lines, l)) = IF l = <<>> THEN Solid(lines) ELSE Append(Solid(lines), l)
<1> DEFINE S == {lines \in StringLists : Solid(lines) \in StringLists}
<1>1. Solid(<<>>) = <<>>
    BY FoldedEmpty DEF Solid
<1>2. ASSUME NEW lines \in StringLists, NEW l \in Strings, Solid(lines) \in StringLists
      PROVE  Solid(Append(lines, l)) = IF l = <<>> THEN Solid(lines) ELSE Append(Solid(lines), l)
  <2>1. Solid(Append(lines, l)) = SolidStep[Solid(lines)][l]
      BY FoldedAppend DEF Solid, StringLists
  <2> QED
      BY <1>2, <2>1, Steps, NoText
<1>3. <<>> \in S
    BY <1>1, NoText
<1>4. ASSUME NEW lines \in StringLists, lines \in S, NEW l \in Strings PROVE Append(lines, l) \in S
  <2>1. Append(lines, l) \in StringLists /\ Append(Solid(lines), l) \in StringLists
      BY <1>4 DEF StringLists
  <2> QED
      BY <1>2, <1>4, <2>1
<1>5. \A lines \in StringLists : lines \in S
  <2> HIDE DEF S
  <2> QED
      BY <1>3, <1>4, SeqInduction1 DEF StringLists
<1> QED
    BY <1>1, <1>2, <1>5

LEMMA SolidConcat ==
    ASSUME NEW lines \in StringLists, NEW more \in StringLists
    PROVE  Solid(lines \o more) = Solid(lines) \o Solid(more)
<1> DEFINE S == {m \in StringLists : Solid(lines \o m) = Solid(lines) \o Solid(m)}
<1>1. <<>> \in S
  <2>1. lines \o <<>> = lines /\ Solid(lines) \o <<>> = Solid(lines)
      BY SolidAppend DEF StringLists
  <2> QED
      BY <2>1, SolidAppend, NoText
<1>2. ASSUME NEW m \in StringLists, m \in S, NEW l \in Strings PROVE Append(m, l) \in S
  <2>1. lines \o Append(m, l) = Append(lines \o m, l) /\ lines \o m \in StringLists /\ Append(m, l) \in StringLists
      BY ConcatAppend DEF StringLists
  <2>2. Solid(lines) \o Append(Solid(m), l) = Append(Solid(lines) \o Solid(m), l)
      BY SolidAppend, ConcatAppend DEF StringLists
  <2>3. /\ Solid(Append(lines \o m, l)) = IF l = <<>> THEN Solid(lines \o m) ELSE Append(Solid(lines \o m), l)
        /\ Solid(Append(m, l)) = IF l = <<>> THEN Solid(m) ELSE Append(Solid(m), l)
      BY <2>1, SolidAppend
  <2>4. Solid(lines \o m) = Solid(lines) \o Solid(m)
      BY <1>2
  <2>5. Solid(Append(lines \o m, l)) = Solid(lines) \o Solid(Append(m, l))
      BY <2>2, <2>3, <2>4, Zenon
  <2> QED
      BY <2>1, <2>5, Zenon
<1>3. more \in S
  <2> HIDE DEF S
  <2> QED
      BY <1>1, <1>2, SeqInduction1 DEF StringLists
<1> QED
    BY <1>3

\* The lines of a text, and the text that they leave when they are put together.
LEMMA CutAppend ==
    /\ CutLines(<<>>) = <<<<>>>>
    /\ \A t \in Strings : CutLines(t) \in StringLists /\ CutLines(t) # <<>>
    /\ \A t \in Strings, c \in Characters :
          CutLines(Append(t, c)) = IF c = LF THEN Append(CutLines(t), <<>>)
                                   ELSE Append(Front(CutLines(t)), Append(Last(CutLines(t)), c))
<1> DEFINE S == {t \in Strings : CutLines(t) \in StringLists /\ CutLines(t) # <<>>}
<1>1. CutLines(<<>>) = <<<<>>>>
    BY FoldedEmpty DEF CutLines
<1>2. ASSUME NEW t \in Strings, NEW c \in Characters, CutLines(t) \in StringLists
      PROVE  CutLines(Append(t, c)) = IF c = LF THEN Append(CutLines(t), <<>>)
                                      ELSE Append(Front(CutLines(t)), Append(Last(CutLines(t)), c))
  <2>1. CutLines(Append(t, c)) = CutStep[CutLines(t)][c]
      BY FoldedAppend DEF CutLines, Strings
  <2> QED
      BY <1>2, <2>1, Steps, NoText
<1>3. <<>> \in S
  <2>1. <<<<>>>> \in StringLists /\ <<<<>>>> # <<>>
      BY NoText DEF StringLists
  <2> QED
      BY <1>1, <2>1, NoText
<1>4. ASSUME NEW t \in Strings, t \in S, NEW c \in Characters PROVE Append(t, c) \in S
  <2>1. Front(CutLines(t)) \in StringLists /\ Last(CutLines(t)) \in Strings
      BY <1>4, FrontAndLast DEF StringLists
  <2>2. Append(Last(CutLines(t)), c) \in Strings /\ Append(t, c) \in Strings
      BY <2>1, AppendedLast DEF Strings
  <2>3. \A lines \in StringLists, l \in Strings : Append(lines, l) \in StringLists /\ Append(lines, l) # <<>>
      BY AppendedLast DEF StringLists
  <2>4. CutLines(t) \in StringLists
      BY <1>4
  <2>5. CutLines(Append(t, c)) \in StringLists /\ CutLines(Append(t, c)) # <<>>
    <3>1. CASE c = LF
      <4>1. CutLines(Append(t, c)) = Append(CutLines(t), <<>>)
          BY <1>2, <2>4, <3>1
      <4> QED
          BY <2>3, <2>4, <4>1, NoText
    <3>2. CASE c # LF
      <4>1. CutLines(Append(t, c)) = Append(Front(CutLines(t)), Append(Last(CutLines(t)), c))
          BY <1>2, <2>4, <3>2
      <4> QED
          BY <2>1, <2>2, <2>3, <4>1
    <3> QED
        BY <3>1, <3>2
  <2> QED
      BY <2>2, <2>5
<1>5. \A t \in Strings : t \in S
  <2> HIDE DEF S
  <2> QED
      BY <1>3, <1>4, SeqInduction1 DEF Strings
<1> QED
    BY <1>1, <1>2, <1>5

\* All the characters but the breaks are in the lines, and no break is.
LEMMA CutKeepsTheText ==
    ASSUME NEW text \in Strings
    PROVE  /\ Flat(CutLines(text)) = Unbroken(text)
           /\ Unbroken(Last(CutLines(text))) = Last(CutLines(text))
<1> DEFINE S == {t \in Strings : /\ Flat(CutLines(t)) = Unbroken(t)
                                 /\ Unbroken(Last(CutLines(t))) = Last(CutLines(t))}
<1>1. <<>> \in S
  <2> DEFINE e == <<>>
  <2>1. CutLines(e) = Append(e, e) /\ e \in Strings /\ e \in StringLists
      BY CutAppend, NoText
  <2>2. Last(Append(e, e)) = e
      BY <2>1, LineAppended
  <2>3. Flat(Append(e, e)) = Flat(e) \o e /\ Flat(e) = e /\ Unbroken(e) = e
      BY <2>1, FlatAppend, UnbrokenAppend
  <2>4. e \o e = e
      OBVIOUS
  <2> HIDE DEF e
  <2>5. Flat(CutLines(e)) = Unbroken(e) /\ Unbroken(Last(CutLines(e))) = Last(CutLines(e))
      BY <2>1, <2>2, <2>3, <2>4
  <2>6. e \in S
      BY <2>1, <2>5
  <2> QED
      BY <2>6 DEF e
<1>2. ASSUME NEW t \in Strings, t \in S, NEW c \in Characters PROVE Append(t, c) \in S
  <2> DEFINE F == Front(CutLines(t))
             L == Last(CutLines(t))
  <2>1. /\ F \in StringLists /\ L \in Strings /\ CutLines(t) = Append(F, L)
        /\ CutLines(t) \in StringLists /\ Append(t, c) \in Strings /\ Append(L, c) \in Strings
      BY CutAppend, FrontAndLast, AppendedLast DEF Strings, StringLists
  <2>2. CASE c = LF
    <3>1. CutLines(Append(t, c)) = Append(CutLines(t), <<>>) /\ Unbroken(Append(t, c)) = Unbroken(t)
        BY <2>2, CutAppend, UnbrokenAppend
    <3>2. Flat(Append(CutLines(t), <<>>)) = Flat(CutLines(t)) \o <<>> /\ Flat(CutLines(t)) \in Strings
        BY <2>1, FlatAppend, NoText
    <3>3. Flat(CutLines(t)) \o <<>> = Flat(CutLines(t))
        BY <3>2, ConcatAppend, NoText DEF Strings
    <3>4. Last(Append(CutLines(t), <<>>)) = <<>>
        BY <2>1, LineAppended, NoText
    <3> QED
        BY <1>2, <2>1, <3>1, <3>2, <3>3, <3>4, UnbrokenAppend
  <2>3. CASE c # LF
    <3>1. /\ CutLines(Append(t, c)) = Append(F, Append(L, c))
          /\ Unbroken(Append(t, c)) = Append(Unbroken(t), c) /\ Unbroken(Append(L, c)) = Append(Unbroken(L), c)
        BY <2>1, <2>3, CutAppend, UnbrokenAppend
    <3>2. /\ Flat(Append(F, Append(L, c))) = Flat(F) \o Append(L, c) /\ Flat(Append(F, L)) = Flat(F) \o L
          /\ Flat(F) \in Strings
        BY <2>1, FlatAppend
    <3>3. Flat(F) \o Append(L, c) = Append(Flat(F) \o L, c)
        BY <2>1, <3>2, ConcatAppend DEF Strings
    <3>4. Last(Append(F, Append(L, c))) = Append(L, c)
        BY <2>1, LineAppended
    <3>5. Flat(CutLines(t)) = Unbroken(t) /\ Unbroken(L) = L
        BY <1>2
    <3> HIDE DEF F, L
    <3> QED
        BY <2>1, <3>1, <3>2, <3>3, <3>4, <3>5
  <2> QED
      BY <2>2, <2>3
<1>3. text \in S
  <2> HIDE DEF S
  <2> QED
      BY <1>1, <1>2, SeqInduction1 DEF Strings
<1> QED
    BY <1>3

\* What comes behind some lines changes the last of them only.
LEMMA CutBehind ==
    ASSUME NEW lines \in StringLists, NEW l \in Strings, NEW text \in Strings
    PROVE  /\ Folded(CutStep, <<l>>, text) \in StringLists /\ Folded(CutStep, <<l>>, text) # <<>>
           /\ Folded(CutStep, Append(lines, l), text) = lines \o Folded(CutStep, <<l>>, text)
<1> DEFINE G(t) == Folded(CutStep, <<l>>, t)
           H(t) == Folded(CutStep, Append(lines, l), t)
           S == {t \in Strings : G(t) \in StringLists /\ G(t) # <<>> /\ H(t) = lines \o G(t)}
<1>1. <<>> \in S
  <2>1. G(<<>>) = <<l>> /\ H(<<>>) = Append(lines, l)
      BY FoldedEmpty
  <2>2. <<l>> \in StringLists /\ <<l>> # <<>> /\ lines \o <<l>> = Append(lines, l)
      BY DEF StringLists
  <2> QED
      BY <2>1, <2>2, NoText
<1>2. ASSUME NEW t \in Strings, t \in S, NEW c \in Characters PROVE Append(t, c) \in S
  <2> DEFINE F == Front(G(t))
             L == Last(G(t))
  <2>1. G(Append(t, c)) = CutStep[G(t)][c] /\ H(Append(t, c)) = CutStep[H(t)][c]
      BY FoldedAppend DEF Strings
  <2>2. G(t) \in StringLists /\ G(t) # <<>> /\ H(t) = lines \o G(t)
      BY <1>2
  <2> HIDE DEF G, H
  <2>3. F \in StringLists /\ L \in Strings /\ G(t) = Append(F, L)
      BY <2>2, FrontAndLast DEF StringLists
  <2>4. /\ lines \o F \in StringLists
        /\ lines \o Append(F, L) = Append(lines \o F, L)
        /\ Append(L, c) \in Strings /\ Append(t, c) \in Strings
    <3>1. lines \o F \in StringLists /\ lines \o Append(F, L) = Append(lines \o F, L)
        BY <2>3, ConcatAppend DEF StringLists
    <3>2. Append(L, c) \in Strings
        BY <2>3, AppendedLast DEF Strings
    <3>3. Append(t, c) \in Strings
        BY AppendedLast DEF Strings
    <3> QED
        BY <3>1, <3>2, <3>3, Zenon
  <2> HIDE DEF F, L
  <2>5. H(t) = Append(lines \o F, L) /\ H(t) \in StringLists
      BY <2>2, <2>3, <2>4, AppendedLast DEF StringLists
  <2>6. Front(H(t)) = lines \o F /\ Last(H(t)) = L /\ Front(G(t)) = F /\ Last(G(t)) = L
    <3>1. Front(Append(lines \o F, L)) = lines \o F /\ Last(Append(lines \o F, L)) = L
        BY <2>3, <2>4, LineAppended
    <3>2. Front(Append(F, L)) = F /\ Last(Append(F, L)) = L
        BY <2>3, LineAppended
    <3> QED
        BY <2>3, <2>5, <3>1, <3>2, Zenon
  <2>7. /\ CutStep[G(t)][c] = IF c = LF THEN Append(G(t), <<>>) ELSE Append(F, Append(L, c))
        /\ CutStep[H(t)][c] = IF c = LF THEN Append(H(t), <<>>) ELSE Append(lines \o F, Append(L, c))
    <3>1. /\ CutStep[G(t)][c] = IF c = LF THEN Append(G(t), <<>>)
                                ELSE Append(Front(G(t)), Append(Last(G(t)), c))
          /\ CutStep[H(t)][c] = IF c = LF THEN Append(H(t), <<>>)
                                ELSE Append(Front(H(t)), Append(Last(H(t)), c))
        BY <2>2, <2>5, Steps, NoText
    <3> QED
        BY <2>6, <3>1
  <2>8. /\ lines \o Append(G(t), <<>>) = Append(lines \o G(t), <<>>)
        /\ Append(G(t), <<>>) \in StringLists /\ Append(G(t), <<>>) # <<>>
      BY <2>2, NoText, ConcatAppend, AppendedLast DEF StringLists
  <2>9. /\ lines \o Append(F, Append(L, c)) = Append(lines \o F, Append(L, c))
        /\ Append(F, Append(L, c)) \in StringLists /\ Append(F, Append(L, c)) # <<>>
    <3>1. lines \o Append(F, Append(L, c)) = Append(lines \o F, Append(L, c))
        BY <2>3, <2>4, ConcatAppend DEF StringLists
    <3> QED
        BY <2>3, <2>4, <3>1, LineAppended
  <2>10. /\ G(Append(t, c)) \in StringLists /\ G(Append(t, c)) # <<>>
         /\ H(Append(t, c)) = lines \o G(Append(t, c))
    <3>1. CASE c = LF
        BY <2>1, <2>2, <2>7, <2>8, <3>1
    <3>2. CASE c # LF
        BY <2>1, <2>7, <2>9, <3>2
    <3> QED
        BY <3>1, <3>2
  <2> QED
      BY <2>4, <2>10
<1>3. text \in S
  <2> HIDE DEF S
  <2> QED
      BY <1>1, <1>2, SeqInduction1 DEF Strings
<1> QED
    BY <1>3

\* A text without a break is its own line.
LEMMA CutOfALine ==
    ASSUME NEW l \in Strings, Unbroken(l) = l
    PROVE  CutLines(l) = <<l>>
<1> DEFINE S == {t \in Strings : CutLines(Unbroken(t)) = <<Unbroken(t)>>}
<1>1. <<>> \in S
    BY CutAppend, UnbrokenAppend, NoText
<1>2. ASSUME NEW t \in Strings, t \in S, NEW c \in Characters PROVE Append(t, c) \in S
  <2> DEFINE u == Unbroken(t)
  <2>1. u \in Strings /\ Append(t, c) \in Strings /\ Append(u, c) \in Strings
      BY UnbrokenAppend, AppendedLast DEF Strings
  <2>2. CutLines(u) = <<u>>
      BY <1>2
  <2>3. Unbroken(Append(t, c)) = IF c = LF THEN u ELSE Append(u, c)
      BY UnbrokenAppend
  <2> HIDE DEF u
  <2>4. Front(<<u>>) = <<>> /\ Last(<<u>>) = u
      BY <2>1, LineAppended, NoText
  <2>5. c # LF => CutLines(Append(u, c)) = Append(<<>>, Append(u, c))
    <3>1. c # LF => CutLines(Append(u, c)) = Append(Front(CutLines(u)), Append(Last(CutLines(u)), c))
        BY <2>1, CutAppend
    <3> QED
        BY <2>2, <2>4, <3>1, Zenon
  <2>6. Append(<<>>, Append(u, c)) = <<Append(u, c)>>
      BY <2>1, LineAppended
  <2> QED
      BY <2>1, <2>2, <2>3, <2>5, <2>6
<1>3. l \in S
  <2> HIDE DEF S
  <2> QED
      BY <1>1, <1>2, SeqInduction1 DEF Strings
<1> QED
    BY <1>3

\* The lines of a text that goes on are those before, and those of the last of them
\* with what comes behind it.
LEMMA CutGoesOn ==
    ASSUME NEW text \in Strings, NEW more \in Strings
    PROVE  LET cut == CutLines(text)
           IN  CutLines(text \o more) = Front(cut) \o CutLines(Last(cut) \o more)
<1> DEFINE cut == CutLines(text)
<1>1. /\ Front(cut) \in StringLists /\ Last(cut) \in Strings /\ cut = Append(Front(cut), Last(cut))
      /\ Unbroken(Last(cut)) = Last(cut)
    BY CutAppend, FrontAndLast, CutKeepsTheText DEF StringLists
<1>2. CutLines(Last(cut)) = <<Last(cut)>>
    BY <1>1, CutOfALine
<1>3. CutLines(text \o more) = Folded(CutStep, cut, more)
    BY FoldedConcat DEF CutLines, Strings
<1>4. CutLines(Last(cut) \o more) = Folded(CutStep, CutLines(Last(cut)), more)
    BY <1>1, FoldedConcat DEF CutLines, Strings
<1> HIDE DEF cut
<1>5. Folded(CutStep, cut, more) = Front(cut) \o Folded(CutStep, <<Last(cut)>>, more)
  <2> DEFINE F == Front(cut)
             L == Last(cut)
  <2>1. F \in StringLists /\ L \in Strings /\ cut = Append(F, L)
      BY <1>1
  <2> HIDE DEF F, L
  <2>2. Folded(CutStep, Append(F, L), more) = F \o Folded(CutStep, <<L>>, more)
      BY <2>1, CutBehind
  <2>3. Folded(CutStep, cut, more) = F \o Folded(CutStep, <<L>>, more)
      BY <2>1, <2>2, Zenon
  <2> QED
      BY <2>3 DEF F, L
<1>6. CutLines(text \o more) = Front(cut) \o CutLines(Last(cut) \o more)
    BY <1>2, <1>3, <1>4, <1>5, Zenon
<1> QED
    BY <1>6 DEF cut

\* A text that ends with a break has an empty last line.
LEMMA CutOfALastBreak ==
    ASSUME NEW text \in Strings, text # <<>>, Last(text) = LF
    PROVE  Last(CutLines(text)) = <<>>
<1>1. Front(text) \in Strings /\ text = Append(Front(text), LF)
    BY FrontAndLast DEF Strings
<1>2. CutLines(text) = Append(CutLines(Front(text)), <<>>)
    BY <1>1, CutAppend, LinesAssumption
<1> QED
    BY <1>1, <1>2, CutAppend, LineAppended, NoText

LEMMA JoinTyped ==
    ASSUME NEW lines \in StringLists, lines # <<>>
    PROVE  JoinLines(lines) \in Strings
<1> DEFINE first == Head(lines)
           S == {s \in StringLists : Folded(JoinStep, first, s) \in Strings}
<1>1. first \in Strings /\ Tail(lines) \in StringLists
    BY DEF StringLists
<1>2. <<>> \in S
  <2>1. Folded(JoinStep, first, <<>>) = first
      BY FoldedEmpty
  <2> QED
      BY <1>1, <2>1, NoText
<1>3. ASSUME NEW s \in StringLists, s \in S, NEW l \in Strings PROVE Append(s, l) \in S
  <2>1. Folded(JoinStep, first, Append(s, l)) = JoinStep[Folded(JoinStep, first, s)][l]
      BY FoldedAppend DEF StringLists
  <2>2. \A t \in Strings : Append(t, LF) \o l \in Strings
      BY ConcatAppend, LinesAssumption DEF Strings
  <2>3. Append(s, l) \in StringLists
      BY AppendedLast DEF StringLists
  <2>4. Folded(JoinStep, first, s) \in Strings
      BY <1>3
  <2> HIDE DEF first
  <2>5. JoinStep[Folded(JoinStep, first, s)][l] = Append(Folded(JoinStep, first, s), LF) \o l
      BY <2>4, Steps, NoText
  <2>6. Folded(JoinStep, first, Append(s, l)) \in Strings
      BY <2>1, <2>2, <2>4, <2>5
  <2> QED
      BY <2>3, <2>6
<1>4. Tail(lines) \in S
  <2> HIDE DEF S
  <2> QED
      BY <1>1, <1>2, <1>3, SeqInduction1 DEF StringLists
<1> QED
    BY <1>4 DEF JoinLines

\* Lines that are put together again are the text that they were cut from.
LEMMA JoinsTheCut ==
    ASSUME NEW text \in Strings
    PROVE  JoinLines(CutLines(text)) = text
<1> DEFINE J(lines) == JoinLines(lines)
           S == {t \in Strings : J(CutLines(t)) = t}
<1>1. ASSUME NEW l \in Strings PROVE J(<<l>>) = l
  <2>1. Head(<<l>>) = l /\ Tail(<<l>>) = <<>>
      OBVIOUS
  <2> QED
      BY <2>1, FoldedEmpty DEF JoinLines
<1>2. ASSUME NEW lines \in StringLists, lines # <<>>, J(lines) \in Strings, NEW l \in Strings
      PROVE  J(Append(lines, l)) = Append(J(lines), LF) \o l
  <2>1. Head(Append(lines, l)) = Head(lines) /\ Tail(Append(lines, l)) = Append(Tail(lines), l)
        /\ Tail(lines) \in StringLists
      BY <1>2 DEF StringLists
  <2>2. J(Append(lines, l)) = Folded(JoinStep, Head(lines), Append(Tail(lines), l))
      BY <2>1 DEF JoinLines
  <2>3. Folded(JoinStep, Head(lines), Append(Tail(lines), l)) = JoinStep[Folded(JoinStep, Head(lines), Tail(lines))][l]
      BY <2>1, FoldedAppend DEF StringLists
  <2>4. Folded(JoinStep, Head(lines), Tail(lines)) = J(lines)
      BY DEF JoinLines
  <2> HIDE DEF J
  <2> QED
      BY <1>2, <2>2, <2>3, <2>4, Steps, NoText
<1> HIDE DEF J
<1>3. <<>> \in S
    BY <1>1, CutAppend, NoText
<1>4. ASSUME NEW t \in Strings, t \in S, NEW c \in Characters PROVE Append(t, c) \in S
  <2> DEFINE F == Front(CutLines(t))
             L == Last(CutLines(t))
  <2>1. /\ F \in StringLists /\ L \in Strings /\ CutLines(t) = Append(F, L)
        /\ CutLines(t) \in StringLists /\ CutLines(t) # <<>>
        /\ Append(t, c) \in Strings /\ Append(L, c) \in Strings
      BY CutAppend, FrontAndLast, AppendedLast DEF Strings, StringLists
  <2>2. J(CutLines(t)) = t
      BY <1>4
  <2>3. CASE c = LF
    <3>1. CutLines(Append(t, c)) = Append(CutLines(t), <<>>)
        BY <2>3, CutAppend
    <3>2. J(Append(CutLines(t), <<>>)) = Append(t, LF) \o <<>>
        BY <1>2, <2>1, <2>2, NoText
    <3>3. Append(t, LF) \o <<>> = Append(t, LF)
        BY <2>1, <2>3, ConcatAppend, NoText DEF Strings
    <3> QED
        BY <2>1, <2>3, <3>1, <3>2, <3>3
  <2>4. CASE c # LF
    <3>1. CutLines(Append(t, c)) = Append(F, Append(L, c))
        BY <2>4, CutAppend
    <3> HIDE DEF F, L
    <3>2. CASE F = <<>>
      <4>1. Append(F, L) = <<L>> /\ Append(F, Append(L, c)) = <<Append(L, c)>>
          BY <2>1, <3>2, LineAppended, NoText
      <4>2. L = t
          BY <1>1, <2>1, <2>2, <4>1
      <4> QED
          BY <1>1, <2>1, <3>1, <4>1, <4>2
    <3>3. CASE F # <<>>
      <4>1. J(F) \in Strings
          BY <3>3, <2>1, JoinTyped DEF J
      <4>2. t = Append(J(F), LF) \o L /\ J(Append(F, Append(L, c))) = Append(J(F), LF) \o Append(L, c)
          BY <1>2, <2>1, <2>2, <3>3, <4>1
      <4>3. Append(J(F), LF) \o Append(L, c) = Append(Append(J(F), LF) \o L, c)
          BY <2>1, <4>1, ConcatAppend, AppendedLast, LinesAssumption DEF Strings
      <4> QED
          BY <2>1, <3>1, <4>2, <4>3
    <3> QED
        BY <3>2, <3>3
  <2> QED
      BY <2>3, <2>4
<1>5. text \in S
  <2> HIDE DEF S
  <2> QED
      BY <1>3, <1>4, SeqInduction1 DEF Strings
<1> QED
    BY <1>5 DEF J

------------------------------------------------------------------------------
(* LLMImport: what the thread has done so far agrees with the event that    *)
(* those who wait look at.                                                  *)

ThreadAgrees ==
    /\ done = "none" <=> thread = "none"
    /\ done = "made" <=> thread \in {"waits", "imports"}
    /\ done = "set"  <=> thread = "ended"

\* Whoever waits began after the thread was started; an import that is over has
\* left its result, or broke.
ResultIsKept ==
    /\ \A c \in Callers : asks[c] = "waits" => done # "none"
    /\ done = "set" => broke \/ imported \/ failure = "kept"

ImportInv == ImportTypeOK /\ ThreadAgrees /\ ResultIsKept /\ ToldTheTruth

THEOREM ImportInvariance == ImportSpec => []ImportInv
<1>1. ImportInit => ImportInv
    BY DEF ImportInit, ImportInv, ImportTypeOK, ThreadAgrees, ResultIsKept, ToldTheTruth
<1>2. ImportInv /\ [ImportNext]_importVars => ImportInv'
    <2> SUFFICES ASSUME ImportInv, [ImportNext]_importVars PROVE ImportInv'
        OBVIOUS
    <2> USE DEF ImportInv, ImportTypeOK, ThreadAgrees, ResultIsKept, ToldTheTruth
    <2>1. CASE ImportBackground
        BY <2>1 DEF ImportBackground
    <2>2. CASE NotifyCapacity
        BY <2>2 DEF NotifyCapacity
    <2>3. CASE EndMoratorium
        BY <2>3 DEF EndMoratorium
    <2>4. ASSUME NEW r \in Results, EndBackground(r) PROVE ImportInv'
        BY <2>4 DEF EndBackground, NaiveImport, Results
    <2>5. ASSUME NEW c \in Callers, Ask(c) PROVE ImportInv'
        BY <2>5 DEF Ask
    <2>6. ASSUME NEW c \in Callers, WaitIsOver(c) PROVE ImportInv'
        BY <2>6 DEF WaitIsOver
    <2>7. ASSUME NEW c \in Callers, NEW r \in Results, EndForeground(c, r) PROVE ImportInv'
        BY <2>7 DEF EndForeground, NaiveImport, Results
    <2>8. CASE UNCHANGED importVars
        BY <2>8 DEF importVars
    <2> QED
        BY <2>1, <2>2, <2>3, <2>4, <2>5, <2>6, <2>7, <2>8 DEF ImportNext
<1> QED
    BY <1>1, <1>2, PTL DEF ImportSpec

\* Nobody waits for a thread that has ended or was never started, and who was told
\* that the libraries are there can use them.
THEOREM ImportWaitersAreTold == ImportSpec => []WaitersAreTold
<1>1. ImportInv => WaitersAreTold
    BY DEF ImportInv, ImportTypeOK, ThreadAgrees, ResultIsKept, WaitersAreTold, NobodyIsForgotten, ToldTheTruth
<1> QED
    BY <1>1, ImportInvariance, PTL

------------------------------------------------------------------------------
(* CommandRegistry: the maps of the adapter and the editor's own commands.  *)

\* A command's map holds what was registered last as one, a group's what was
\* registered last in it, and the editor has a command of each name in use.
CommandsAgree ==
    \A n \in Names :
        /\ commands[n] = latest[n][NoSubCommand]
        /\ editor[n] = "none" => commands[n] = NoFunction /\ groups[n] = <<>>
        /\ editor[n] = "execute_command" => commands[n] # NoFunction
        /\ groups[n] = <<>> =>
               /\ editor[n] # "execute_group"
               /\ \A s \in SubCommands : latest[n][s] = NoFunction
        /\ groups[n] # <<>> => \A s \in SubCommands : groups[n][1][s] = latest[n][s]

RegInv == RegTypeOK /\ CommandsAgree

THEOREM RegInvariance == RegSpec => []RegInv
<1>1. RegInit => RegInv
    BY DEF RegInit, RegInv, RegTypeOK, CommandsAgree
<1>2. RegInv /\ [RegNext]_regVars => RegInv'
    <2> SUFFICES ASSUME RegInv, [RegNext]_regVars PROVE RegInv'
        OBVIOUS
    <2> USE DEF RegInv
    <2>1. ASSUME NEW n \in Names, NEW f \in Decorated, NEW existsOk \in BOOLEAN, RegisterCommand(n, f, existsOk)
          PROVE  RegInv'
        <3>1. RegTypeOK'
            BY <2>1 DEF RegisterCommand, RegTypeOK
        <3>2. CommandsAgree'
            BY <2>1, NamesAssumption DEF RegisterCommand, RegTypeOK, CommandsAgree
        <3> QED
            BY <3>1, <3>2
    <2>2. ASSUME NEW n \in Names, NEW s \in SubCommands, NEW f \in Decorated, NEW existsOk \in BOOLEAN,
                 RegisterGroup(n, s, f, existsOk)
          PROVE  RegInv'
        <3> DEFINE KeptFunctions == (Decorated \ Refused) \cup {NoFunction}
        <3> DEFINE subs == IF groups[n] = <<>> THEN EmptyGroup ELSE groups[n][1]
        <3>1. subs \in [SubCommands -> KeptFunctions]
            <4>1. CASE groups[n] = <<>>
                BY <4>1 DEF EmptyGroup
            <4>2. CASE groups[n] # <<>>
                <5>1. PICK g \in [SubCommands -> KeptFunctions] : groups[n] = <<g>>
                    BY <4>2 DEF RegTypeOK
                <5> QED
                    BY <4>2, <5>1
            <4> QED
                BY <4>1, <4>2
        <3>2. \A t \in SubCommands : subs[t] = latest[n][t]
            BY DEF CommandsAgree, EmptyGroup
        <3> HIDE DEF subs
        <3>3. PICK h \in [SubCommands -> KeptFunctions] :
                  /\ groups' = [groups EXCEPT ![n] = <<h>>]
                  /\ \/ h = subs /\ latest' = latest
                     \/ /\ h = [subs EXCEPT ![s] = f] /\ f \notin Refused
                        /\ latest' = [latest EXCEPT ![n][s] = f]
            <4>1. CASE f \in Refused
                <5>1. groups' = [groups EXCEPT ![n] = <<subs>>] /\ latest' = latest
                    BY <2>2, <4>1 DEF RegisterGroup, subs
                <5> QED
                    BY <3>1, <5>1
            <4>2. CASE f \notin Refused
                <5>1. groups' = [groups EXCEPT ![n] = <<[subs EXCEPT ![s] = f]>>] /\ latest' = [latest EXCEPT ![n][s] = f]
                    BY <2>2, <4>2 DEF RegisterGroup, subs
                <5>2. [subs EXCEPT ![s] = f] \in [SubCommands -> KeptFunctions]
                    BY <3>1, <4>2
                <5> QED
                    BY <5>1, <5>2, <4>2
            <4> QED
                BY <4>1, <4>2
        <3>4. /\ commands' = commands
              /\ editor' = IF groups[n] = <<>> THEN [editor EXCEPT ![n] = "execute_group"] ELSE editor
            BY <2>2 DEF RegisterGroup, MakeGroup
        <3>5. groups \in [Names -> {<<>>} \cup {<<g>> : g \in [SubCommands -> KeptFunctions]}]
            BY DEF RegTypeOK
        <3>6. groups'[n] = <<h>> /\ \A m \in Names \ {n} : groups'[m] = groups[m]
            BY <3>3, <3>5
        <3>7. groups'[n] # <<>> /\ groups'[n][1] = h
            BY <3>6
        <3>8. /\ \A t \in SubCommands : h[t] = latest'[n][t]
              /\ latest'[n][NoSubCommand] = latest[n][NoSubCommand]
              /\ \A m \in Names \ {n} : latest'[m] = latest[m]
              /\ latest' \in [Names -> [SubCommands \cup {NoSubCommand} -> KeptFunctions]]
            <4>1. latest \in [Names -> [SubCommands \cup {NoSubCommand} -> KeptFunctions]] /\ s # NoSubCommand
                BY NamesAssumption DEF RegTypeOK
            <4>2. CASE h = subs /\ latest' = latest
                BY <4>1, <4>2, <3>2
            <4>3. CASE h = [subs EXCEPT ![s] = f] /\ f \notin Refused /\ latest' = [latest EXCEPT ![n][s] = f]
                <5> DEFINE row == [latest[n] EXCEPT ![s] = f]
                <5>1. row \in [SubCommands \cup {NoSubCommand} -> KeptFunctions]
                    BY <4>1, <4>3
                <5>2. latest' = [latest EXCEPT ![n] = row]
                    BY <4>3, <4>1
                <5>3. \A t \in SubCommands : h[t] = row[t]
                    BY <3>1, <3>2, <4>1, <4>3
                <5>4. row[NoSubCommand] = latest[n][NoSubCommand]
                    BY <4>1
                <5> HIDE DEF row
                <5> QED
                    BY <5>1, <5>2, <5>3, <5>4, <4>1
            <4> QED
                BY <3>3, <4>2, <4>3
        <3>9. RegTypeOK'
            <4>1. groups' \in [Names -> {<<>>} \cup {<<g>> : g \in [SubCommands -> KeptFunctions]}]
                BY <3>3, <3>5
            <4> QED
                BY <3>4, <3>8, <4>1 DEF RegTypeOK
        <3>10. CommandsAgree'
            <4> SUFFICES ASSUME NEW m \in Names
                         PROVE  /\ commands'[m] = latest'[m][NoSubCommand]
                                /\ editor'[m] = "none" => commands'[m] = NoFunction /\ groups'[m] = <<>>
                                /\ editor'[m] = "execute_command" => commands'[m] # NoFunction
                                /\ groups'[m] = <<>> =>
                                       /\ editor'[m] # "execute_group"
                                       /\ \A t \in SubCommands : latest'[m][t] = NoFunction
                                /\ groups'[m] # <<>> => \A t \in SubCommands : groups'[m][1][t] = latest'[m][t]
                BY DEF CommandsAgree
            <4>1. CASE m = n
                BY <4>1, <3>4, <3>7, <3>8 DEF CommandsAgree, RegTypeOK
            <4>2. CASE m # n
                BY <4>2, <3>4, <3>6, <3>8 DEF CommandsAgree, RegTypeOK
            <4> QED
                BY <4>1, <4>2
        <3> QED
            BY <3>9, <3>10
    <2>3. CASE UNCHANGED regVars
        BY <2>3 DEF regVars, RegTypeOK, CommandsAgree
    <2> QED
        BY <2>1, <2>2, <2>3 DEF RegNext
<1> QED
    BY <1>1, <1>2, PTL DEF RegSpec

\* Whatever was refused or registered again before, a line of a name that is not
\* used both as a command and as a group reaches the function registered last.
THEOREM LatestReached == RegSpec => []LatestIsReached
<1>1. RegInv => LatestIsReached
    BY DEF RegInv, RegTypeOK, CommandsAgree, LatestIsReached, Reached, ExecuteCommand, ExecuteGroup, IsRegisteredSub
<1> QED
    BY <1>1, RegInvariance, PTL

------------------------------------------------------------------------------
(* Keymaps: what the manager knows and what the editor has.                 *)

\* A key that the manager knows is mapped as long as its buffer is there.
KnownIsMapped == \A k \in Keys, b \in Buffers : <<k, b>> \in keymaps /\ b \notin wiped => <<k, b>> \in mapped

KeyInv == KeyTypeOK /\ HandedOutIsFired /\ CanBeAskedFor /\ KnownIsMapped

THEOREM KeyInvariance == KeySpec => []KeyInv
<1>1. KeyInit => KeyInv
    BY DEF KeyInit, KeyInv, KeyTypeOK, HandedOutIsFired, CanBeAskedFor, KnownIsMapped
<1>2. KeyInv /\ [KeyNext]_keyVars => KeyInv'
    <2> SUFFICES ASSUME KeyInv, [KeyNext]_keyVars PROVE KeyInv'
        OBVIOUS
    <2> USE DEF KeyInv, KeyTypeOK, HandedOutIsFired, CanBeAskedFor, KnownIsMapped, Specs
    <2>1. ASSUME NEW k \in Keys, NEW b \in Buffers, GetItem(k, b) PROVE KeyInv'
        BY <2>1 DEF GetItem
    <2>2. ASSUME NEW k \in Keys, NEW b \in Buffers, DelItem(k, b) PROVE KeyInv'
        BY <2>2 DEF DelItem
    <2>3. ASSUME NEW b \in Buffers, Wipe(b) PROVE KeyInv'
        BY <2>3 DEF Wipe, Of
    <2>4. ASSUME NEW b \in Buffers, Hide(b) PROVE KeyInv'
        BY <2>4 DEF Hide
    <2>5. ASSUME NEW b \in Buffers, Show(b) PROVE KeyInv'
        BY <2>5 DEF Show
    <2>6. CASE UNCHANGED keyVars
        BY <2>6 DEF keyVars
    <2> QED
        BY <2>1, <2>2, <2>3, <2>4, <2>5, <2>6 DEF KeyNext
<1> QED
    BY <1>1, <1>2, PTL DEF KeySpec

\* An event of a key that was handed out is fired as long as its buffer is there.
THEOREM KeysFireEvents == KeySpec => []HandedOutIsFired
<1>1. KeyInv => HandedOutIsFired
    BY DEF KeyInv
<1> QED
    BY <1>1, KeyInvariance, PTL

\* A key that was never touched while its buffer had no window can be asked for.
THEOREM KeysCanBeAskedFor == KeySpec => []CanBeAskedFor
<1>1. KeyInv => CanBeAskedFor
    BY DEF KeyInv
<1> QED
    BY <1>1, KeyInvariance, PTL

------------------------------------------------------------------------------
(* StdoutProxy: every message is shown, waits in the queue or is lost.      *)

Messages == Writers \X (1 .. MaxPrints)

InOrder(all) == \A i, j \in 1 .. Len(all) : i < j /\ all[i][1] = all[j][1] => all[i][2] < all[j][2]

Accounted(all, dropped, count) ==
    /\ InOrder(all)
    /\ Range(all) \cap dropped = {}
    /\ Range(all) \cup dropped = {m \in Messages : m[2] <= count[m[1]]}

ProxyInv ==
    /\ printed \in [Writers -> 0 .. MaxPrints]
    /\ queue \in Seq(Messages) /\ screen \in Seq(Messages) /\ lost \subseteq Messages
    /\ Accounted(screen \o queue, lost, printed)

\* What a sequence made of two has in it.
LEMMA Concatenated ==
    ASSUME NEW S, NEW s \in Seq(S), NEW t \in Seq(S)
    PROVE  /\ s \o t \in Seq(S)
           /\ Len(s \o t) = Len(s) + Len(t)
           /\ \A i \in 1 .. Len(s) : (s \o t)[i] = s[i]
           /\ \A i \in 1 .. Len(t) : (s \o t)[Len(s) + i] = t[i]
           /\ Range(s \o t) = Range(s) \cup Range(t)
<1>1. s \o t \in Seq(S) /\ Len(s \o t) = Len(s) + Len(t)
    OBVIOUS
<1>2. \A i \in 1 .. Len(s) : (s \o t)[i] = s[i]
    OBVIOUS
<1>3. \A i \in 1 .. Len(t) : (s \o t)[Len(s) + i] = t[i]
    OBVIOUS
<1>4. Range(s \o t) = Range(s) \cup Range(t)
    <2> DEFINE st == s \o t
    <2>1. /\ DOMAIN st = 1 .. Len(st) /\ DOMAIN s = 1 .. Len(s) /\ DOMAIN t = 1 .. Len(t)
          /\ Len(st) = Len(s) + Len(t) /\ Len(s) \in Nat /\ Len(t) \in Nat
        BY <1>1
    <2>2. /\ \A i \in 1 .. Len(s) : st[i] = s[i]
          /\ \A i \in 1 .. Len(t) : st[Len(s) + i] = t[i]
        BY <1>2, <1>3
    <2> HIDE DEF st
    <2>3. ASSUME NEW i \in 1 .. Len(st) PROVE st[i] \in Range(s) \cup Range(t)
        <3>1. CASE i \in 1 .. Len(s)
            BY <3>1, <2>1, <2>2 DEF Range
        <3>2. CASE i \notin 1 .. Len(s)
            <4>1. PICK j \in 1 .. Len(t) : i = Len(s) + j
                <5>1. i - Len(s) \in 1 .. Len(t) /\ i = Len(s) + (i - Len(s))
                    BY <3>2, <2>1
                <5> QED
                    BY <5>1
            <4> QED
                BY <4>1, <2>1, <2>2 DEF Range
        <3> QED
            BY <3>1, <3>2
    <2>4. ASSUME NEW i \in 1 .. Len(s) PROVE s[i] \in Range(st)
        BY <2>1, <2>2 DEF Range
    <2>5. ASSUME NEW i \in 1 .. Len(t) PROVE t[i] \in Range(st)
        <3>1. Len(s) + i \in 1 .. Len(st)
            BY <2>1
        <3> QED
            BY <3>1, <2>1, <2>2 DEF Range
    <2>6. Range(st) = Range(s) \cup Range(t)
        BY <2>1, <2>3, <2>4, <2>5 DEF Range
    <2> QED
        BY <2>6 DEF st
<1> QED
    BY <1>1, <1>2, <1>3, <1>4

\* A message that a thread writes next, at the end of what it wrote before.
LEMMA NextInOrder ==
    ASSUME NEW all \in Seq(Messages), NEW dropped \in SUBSET Messages, NEW count \in [Writers -> 0 .. MaxPrints],
           Accounted(all, dropped, count), NEW w \in Writers, count[w] < MaxPrints
    PROVE  LET m == <<w, count[w] + 1>>
               c == [count EXCEPT ![w] = @ + 1]
           IN  /\ m \in Messages /\ c \in [Writers -> 0 .. MaxPrints]
               /\ Accounted(Append(all, m), dropped, c)
               /\ Accounted(all, dropped \cup {m}, c)
<1> DEFINE m == <<w, count[w] + 1>>
           c == [count EXCEPT ![w] = @ + 1]
<1>1. MaxPrints \in Nat /\ count[w] \in 0 .. MaxPrints
    BY SizesAssumption
<1>2. m \in Messages /\ c \in [Writers -> 0 .. MaxPrints]
    BY <1>1 DEF Messages
<1>3. {x \in Messages : x[2] <= c[x[1]]} = {x \in Messages : x[2] <= count[x[1]]} \cup {m}
    <2>1. ASSUME NEW x \in Messages
          PROVE  x[2] <= c[x[1]] <=> x[2] <= count[x[1]] \/ x = m
        <3>1. PICK v \in Writers, k \in 1 .. MaxPrints : x = <<v, k>>
            BY DEF Messages
        <3>2. count[v] \in 0 .. MaxPrints
            OBVIOUS
        <3>3. CASE v = w
            BY <3>1, <3>2, <3>3, <1>1
        <3>4. CASE v # w
            BY <3>1, <3>2, <3>4
        <3> QED
            BY <3>3, <3>4
    <2> QED
        BY <2>1, <1>2
<1>4. m \notin Range(all) /\ m \notin dropped
    <2>1. m[2] = count[w] + 1 /\ m[1] = w
        OBVIOUS
    <2>2. ~ (m[2] <= count[m[1]])
        BY <2>1, <1>1
    <2> QED
        BY <2>2 DEF Accounted
<1>5. Range(Append(all, m)) = Range(all) \cup {m}
    <2> DEFINE more == Append(all, m)
    <2>1. /\ DOMAIN more = 1 .. Len(all) + 1 /\ DOMAIN all = 1 .. Len(all) /\ Len(all) \in Nat
          /\ \A i \in 1 .. Len(all) : more[i] = all[i]
          /\ more[Len(all) + 1] = m
        BY <1>2
    <2> HIDE DEF more, m
    <2>2. Range(more) = Range(all) \cup {m}
        <3>1. Len(all) + 1 \in DOMAIN more
            BY <2>1
        <3>2. \A i \in DOMAIN more : i \in DOMAIN all \/ i = Len(all) + 1
            BY <2>1
        <3>3. \A i \in DOMAIN all : i \in DOMAIN more /\ more[i] = all[i]
            BY <2>1
        <3> QED
            BY <2>1, <3>1, <3>2, <3>3 DEF Range
    <2> QED
        BY <2>2 DEF more
<1>6. InOrder(Append(all, m))
    <2> DEFINE more == Append(all, m)
    <2>1. /\ Len(more) = Len(all) + 1 /\ Len(all) \in Nat
          /\ \A i \in 1 .. Len(all) : more[i] = all[i]
          /\ more[Len(all) + 1] = m
        BY <1>2
    <2>2. \A i \in 1 .. Len(all) : all[i] \in Messages /\ all[i][2] <= count[all[i][1]]
        <3>1. \A i \in 1 .. Len(all) : all[i] \in Range(all)
            BY DEF Range
        <3> QED
            BY <3>1 DEF Accounted
    <2>3. m[1] = w /\ m[2] = count[w] + 1
        OBVIOUS
    <2> HIDE DEF more, m
    <2>4. ASSUME NEW i \in 1 .. Len(more), NEW j \in 1 .. Len(more), i < j, more[i][1] = more[j][1]
          PROVE  more[i][2] < more[j][2]
        <3>1. i \in 1 .. Len(all)
            BY <2>1, <2>4
        <3>2. CASE j = Len(all) + 1
            <4>1. all[i][1] = w /\ more[i] = all[i] /\ more[j] = m
                BY <3>1, <3>2, <2>1, <2>3, <2>4
            <4>2. all[i][2] <= count[w] /\ all[i][2] \in 1 .. MaxPrints
                BY <4>1, <3>1, <2>2 DEF Messages
            <4> QED
                BY <4>1, <4>2, <2>3, <1>1
        <3>3. CASE j # Len(all) + 1
            <4>1. j \in 1 .. Len(all)
                BY <3>3, <2>1
            <4> QED
                BY <4>1, <3>1, <2>1, <2>4 DEF Accounted, InOrder
        <3> QED
            BY <3>2, <3>3
    <2>5. InOrder(more)
        BY <2>4 DEF InOrder
    <2> QED
        BY <2>5 DEF more
<1> HIDE DEF m, c
<1>7. Accounted(Append(all, m), dropped, c)
    BY <1>3, <1>4, <1>5, <1>6 DEF Accounted
<1>8. Accounted(all, dropped \cup {m}, c)
    BY <1>3, <1>4 DEF Accounted
<1> QED
    BY <1>2, <1>7, <1>8 DEF m, c

\* What is dropped with the queue leaves what was shown in its order.
LEMMA ShownInOrder ==
    ASSUME NEW s \in Seq(Messages), NEW t \in Seq(Messages), NEW dropped \in SUBSET Messages,
           NEW count \in [Writers -> 0 .. MaxPrints], Accounted(s \o t, dropped, count)
    PROVE  Accounted(s \o <<>>, dropped \cup Range(t), count)
<1> DEFINE st == s \o t
<1>1. /\ Len(st) = Len(s) + Len(t) /\ Len(s) \in Nat /\ Len(t) \in Nat
      /\ \A i \in 1 .. Len(s) : st[i] = s[i]
      /\ \A i \in 1 .. Len(t) : st[Len(s) + i] = t[i]
      /\ Range(st) = Range(s) \cup Range(t)
    BY Concatenated
<1>2. s \o <<>> = s
    OBVIOUS
<1>3. Accounted(st, dropped, count)
    OBVIOUS
<1> HIDE DEF st
<1>4. InOrder(s)
    <2>1. \A i \in 1 .. Len(s) : i \in 1 .. Len(st)
        BY <1>1
    <2> QED
        BY <2>1, <1>1, <1>3 DEF Accounted, InOrder
<1>5. Range(s) \cap Range(t) = {}
    <2> SUFFICES ASSUME NEW i \in 1 .. Len(s), NEW j \in 1 .. Len(t), s[i] = t[j] PROVE FALSE
        BY DEF Range
    <2> DEFINE k == Len(s) + j
    <2>1. i \in 1 .. Len(st) /\ k \in 1 .. Len(st) /\ i < k
        BY <1>1
    <2>2. st[i] = s[i] /\ st[k] = t[j]
        BY <1>1
    <2>3. s[i] \in Messages
        OBVIOUS
    <2> HIDE DEF k
    <2>4. st[i][2] < st[k][2]
        BY <2>1, <2>2, <1>3 DEF Accounted, InOrder
    <2>5. s[i][2] < s[i][2] /\ s[i][2] \in 1 .. MaxPrints
        BY <2>2, <2>3, <2>4 DEF Messages
    <2> QED
        BY <2>5
<1> QED
    BY <1>1, <1>2, <1>3, <1>4, <1>5 DEF Accounted

THEOREM ProxyInvariance == ProxySpec => []ProxyInv
<1>1. ProxyInit => ProxyInv
    <2> SUFFICES ASSUME ProxyInit PROVE ProxyInv
        OBVIOUS
    <2>1. queue = <<>> /\ screen = <<>> /\ lost = {} /\ printed = [w \in Writers |-> 0]
        BY DEF ProxyInit
    <2>2. screen \o queue = <<>> /\ Range(<<>>) = {} /\ Len(<<>>) = 0
        BY <2>1 DEF Range
    <2>3. {m \in Messages : m[2] <= printed[m[1]]} = {}
        <3> SUFFICES ASSUME NEW v \in Writers, NEW k \in 1 .. MaxPrints, k <= printed[v] PROVE FALSE
            BY DEF Messages
        <3> QED
            BY <2>1
    <2>4. printed \in [Writers -> 0 .. MaxPrints]
        BY <2>1, SizesAssumption
    <2>5. InOrder(<<>>)
        BY <2>2 DEF InOrder
    <2> QED
        BY <2>1, <2>2, <2>3, <2>4, <2>5 DEF ProxyInv, Accounted
<1>2. ProxyInv /\ [ProxyNext]_proxyVars => ProxyInv'
    <2> SUFFICES ASSUME ProxyInv, [ProxyNext]_proxyVars PROVE ProxyInv'
        OBVIOUS
    <2>t. /\ printed \in [Writers -> 0 .. MaxPrints]
          /\ queue \in Seq(Messages) /\ screen \in Seq(Messages) /\ lost \in SUBSET Messages
          /\ Accounted(screen \o queue, lost, printed)
        BY DEF ProxyInv
    <2>1. CASE EnsureActivate
        <3>1. /\ queue' = <<>> /\ screen' = screen /\ printed' = printed /\ lost' = lost \cup Range(queue)
            BY <2>1 DEF EnsureActivate
        <3>2. Accounted(screen \o <<>>, lost \cup Range(queue), printed)
            BY <2>t, ShownInOrder
        <3>3. Range(queue) \subseteq Messages /\ <<>> \in Seq(Messages)
            BY <2>t DEF Range
        <3> QED
            BY <2>t, <3>1, <3>2, <3>3 DEF ProxyInv
    <2>2. ASSUME NEW w \in Writers, Write(w) PROVE ProxyInv'
        <3> DEFINE m == <<w, printed[w] + 1>>
                   c == [printed EXCEPT ![w] = @ + 1]
        <3>1. /\ printed[w] < MaxPrints /\ screen' = screen /\ printed' = c
              /\ \/ queue' = Append(queue, m) /\ lost' = lost
                 \/ queue' = queue /\ lost' = lost \cup {m}
            BY <2>2 DEF Write
        <3>2. screen \o queue \in Seq(Messages)
            BY <2>t
        <3>3. /\ m \in Messages /\ c \in [Writers -> 0 .. MaxPrints]
              /\ Accounted(Append(screen \o queue, m), lost, c)
              /\ Accounted(screen \o queue, lost \cup {m}, c)
            BY <2>t, <3>1, <3>2, NextInOrder
        <3> HIDE DEF m, c
        <3>4. Append(screen \o queue, m) = screen \o Append(queue, m) /\ Append(queue, m) \in Seq(Messages)
            <4>1. Append(queue, m) \in Seq(Messages) /\ <<m>> \in Seq(Messages)
                BY <2>t, <3>3
            <4>2. Append(screen \o queue, m) = (screen \o queue) \o <<m>> /\ Append(queue, m) = queue \o <<m>>
                BY <2>t, <3>2, <3>3, AppendIsConcat
            <4>3. (screen \o queue) \o <<m>> = screen \o (queue \o <<m>>)
                BY <2>t, <4>1, ConcatAssociative
            <4> QED
                BY <4>1, <4>2, <4>3
        <3> QED
            BY <2>t, <3>1, <3>3, <3>4 DEF ProxyInv
    <2>3. CASE LoopFunction
        <3>1. /\ queue # <<>> /\ screen' = Append(screen, Head(queue)) /\ queue' = Tail(queue)
              /\ printed' = printed /\ lost' = lost
            BY <2>3 DEF LoopFunction, FetchText
        <3>2. /\ Append(screen, Head(queue)) \in Seq(Messages) /\ Tail(queue) \in Seq(Messages)
              /\ Append(screen, Head(queue)) \o Tail(queue) = screen \o queue
            BY <2>t, <3>1
        <3> QED
            BY <2>t, <3>1, <3>2 DEF ProxyInv
    <2>4. CASE UNCHANGED <<queue, screen, printed, lost>>
        BY <2>t, <2>4 DEF ProxyInv
    <2>5. CASE Deactivate
        BY <2>4, <2>5 DEF Deactivate
    <2>6. ASSUME NEW w \in Writers, HoldPipe(w) PROVE ProxyInv'
        BY <2>4, <2>6 DEF HoldPipe
    <2>7. CASE UNCHANGED proxyVars
        BY <2>4, <2>7 DEF proxyVars
    <2> QED
        BY <2>1, <2>2, <2>3, <2>5, <2>6, <2>7 DEF ProxyNext
<1> QED
    BY <1>1, <1>2, PTL DEF ProxySpec

\* What a thread printed is shown once, in its order, or waits in the queue, or was
\* dropped because the queue was full or the proxy was started again.
THEOREM ProxyShowsPrinted == ProxySpec => []PrintedIsShown
<1>1. ProxyInv => PrintedIsShown
    BY DEF ProxyInv, PrintedIsShown, Accounted, InOrder, Messages
<1> QED
    BY <1>1, ProxyInvariance, PTL

------------------------------------------------------------------------------
(* Among finitely many numbers there is a greatest, among any a least.      *)

LEMMA HasLeast ==
    ASSUME NEW S, S \subseteq Nat, S # {}
    PROVE  \E x \in S : \A y \in S : x <= y
<1>1. PICK n \in S : \A m \in S : ~ (<<m, n>> \in OpToRel(<, Nat))
    BY NatLessThanWellFounded, WFMin
<1>2. ASSUME NEW m \in S PROVE n <= m
    <2>1. ~ (<<m, n>> \in OpToRel(<, Nat))
        BY <1>1
    <2>2. ~ (m < n)
        BY <2>1 DEF OpToRel
    <2> QED
        BY <2>2
<1> QED
    BY <1>2

LEMMA HasGreatest ==
    ASSUME NEW n \in Nat, NEW S, S \subseteq 0 .. n, S # {}
    PROVE  \E x \in S : \A y \in S : y <= x
<1> DEFINE R == {n - x : x \in S}
<1>1. R \subseteq Nat /\ R # {}
    <2>1. \A x \in S : n - x \in Nat
        OBVIOUS
    <2>2. PICK x : x \in S
        OBVIOUS
    <2>3. n - x \in R
        BY <2>2
    <2> QED
        BY <2>1, <2>3
<1>2. PICK r \in R : \A m \in R : r <= m
    BY <1>1, HasLeast
<1>3. PICK x \in S : r = n - x
    BY <1>2
<1>4. ASSUME NEW y \in S PROVE y <= x
    <2>1. n - y \in R
        BY <1>1
    <2>2. r <= n - y
        BY <1>2, <2>1
    <2>3. n \in Nat /\ x \in 0 .. n /\ y \in 0 .. n
        OBVIOUS
    <2> QED
        BY <2>2, <2>3, <1>3
<1> QED
    BY <1>4

------------------------------------------------------------------------------
(* Sequences whose elements differ: what appending to one, taking out of    *)
(* one and going on behind its head leave.                                  *)

LEMMA LeastOf ==
    ASSUME NEW S, S \subseteq Nat, S # {}
    PROVE  Min(S) \in S
<1>1. PICK n \in S : \A m \in S : n <= m
    BY HasLeast
<1> QED
    BY <1>1 DEF Min

LEMMA RangeIsIndexed ==
    ASSUME NEW A, NEW d \in Seq(A)
    PROVE  /\ Range(d) \subseteq A
           /\ \A i \in 1 .. Len(d) : d[i] \in Range(d)
           /\ \A x \in Range(d) : \E i \in 1 .. Len(d) : d[i] = x
           /\ IsInjective(d) <=> \A i, j \in 1 .. Len(d) : d[i] = d[j] => i = j
    BY DEF Range, IsInjective

LEMMA AppendedDiffers ==
    ASSUME NEW A, NEW d \in Seq(A), NEW e \in A, IsInjective(d), e \notin Range(d)
    PROVE  /\ Append(d, e) \in Seq(A) /\ IsInjective(Append(d, e))
           /\ Range(Append(d, e)) = Range(d) \cup {e}
<1> DEFINE new == Append(d, e)
<1>1. /\ new \in Seq(A) /\ Len(new) = Len(d) + 1 /\ Len(d) \in Nat
      /\ \A i \in 1 .. Len(d) : new[i] = d[i]
      /\ new[Len(d) + 1] = e
    OBVIOUS
<1>2. \A i \in 1 .. Len(d) : d[i] # e
    BY RangeIsIndexed
<1>3. \A i, j \in 1 .. Len(d) : d[i] = d[j] => i = j
    BY RangeIsIndexed
<1> HIDE DEF new
<1>4. \A i \in 1 .. Len(new) : i \in 1 .. Len(d) \/ i = Len(d) + 1
    BY <1>1
<1>5. \A i, j \in 1 .. Len(new) : new[i] = new[j] => i = j
    BY <1>1, <1>2, <1>3, <1>4
<1>6. IsInjective(new)
    BY <1>1, <1>5, RangeIsIndexed
<1>7. Range(new) = Range(d) \cup {e}
    <2>1. ASSUME NEW x \in Range(new) PROVE x \in Range(d) \cup {e}
        <3>1. PICK i \in 1 .. Len(new) : new[i] = x
            BY <1>1, RangeIsIndexed
        <3> QED
            BY <3>1, <1>1, <1>4, RangeIsIndexed
    <2>2. ASSUME NEW x \in Range(d) PROVE x \in Range(new)
        <3>1. PICK i \in 1 .. Len(d) : d[i] = x
            BY RangeIsIndexed
        <3>2. i \in 1 .. Len(new) /\ new[i] = x
            BY <3>1, <1>1
        <3> QED
            BY <3>2, <1>1, RangeIsIndexed
    <2>3. e \in Range(new)
        <3>1. Len(d) + 1 \in 1 .. Len(new)
            BY <1>1
        <3> QED
            BY <3>1, <1>1, RangeIsIndexed
    <2> QED
        BY <2>1, <2>2, <2>3
<1> QED
    BY <1>1, <1>6, <1>7 DEF new

LEMMA RemovedIsGone ==
    ASSUME NEW A, NEW d \in Seq(A), NEW k \in 1 .. Len(d), IsInjective(d)
    PROVE  /\ RemoveAt(d, k) \in Seq(A) /\ IsInjective(RemoveAt(d, k))
           /\ Range(RemoveAt(d, k)) = Range(d) \ {d[k]}
<1> DEFINE a == SubSeq(d, 1, k - 1)
           b == SubSeq(d, k + 1, Len(d))
           new == a \o b
           n == Len(d)
<1>1. n \in Nat /\ k \in 1 .. n
    OBVIOUS
<1>2. /\ a \in Seq(A) /\ b \in Seq(A) /\ Len(a) = k - 1 /\ Len(b) = n - k
      /\ \A i \in 1 .. k - 1 : a[i] = d[i]
      /\ \A i \in 1 .. n - k : b[i] = d[k + i]
    OBVIOUS
<1> HIDE DEF a, b
<1>3. /\ new \in Seq(A) /\ Len(new) = n - 1
      /\ \A i \in 1 .. k - 1 : new[i] = d[i]
      /\ \A i \in 1 .. n - k : new[k - 1 + i] = d[k + i]
    <2>1. a \in Seq(A) /\ b \in Seq(A)
        BY <1>2
    <2>2. /\ a \o b \in Seq(A) /\ Len(a \o b) = Len(a) + Len(b)
          /\ \A i \in 1 .. Len(a) : (a \o b)[i] = a[i]
          /\ \A i \in 1 .. Len(b) : (a \o b)[Len(a) + i] = b[i]
        BY ONLY <2>1, Concatenated
    <2>3. /\ new \in Seq(A) /\ Len(new) = Len(a) + Len(b)
          /\ \A i \in 1 .. Len(a) : new[i] = a[i]
          /\ \A i \in 1 .. Len(b) : new[Len(a) + i] = b[i]
        BY <2>2
    <2> HIDE DEF new, n
    <2>4. Len(new) = n - 1
        BY <2>3, <1>1, <1>2
    <2>5. \A i \in 1 .. k - 1 : new[i] = d[i]
        BY <2>3, <1>2
    <2>6. \A i \in 1 .. n - k : new[k - 1 + i] = d[k + i]
        BY <2>3, <1>2
    <2> QED
        BY <2>3, <2>4, <2>5, <2>6
<1>4. RemoveAt(d, k) = new
    BY DEF RemoveAt, a, b
<1> HIDE DEF new, n
<1>5. ASSUME NEW i \in 1 .. n - 1
      PROVE  new[i] = IF i < k THEN d[i] ELSE d[i + 1]
    <2>1. CASE i < k
        <3>1. i \in 1 .. k - 1
            BY <1>1, <2>1
        <3> QED
            BY <1>3, <2>1, <3>1
    <2>2. CASE ~ (i < k)
        <3> DEFINE j == i - k + 1
        <3>1. j \in 1 .. n - k /\ k - 1 + j = i /\ k + j = i + 1
            BY <1>1, <2>2
        <3> HIDE DEF j
        <3> QED
            BY <1>3, <2>2, <3>1
    <2> QED
        BY <2>1, <2>2
<1> DEFINE p(i) == IF i < k THEN i ELSE i + 1
<1>6. \A i \in 1 .. n - 1 : p(i) \in 1 .. n /\ p(i) # k /\ new[i] = d[p(i)]
    BY <1>1, <1>5
<1>7. \A i, j \in 1 .. n - 1 : p(i) = p(j) => i = j
    BY <1>1
<1>8. \A m \in 1 .. n : m # k => \E i \in 1 .. n - 1 : p(i) = m
    <2> SUFFICES ASSUME NEW m \in 1 .. n, m # k PROVE \E i \in 1 .. n - 1 : p(i) = m
        OBVIOUS
    <2>1. CASE m < k
        <3>1. m \in 1 .. n - 1 /\ p(m) = m
            BY <1>1, <2>1
        <3> QED
            BY <3>1
    <2>2. CASE ~ (m < k)
        <3>1. m - 1 \in 1 .. n - 1 /\ p(m - 1) = m
            BY <1>1, <2>2
        <3> QED
            BY <3>1
    <2> QED
        BY <2>1, <2>2
<1> HIDE DEF p
<1>9. \A i, j \in 1 .. n : d[i] = d[j] => i = j
    BY RangeIsIndexed DEF n
<1>10. IsInjective(new)
    <2>1. \A i, j \in 1 .. n - 1 : new[i] = new[j] => i = j
        BY <1>6, <1>7, <1>9
    <2> QED
        BY <1>3, <2>1, RangeIsIndexed
<1>11. Range(new) = Range(d) \ {d[k]}
    <2>1. ASSUME NEW x \in Range(new) PROVE x \in Range(d) \ {d[k]}
        <3>1. PICK i \in 1 .. n - 1 : new[i] = x
            BY <1>3, RangeIsIndexed
        <3>2. p(i) \in 1 .. n /\ p(i) # k /\ d[p(i)] = x
            BY <3>1, <1>6
        <3>3. x # d[k]
            BY <3>2, <1>1, <1>9
        <3>4. x \in Range(d)
            BY <3>2, RangeIsIndexed DEF n
        <3> QED
            BY <3>3, <3>4
    <2>2. ASSUME NEW x \in Range(d), x # d[k] PROVE x \in Range(new)
        <3>1. PICK m \in 1 .. n : d[m] = x
            BY RangeIsIndexed DEF n
        <3>2. PICK i \in 1 .. n - 1 : p(i) = m
            BY <2>2, <3>1, <1>8
        <3>3. new[i] = x
            BY <3>1, <3>2, <1>6
        <3> QED
            BY <3>3, <1>3, RangeIsIndexed
    <2> QED
        BY <2>1, <2>2
<1> QED
    BY <1>3, <1>4, <1>10, <1>11

\* The listener that is disposed of is no longer there, and the others still are.
LEMMA RemoveFirstLeaves ==
    ASSUME NEW A, NEW d \in Seq(A), NEW e, IsInjective(d)
    PROVE  /\ RemoveFirst(d, e) \in Seq(A) /\ IsInjective(RemoveFirst(d, e))
           /\ Range(RemoveFirst(d, e)) = Range(d) \ {e}
<1>1. CASE ~ \E i \in 1 .. Len(d) : d[i] = e
    <2>1. RemoveFirst(d, e) = d
        BY <1>1 DEF RemoveFirst
    <2>2. e \notin Range(d)
        BY <1>1, RangeIsIndexed
    <2> QED
        BY <2>1, <2>2
<1>2. CASE \E i \in 1 .. Len(d) : d[i] = e
    <2> DEFINE I == {i \in 1 .. Len(d) : d[i] = e}
    <2>1. I \subseteq Nat /\ I # {}
        BY <1>2
    <2>2. SelectInSeq(d, LAMBDA v : v = e) = Min(I)
        BY <1>2 DEF SelectInSeq
    <2>3. RemoveFirst(d, e) = RemoveAt(d, Min(I))
        BY <1>2, <2>2 DEF RemoveFirst
    <2>4. \A i \in I : i \in 1 .. Len(d) /\ d[i] = e
        OBVIOUS
    <2> HIDE DEF I
    <2>5. Min(I) \in I
        BY <2>1, LeastOf
    <2>6. Min(I) \in 1 .. Len(d) /\ d[Min(I)] = e
        BY <2>4, <2>5, Zenon
    <2> QED
        BY <2>3, <2>6, RemovedIsGone
<1> QED
    BY <1>1, <1>2

\* What is behind the head of a sequence: everything that is not the head, and
\* nothing that was not there.
LEMMA TailHasTheRest ==
    ASSUME NEW A, NEW d \in Seq(A), d # <<>>
    PROVE  /\ Head(d) \in A /\ Tail(d) \in Seq(A)
           /\ Range(Tail(d)) \subseteq Range(d)
           /\ \A x \in Range(d) : x = Head(d) \/ x \in Range(Tail(d))
           /\ Head(d) \in Range(d)
<1> DEFINE t == Tail(d)
<1>1. /\ Head(d) \in A /\ t \in Seq(A) /\ Len(d) \in Nat \ {0} /\ Len(t) = Len(d) - 1 /\ Head(d) = d[1]
      /\ \A i \in 1 .. Len(t) : t[i] = d[i + 1]
    OBVIOUS
<1> HIDE DEF t
<1>2. ASSUME NEW x \in Range(t) PROVE x \in Range(d)
    <2>1. PICK i \in 1 .. Len(t) : t[i] = x
        BY <1>1, RangeIsIndexed
    <2>2. i + 1 \in 1 .. Len(d) /\ d[i + 1] = x
        BY <2>1, <1>1
    <2> QED
        BY <2>2, RangeIsIndexed
<1>3. ASSUME NEW x \in Range(d) PROVE x = Head(d) \/ x \in Range(t)
    <2>1. PICK i \in 1 .. Len(d) : d[i] = x
        BY RangeIsIndexed
    <2>2. CASE i = 1
        BY <2>1, <2>2, <1>1
    <2>3. CASE i # 1
        <3> DEFINE j == i - 1
        <3>1. j \in 1 .. Len(t) /\ j + 1 = i
            BY <2>3, <1>1
        <3> HIDE DEF j
        <3>2. t[j] = x
            BY <2>1, <3>1, <1>1
        <3> QED
            BY <3>1, <3>2, <1>1, RangeIsIndexed
    <2> QED
        BY <2>2, <2>3
<1>4. Head(d) \in Range(d)
    BY <1>1, RangeIsIndexed
<1> QED
    BY <1>1, <1>2, <1>3, <1>4 DEF t

------------------------------------------------------------------------------
(* Events: who a fire has still to call.                                    *)

Anybody == Subs \cup {NoSub}
Hows    == {"none", "plain", "once", "at", "entity"}
Plain   == {s \in Subs : how[s] \in {"plain", "once"}}
Walks   == [of : Entities \cup {NoEntity}, todo : Seq(Anybody), at : SUBSET Subs,
            selecting : BOOLEAN, failed : BOOLEAN, calling : Anybody]

EventShape ==
    /\ base \in Seq(Anybody) /\ cached \in [Entities -> SUBSET Subs]
    /\ how \in [Subs -> Hows] /\ of \in [Subs -> Entities \cup {NoEntity}]
    /\ alive \subseteq Subs /\ entities \in [Entities -> Anybody]
    /\ walk \in Walks /\ heard \in [Subs -> Nat] /\ due \subseteq Subs

\* Listeners are where they were subscribed, and at most once.
Registered ==
    /\ IsInjective(base) /\ NoSub \in Range(base)
    /\ Range(base) \subseteq Plain \cup {NoSub}
    /\ \A e \in Entities : cached[e] \subseteq At(e)
    /\ \A s \in Subs : how[s] = "none" => heard[s] = 0
    /\ \A e \in Entities : entities[e] # NoSub => entities[e] \in cached[e] /\ how[entities[e]] = "entity"

\* A walk is over the listeners of the event or, selecting, over those at an entity.
Walking ==
    /\ walk.of = NoEntity => walk = NoWalk
    /\ walk = NoWalk => due = {}
    /\ walk.selecting => walk.at \subseteq At(walk.of)
    /\ ~walk.selecting => walk.at = {}
    /\ Range(walk.todo) \subseteq Plain \cup {NoSub}
    /\ walk.calling # NoSub => /\ walk.calling \notin due
                               /\ how[walk.calling] \in (IF walk.selecting THEN {"at"} ELSE {"plain", "once"})

\* A listener subscribed once that has not returned yet can be called.
OnceLeft ==
    \A s \in Subs :
        /\ s \in alive => how[s] = "once" /\ heard[s] = 0
        /\ how[s] = "once" =>
               /\ s \notin alive => s \notin Range(base)
               /\ heard[s] <= 1
               /\ walk.calling = s => s \in alive

\* Whoever must still be called is ahead in the walk, or will be selected by it.
IsAhead(s) ==
    \/ s \in Range(walk.todo) /\ (how[s] = "once" => s \in alive)
    \/ walk.selecting /\ s \in walk.at
    \/ ~walk.selecting /\ NoSub \in Range(walk.todo) /\ s \in cached[walk.of]
DueIsAhead == \A s \in due : IsAhead(s)

\* The listener of a registered entity will be called, unless it is a new one.
EndIsTold ==
    walk.selecting /\ entities[walk.of] # NoSub =>
        entities[walk.of] \in walk.at \/ heard[entities[walk.of]] = 0

EventInv == EventShape /\ Registered /\ Walking /\ OnceLeft /\ DueIsAhead /\ EndIsTold

LEMMA EventStarts == EventInit => EventInv
<1> SUFFICES ASSUME EventInit PROVE EventInv
    OBVIOUS
<1> USE DEF EventInit
<1>1. base = <<NoSub>> /\ Range(base) = {NoSub} /\ IsInjective(base) /\ base \in Seq(Anybody)
    BY DEF Range, IsInjective, Anybody
<1>2. Range(walk.todo) = {} /\ walk \in Walks
    BY DEF Range, NoWalk, Walks, Anybody
<1>3. EventShape
    BY <1>1, <1>2 DEF EventShape, Anybody, Hows
<1>4. Registered
    BY <1>1 DEF Registered
<1>5. Walking
    BY <1>2, NobodyAssumption DEF Walking, NoWalk
<1>6. OnceLeft /\ DueIsAhead /\ EndIsTold
    BY <1>2, NobodyAssumption DEF OnceLeft, DueIsAhead, EndIsTold, NoWalk
<1> QED
    BY <1>3, <1>4, <1>5, <1>6 DEF EventInv

\* Subscribing keeps the invariant: nobody that a walk is about is new.
LEMMA SubscribeKeeps ==
    ASSUME EventInv, NEW s \in Subs, Subscribe(s)
    PROVE  EventInv'
<1>1. PICK h \in {"plain", "once"} :
          /\ how' = [how EXCEPT ![s] = h]
          /\ alive' = IF h = "once" THEN alive \cup {s} ELSE alive
    BY DEF Subscribe
<1>2. /\ how[s] = "none" /\ base' = Append(base, s)
      /\ UNCHANGED <<cached, of, entities, walk, heard, due>>
    BY DEF Subscribe
<1>3. s \notin Range(base) /\ s \notin Range(walk.todo) /\ s # NoSub
    BY <1>2, NobodyAssumption DEF EventInv, Registered, Walking, Plain
<1>4. base' \in Seq(Anybody) /\ IsInjective(base') /\ Range(base') = Range(base) \cup {s}
    BY <1>2, <1>3, AppendedDiffers DEF EventInv, EventShape, Registered, Anybody
<1>5. \A t \in Subs : t # s => how'[t] = how[t]
    BY <1>1 DEF EventInv, EventShape
<1>6. how'[s] = h /\ how' \in [Subs -> Hows]
    BY <1>1 DEF EventInv, EventShape, Hows
<1>7. \A e \in Entities : At(e) \subseteq At(e)'
    BY <1>1, <1>2, <1>5 DEF At
<1>8. Plain' = Plain \cup {s}
    BY <1>2, <1>5, <1>6 DEF Plain
<1>9. EventShape'
    BY <1>1, <1>2, <1>4, <1>6 DEF EventInv, EventShape
<1>10. Registered'
    <2>1. \A e \in Entities : cached'[e] \subseteq At(e)'
        BY <1>2, <1>7 DEF EventInv, Registered
    <2>2. \A t \in Subs : how'[t] = "none" => heard'[t] = 0
        BY <1>2, <1>5, <1>6 DEF EventInv, Registered
    <2>3. \A e \in Entities : entities'[e] # NoSub => entities'[e] \in cached'[e] /\ how'[entities'[e]] = "entity"
        BY <1>1, <1>2, <1>5 DEF EventInv, Registered, EventShape, Anybody
    <2> QED
        BY <1>4, <1>8, <2>1, <2>2, <2>3 DEF EventInv, Registered
<1>11. Walking'
    <2>1. walk.of # NoEntity => walk.of \in Entities
        BY DEF EventInv, EventShape, Walks
    <2>2. walk.selecting => walk.at \subseteq At(walk.of)'
        BY <2>1, <1>2, <1>7 DEF EventInv, Walking, NoWalk
    <2>3. walk.calling # NoSub => walk.calling # s
        BY <1>2 DEF EventInv, Walking
    <2>4. walk.calling # NoSub => how'[walk.calling] = how[walk.calling]
        BY <2>3, <1>5 DEF EventInv, EventShape, Walks, Anybody
    <2> QED
        BY <1>2, <1>8, <2>2, <2>4 DEF EventInv, Walking, NoWalk
<1>12. OnceLeft'
    BY <1>1, <1>2, <1>4, <1>5, <1>6 DEF EventInv, OnceLeft, Walking, Registered
<1>13. DueIsAhead' /\ EndIsTold'
    BY <1>1, <1>2, <1>3, <1>5 DEF EventInv, EventShape, DueIsAhead, IsAhead, EndIsTold
<1> QED
    BY <1>9, <1>10, <1>11, <1>12, <1>13 DEF EventInv

\* The same of a listener at one entity, the registry's own included.
LEMMA SubscribeAtKeeps ==
    ASSUME EventInv, NEW s \in Subs, NEW e \in Entities, NEW h \in {"at", "entity"},
           how[s] = "none", how' = [how EXCEPT ![s] = h], of' = [of EXCEPT ![s] = e],
           cached' = [cached EXCEPT ![e] = @ \cup {s}],
           IF h = "entity" THEN entities[e] = NoSub /\ entities' = [entities EXCEPT ![e] = s] ELSE UNCHANGED entities,
           UNCHANGED <<base, alive, walk, heard, due>>
    PROVE  EventInv'
<1>1. s \notin Range(base) /\ s \notin Range(walk.todo) /\ s # NoSub
    BY NobodyAssumption DEF EventInv, Registered, Walking, Plain
<1>2. \A t \in Subs : t # s => how'[t] = how[t] /\ of'[t] = of[t]
    BY DEF EventInv, EventShape
<1>3. how'[s] = h /\ of'[s] = e /\ how' \in [Subs -> Hows] /\ of' \in [Subs -> Entities \cup {NoEntity}]
    BY DEF EventInv, EventShape, Hows
<1>4. Plain' = Plain
    BY <1>2, <1>3 DEF Plain
<1>5. \A d \in Entities : At(d) \subseteq At(d)'
    BY <1>2, <1>3 DEF At
<1>6. \A d \in Entities : /\ cached'[d] = IF d = e THEN cached[d] \cup {s} ELSE cached[d]
                          /\ entities'[d] = IF d = e /\ h = "entity" THEN s ELSE entities[d]
    BY DEF EventInv, EventShape
<1>7. EventShape'
    BY <1>3 DEF EventInv, EventShape, Anybody
<1>8. Registered'
    <2>1. \A d \in Entities : cached'[d] \subseteq At(d)'
        BY <1>2, <1>3, <1>5, <1>6 DEF EventInv, Registered, At
    <2>2. \A t \in Subs : how'[t] = "none" => heard'[t] = 0
        BY <1>2, <1>3 DEF EventInv, Registered
    <2>3. \A d \in Entities : entities'[d] # NoSub => entities'[d] \in cached'[d] /\ how'[entities'[d]] = "entity"
        BY <1>2, <1>3, <1>6 DEF EventInv, Registered, EventShape, Anybody
    <2> QED
        BY <1>4, <2>1, <2>2, <2>3 DEF EventInv, Registered
<1>9. Walking'
    <2>1. walk.of # NoEntity => walk.of \in Entities
        BY DEF EventInv, EventShape, Walks
    <2>2. walk.selecting => walk.at \subseteq At(walk.of)'
        BY <2>1, <1>5 DEF EventInv, Walking, NoWalk
    <2>3. walk.calling # NoSub => how'[walk.calling] = how[walk.calling]
        BY <1>2 DEF EventInv, Walking, EventShape, Walks, Anybody
    <2> QED
        BY <1>4, <2>2, <2>3 DEF EventInv, Walking, NoWalk
<1>10. OnceLeft'
    BY <1>2, <1>3 DEF EventInv, OnceLeft
<1>11. DueIsAhead'
    <2> SUFFICES ASSUME NEW t \in due PROVE IsAhead(t)'
        BY DEF DueIsAhead
    <2>1. IsAhead(t) /\ t \in Subs
        BY DEF EventInv, DueIsAhead, EventShape
    <2>2. t # s
        <3>1. ~ IsAhead(s)
            BY <1>1, NobodyAssumption DEF IsAhead, EventInv, Walking, Registered, EventShape, Walks, At, NoWalk
        <3> QED
            BY <3>1 DEF EventInv, DueIsAhead
    <2>3. walk.of # NoEntity => cached[walk.of] \subseteq cached'[walk.of]
        BY <1>6 DEF EventInv, EventShape, Walks
    <2>4. walk.of = NoEntity => Range(walk.todo) = {}
        BY DEF EventInv, Walking, NoWalk, Range
    <2> QED
        BY <2>1, <2>2, <2>3, <2>4, <1>2 DEF IsAhead
<1>12. EndIsTold'
    <2> SUFFICES ASSUME walk.selecting, entities'[walk.of] # NoSub
                 PROVE  entities'[walk.of] \in walk.at \/ heard[entities'[walk.of]] = 0
        BY DEF EndIsTold
    <2>1. walk.of \in Entities
        BY DEF EventInv, EventShape, Walking, Walks, NoWalk
    <2>2. CASE entities'[walk.of] = entities[walk.of]
        BY <2>2 DEF EventInv, EndIsTold
    <2>3. CASE entities'[walk.of] = s
        BY <2>3 DEF EventInv, Registered
    <2> QED
        BY <2>1, <2>2, <2>3, <1>6
<1> QED
    BY <1>7, <1>8, <1>9, <1>10, <1>11, <1>12 DEF EventInv

\* Leaving the weak dictionary takes away nothing that the end of an entity needs.
LEMMA DropKeeps ==
    ASSUME EventInv, NEW e \in Entities, DropEntity(e)
    PROVE  EventInv'
<1>1. /\ entities' = [entities EXCEPT ![e] = NoSub]
      /\ UNCHANGED <<base, cached, how, of, alive, walk, heard, due>>
    BY DEF DropEntity
<1>2. \A d \in Entities : entities'[d] = NoSub \/ entities'[d] = entities[d]
    BY <1>1 DEF EventInv, EventShape
<1>3. EventShape'
    BY <1>1 DEF EventInv, EventShape, Anybody
<1>4. Registered'
    BY <1>1, <1>2 DEF EventInv, Registered, Plain, At
<1>5. Walking' /\ OnceLeft' /\ DueIsAhead'
    BY <1>1 DEF EventInv, Walking, OnceLeft, DueIsAhead, IsAhead, Plain, At, NoWalk
<1>6. EndIsTold'
    <2>1. walk.selecting => walk.of \in Entities
        BY DEF EventInv, EventShape, Walking, Walks, NoWalk
    <2> QED
        BY <1>1, <1>2, <2>1 DEF EventInv, EndIsTold
<1> QED
    BY <1>3, <1>4, <1>5, <1>6 DEF EventInv

\* Who is disposed of is no longer due, and its wrapper, if any, stays alive.
LEMMA DisposeKeeps ==
    ASSUME EventInv, NEW s \in Subs, Dispose(s)
    PROVE  EventInv'
<1>1. /\ how[s] \in {"plain", "once", "at"} /\ due' = due \ {s}
      /\ UNCHANGED <<how, of, alive, entities, walk, heard>>
    BY DEF Dispose
<1>2. s # NoSub
    BY NobodyAssumption
<1>3. base' \in Seq(Anybody) /\ IsInjective(base') /\ NoSub \in Range(base') /\ Range(base') \subseteq Range(base)
    <2>1. CASE base' = base
        BY <2>1 DEF EventInv, EventShape, Registered
    <2>2. CASE base' = RemoveFirst(base, s)
        BY <2>2, <1>2, RemoveFirstLeaves DEF EventInv, EventShape, Registered
    <2> QED
        BY <2>1, <2>2 DEF Dispose
<1>4. /\ cached' \in [Entities -> SUBSET Subs]
      /\ \A e \in Entities : cached'[e] = cached[e] \/ cached'[e] = cached[e] \ {s}
      /\ how[s] # "at" => cached' = cached
    <2>1. CASE cached' = cached
        BY <2>1 DEF EventInv, EventShape
    <2>2. CASE how[s] = "at"
        <3>1. s \in cached[of[s]] /\ cached' = [cached EXCEPT ![of[s]] = @ \ {s}]
            BY <2>2 DEF Dispose
        <3> QED
            BY <2>2, <3>1 DEF EventInv, EventShape
    <2> QED
        BY <2>1, <2>2, <1>1 DEF Dispose
<1>5. EventShape'
    BY <1>1, <1>3, <1>4 DEF EventInv, EventShape
<1>6. Registered'
    <2>1. \A e \in Entities : cached'[e] \subseteq At(e)
        BY <1>4 DEF EventInv, Registered
    <2>2. \A e \in Entities : entities[e] # NoSub => entities[e] \in cached'[e]
        BY <1>1, <1>4 DEF EventInv, Registered
    <2> QED
        BY <1>1, <1>3, <2>1, <2>2 DEF EventInv, Registered, Plain, At
<1>7. Walking' /\ OnceLeft' /\ EndIsTold'
    BY <1>1, <1>3 DEF EventInv, Walking, OnceLeft, EndIsTold, Plain, At, NoWalk
<1>8. DueIsAhead'
    <2> SUFFICES ASSUME NEW t \in due, t # s PROVE IsAhead(t)'
        BY <1>1 DEF DueIsAhead
    <2>1. IsAhead(t)
        BY DEF EventInv, DueIsAhead
    <2>2. walk.of # NoEntity /\ t \in cached[walk.of] => t \in cached'[walk.of]
        BY <1>4 DEF EventInv, EventShape, Walks
    <2>3. walk.of = NoEntity => Range(walk.todo) = {}
        BY DEF EventInv, Walking, NoWalk, Range
    <2> QED
        BY <2>1, <2>2, <2>3, <1>1 DEF IsAhead
<1> QED
    BY <1>5, <1>6, <1>7, <1>8 DEF EventInv

\* A fire begins with everyone ahead that it must call.
LEMMA FireKeeps ==
    ASSUME EventInv, NEW e \in Entities, Fire(e)
    PROVE  EventInv'
<1> DEFINE w == [NoWalk EXCEPT !.of = e, !.todo = base]
<1>1. /\ walk' = w /\ due' = {s \in Subs : s \in Range(base) \/ s \in cached[e]}
      /\ UNCHANGED <<base, cached, how, of, alive, entities, heard>>
    BY DEF Fire
<1>2. /\ w.of = e /\ w.todo = base /\ w.at = {} /\ w.selecting = FALSE /\ w.calling = NoSub
      /\ base \in Seq(Anybody) => w \in Walks
    BY DEF NoWalk, Walks, Anybody
<1>3. e # NoEntity /\ NoWalk.of = NoEntity
    BY NobodyAssumption DEF NoWalk
<1> HIDE DEF w
<1>4. EventShape' /\ Registered' /\ OnceLeft' /\ EndIsTold'
    BY <1>1, <1>2, NobodyAssumption DEF EventInv, EventShape, Registered, OnceLeft, EndIsTold, Plain, At
<1>5. Walking'
    BY <1>1, <1>2, <1>3 DEF EventInv, Registered, Walking, Plain, NoWalk
<1>6. DueIsAhead'
    BY <1>1, <1>2 DEF EventInv, Registered, OnceLeft, DueIsAhead, IsAhead
<1> QED
    BY <1>4, <1>5, <1>6 DEF EventInv

\* The next listener of the event is called, unless it was subscribed once and has
\* returned before.
LEMMA CallPlainKeeps ==
    ASSUME EventInv, CallPlain
    PROVE  EventInv'
<1> DEFINE s == Head(walk.todo)
<1>1. /\ NextListener /\ walk.todo # <<>> /\ s # NoSub
      /\ \/ how[s] = "once" /\ s \notin alive /\ walk' = [walk EXCEPT !.todo = Tail(@)] /\ due' = due
         \/ ~ (how[s] = "once" /\ s \notin alive)
            /\ walk' = [walk EXCEPT !.todo = Tail(@), !.calling = s] /\ due' = due \ {s}
      /\ UNCHANGED <<base, cached, how, of, alive, entities, heard>>
    BY DEF CallPlain
<1>2. walk.todo \in Seq(Anybody)
    BY DEF EventInv, EventShape, Walks
<1>3. /\ Tail(walk.todo) \in Seq(Anybody) /\ Range(Tail(walk.todo)) \subseteq Range(walk.todo)
      /\ \A x \in Range(walk.todo) : x = s \/ x \in Range(Tail(walk.todo))
      /\ s \in Range(walk.todo)
    BY <1>1, <1>2, TailHasTheRest
<1>4. s \in Subs /\ how[s] \in {"plain", "once"}
    BY <1>1, <1>3 DEF EventInv, Walking, Plain
<1> HIDE DEF s
<1>5. /\ walk'.of = walk.of /\ walk'.todo = Tail(walk.todo) /\ walk'.at = walk.at
      /\ walk'.selecting = walk.selecting /\ walk'.calling \in {s, NoSub}
      /\ walk.selecting = FALSE /\ walk.of # NoEntity /\ walk.of \in Entities
      /\ walk'.calling = s => (how[s] = "once" => s \in alive)
      /\ walk'.calling = s => due' = due \ {s}
      /\ walk'.calling # s => s \notin alive /\ how[s] = "once" /\ due' = due
      /\ walk' \in Walks
    BY <1>1, <1>3, <1>4 DEF EventInv, EventShape, Walks, NextListener, Anybody
<1>6. EventShape' /\ Registered'
    BY <1>1, <1>5 DEF EventInv, EventShape, Registered, Plain, At
<1>7. Walking'
    <2>1. walk' # NoWalk
        BY <1>5 DEF NoWalk
    <2> QED
        BY <2>1, <1>1, <1>3, <1>4, <1>5 DEF EventInv, Walking, Plain
<1>8. OnceLeft' /\ EndIsTold'
    BY <1>1, <1>5, NobodyAssumption DEF EventInv, OnceLeft, EndIsTold
<1>9. DueIsAhead'
    <2> SUFFICES ASSUME NEW t \in due' PROVE IsAhead(t)'
        BY DEF DueIsAhead
    <2>1. t \in due /\ IsAhead(t)
        BY <1>5 DEF EventInv, DueIsAhead
    <2>2. t # s
        <3>1. CASE walk'.calling = s
            BY <3>1, <1>5
        <3>2. CASE walk'.calling # s
            <4>1. s \notin cached[walk.of]
                BY <1>4, <1>5 DEF EventInv, Registered, At
            <4> QED
                BY <2>1, <3>2, <4>1, <1>5 DEF IsAhead
        <3> QED
            BY <3>1, <3>2
    <2> QED
        BY <2>1, <2>2, <1>1, <1>3, <1>5 DEF IsAhead
<1> QED
    BY <1>6, <1>7, <1>8, <1>9 DEF EventInv

\* The set at the entity is copied, with the registry's own listener in it.
LEMMA SelectKeeps ==
    ASSUME EventInv, SelectListener
    PROVE  EventInv'
<1>1. /\ NextListener /\ walk.todo # <<>> /\ Head(walk.todo) = NoSub
      /\ walk' = [walk EXCEPT !.todo = Tail(@), !.selecting = TRUE, !.at = cached[walk.of]]
      /\ UNCHANGED <<base, cached, how, of, alive, entities, heard, due>>
    BY DEF SelectListener
<1>2. walk.todo \in Seq(Anybody)
    BY DEF EventInv, EventShape, Walks
<1>3. /\ Tail(walk.todo) \in Seq(Anybody) /\ Range(Tail(walk.todo)) \subseteq Range(walk.todo)
      /\ \A x \in Range(walk.todo) : x = NoSub \/ x \in Range(Tail(walk.todo))
    BY <1>1, <1>2, TailHasTheRest
<1>4. /\ walk'.of = walk.of /\ walk'.todo = Tail(walk.todo) /\ walk'.at = cached[walk.of]
      /\ walk'.selecting = TRUE /\ walk'.calling = NoSub
      /\ walk.selecting = FALSE /\ walk.of # NoEntity /\ walk.of \in Entities
      /\ walk' \in Walks
    BY <1>1, <1>3 DEF EventInv, EventShape, Walks, NextListener, Anybody
<1>5. EventShape' /\ Registered'
    BY <1>1, <1>4 DEF EventInv, EventShape, Registered, Plain, At
<1>6. Walking'
    <2>1. walk' # NoWalk
        BY <1>4 DEF NoWalk
    <2> QED
        BY <2>1, <1>1, <1>3, <1>4 DEF EventInv, Registered, Walking, Plain, At
<1>7. OnceLeft' /\ EndIsTold'
    BY <1>1, <1>4, NobodyAssumption DEF EventInv, Registered, OnceLeft, EndIsTold
<1>8. DueIsAhead'
    <2>1. NoSub \notin due
        BY NobodyAssumption DEF EventInv, EventShape
    <2> QED
        BY <2>1, <1>1, <1>3, <1>4 DEF EventInv, DueIsAhead, IsAhead
<1> QED
    BY <1>5, <1>6, <1>7, <1>8 DEF EventInv

\* A listener at the entity; the registry's own leaves no object of the entity.
LEMMA CallAtKeeps ==
    ASSUME EventInv, NEW s \in Subs, CallAt(s)
    PROVE  EventInv'
<1>1. /\ walk.selecting /\ walk.calling = NoSub /\ s \in walk.at /\ due' = due \ {s}
      /\ UNCHANGED <<base, cached, how, of, alive>>
    BY DEF CallAt
<1>2. walk.of \in Entities /\ walk.of # NoEntity /\ walk.selecting = TRUE
    BY <1>1 DEF EventInv, EventShape, Walking, Walks, NoWalk
<1>3. how[s] \in {"at", "entity"} /\ s # NoSub /\ how[s] # "none"
    BY <1>1, NobodyAssumption DEF EventInv, Walking, At
<1>4. \/ /\ how[s] = "entity" /\ entities' = [entities EXCEPT ![walk.of] = NoSub]
         /\ heard' = [heard EXCEPT ![s] = @ + 1] /\ walk' = [walk EXCEPT !.at = @ \ {s}]
      \/ /\ how[s] = "at" /\ entities' = entities /\ heard' = heard
         /\ walk' = [walk EXCEPT !.at = @ \ {s}, !.calling = s]
    BY <1>3 DEF CallAt
<1>5. /\ walk'.of = walk.of /\ walk'.todo = walk.todo /\ walk'.at = walk.at \ {s}
      /\ walk'.selecting = TRUE /\ walk' \in Walks
      /\ \/ walk'.calling = NoSub /\ how[s] = "entity"
         \/ walk'.calling = s /\ how[s] = "at"
    <2>1. walk \in Walks /\ s \in Anybody /\ walk.at \ {s} \in SUBSET Subs
        BY DEF EventInv, EventShape, Walks, Anybody
    <2>2. CASE how[s] = "entity" /\ walk' = [walk EXCEPT !.at = @ \ {s}]
        BY <2>1, <2>2, <1>1, <1>2 DEF Walks
    <2>3. CASE how[s] = "at" /\ walk' = [walk EXCEPT !.at = @ \ {s}, !.calling = s]
        BY <2>1, <2>3, <1>1, <1>2 DEF Walks
    <2> QED
        BY <2>2, <2>3, <1>4
<1>6. heard' \in [Subs -> Nat] /\ \A t \in Subs : t # s => heard'[t] = heard[t]
    BY <1>4 DEF EventInv, EventShape
<1>7. /\ entities' \in [Entities -> Anybody]
      /\ \A e \in Entities : entities'[e] = NoSub \/ entities'[e] = entities[e]
    BY <1>4 DEF EventInv, EventShape, Anybody
<1>8. EventShape'
    BY <1>1, <1>5, <1>6, <1>7 DEF EventInv, EventShape
<1>9. Registered'
    <2>1. \A e \in Entities : entities'[e] # NoSub => entities'[e] \in cached[e] /\ how[entities'[e]] = "entity"
        BY <1>7 DEF EventInv, Registered
    <2>2. \A t \in Subs : how[t] = "none" => heard'[t] = 0
        BY <1>3, <1>6 DEF EventInv, Registered
    <2> QED
        BY <1>1, <2>1, <2>2 DEF EventInv, Registered, Plain, At
<1>10. Walking'
    <2>1. walk' # NoWalk
        BY <1>2, <1>5 DEF NoWalk
    <2> QED
        BY <2>1, <1>1, <1>2, <1>3, <1>5 DEF EventInv, Walking, Plain, At
<1>11. OnceLeft'
    <2> SUFFICES ASSUME NEW t \in Subs
                 PROVE  /\ t \in alive => how[t] = "once" /\ heard'[t] = 0
                        /\ how[t] = "once" => /\ t \notin alive => t \notin Range(base)
                                              /\ heard'[t] <= 1
                                              /\ walk'.calling = t => t \in alive
        BY <1>1 DEF OnceLeft
    <2>1. how[t] = "once" => t # s /\ t # NoSub
        BY <1>3, NobodyAssumption
    <2> QED
        BY <2>1, <1>5, <1>6 DEF EventInv, OnceLeft
<1>12. DueIsAhead'
    BY <1>1, <1>2, <1>5 DEF EventInv, DueIsAhead, IsAhead
<1>13. EndIsTold'
    <2>1. CASE how[s] = "entity"
        <3>1. entities'[walk.of] = NoSub
            BY <2>1, <1>2, <1>4 DEF EventInv, EventShape
        <3> QED
            BY <3>1, <1>5 DEF EndIsTold
    <2>2. CASE how[s] = "at"
        <3>1. entities' = entities /\ heard' = heard
            BY <2>2, <1>4
        <3>2. entities[walk.of] # NoSub => entities[walk.of] # s
            BY <2>2, <1>2 DEF EventInv, Registered
        <3> QED
            BY <3>1, <3>2, <1>1, <1>5 DEF EventInv, EndIsTold
    <2> QED
        BY <2>1, <2>2, <1>3
<1> QED
    BY <1>8, <1>9, <1>10, <1>11, <1>12, <1>13 DEF EventInv

\* A listener returns: one subscribed once takes its subscription with it.
LEMMA ReturnKeeps ==
    ASSUME EventInv, ListenerReturns
    PROVE  EventInv'
<1> DEFINE s == walk.calling
<1>1. /\ s # NoSub /\ heard' = [heard EXCEPT ![s] = @ + 1] /\ walk' = [walk EXCEPT !.calling = NoSub]
      /\ \/ how[s] = "once" /\ base' = RemoveFirst(base, s) /\ alive' = alive \ {s}
         \/ how[s] # "once" /\ base' = base /\ alive' = alive
      /\ UNCHANGED <<cached, how, of, entities, due>>
    BY DEF ListenerReturns
<1>2. /\ s \in Subs /\ s \notin due /\ how[s] \in {"plain", "once", "at"}
      /\ walk.selecting => how[s] = "at"
      /\ how[s] = "once" => s \in alive
    BY <1>1 DEF EventInv, EventShape, Walks, Anybody, Walking, OnceLeft
<1>3. /\ walk'.of = walk.of /\ walk'.todo = walk.todo /\ walk'.at = walk.at
      /\ walk'.selecting = walk.selecting /\ walk'.calling = NoSub /\ walk' \in Walks
      /\ walk.of # NoEntity
    <2>1. walk \in Walks /\ NoSub \in Anybody
        BY DEF EventInv, EventShape, Anybody
    <2>2. walk.of # NoEntity
        BY <1>1 DEF EventInv, Walking, NoWalk
    <2> HIDE DEF s
    <2> QED
        BY <2>1, <2>2, <1>1 DEF Walks
<1> HIDE DEF s
<1>4. /\ base' \in Seq(Anybody) /\ IsInjective(base') /\ Range(base') \subseteq Range(base)
      /\ \A t \in Range(base) : t # s => t \in Range(base')
      /\ how[s] = "once" => s \notin Range(base')
    <2>1. CASE base' = base /\ how[s] # "once"
        BY <2>1 DEF EventInv, EventShape, Registered
    <2>2. CASE base' = RemoveFirst(base, s)
        BY <2>2, RemoveFirstLeaves DEF EventInv, EventShape, Registered
    <2> QED
        BY <2>1, <2>2, <1>1
<1>5. heard' \in [Subs -> Nat] /\ heard'[s] = heard[s] + 1 /\ \A t \in Subs : t # s => heard'[t] = heard[t]
    BY <1>1, <1>2 DEF EventInv, EventShape
<1>6. EventShape'
    BY <1>1, <1>3, <1>4, <1>5 DEF EventInv, EventShape
<1>7. Registered'
    <2>1. \A t \in Subs : how[t] = "none" => heard'[t] = 0
        BY <1>2, <1>5 DEF EventInv, Registered
    <2> QED
        BY <1>1, <1>4, <2>1 DEF EventInv, Registered, Plain, At
<1>8. Walking'
    <2>1. walk' # NoWalk
        BY <1>3 DEF NoWalk
    <2> QED
        BY <2>1, <1>1, <1>3 DEF EventInv, Walking, Plain, At
<1>9. OnceLeft'
    <2> SUFFICES ASSUME NEW t \in Subs
                 PROVE  /\ t \in alive' => how[t] = "once" /\ heard'[t] = 0
                        /\ how[t] = "once" => /\ t \notin alive' => t \notin Range(base')
                                              /\ heard'[t] <= 1
        BY <1>1, <1>3, NobodyAssumption DEF OnceLeft
    <2>1. CASE t = s
        BY <2>1, <1>1, <1>2, <1>4, <1>5 DEF EventInv, EventShape, OnceLeft
    <2>2. CASE t # s
        BY <2>2, <1>1, <1>4, <1>5 DEF EventInv, OnceLeft
    <2> QED
        BY <2>1, <2>2
<1>10. DueIsAhead'
    BY <1>1, <1>2, <1>3 DEF EventInv, DueIsAhead, IsAhead
<1>11. EndIsTold'
    <2> SUFFICES ASSUME walk.selecting, entities[walk.of] # NoSub
                 PROVE  entities[walk.of] \in walk.at \/ heard'[entities[walk.of]] = 0
        BY <1>1, <1>3 DEF EndIsTold
    <2>1. /\ how[entities[walk.of]] = "entity" /\ entities[walk.of] \in Subs
        BY <1>3 DEF EventInv, Registered, EventShape, Walks, Anybody
    <2> QED
        BY <2>1, <1>2, <1>5 DEF EventInv, EndIsTold
<1> QED
    BY <1>6, <1>7, <1>8, <1>9, <1>10, <1>11 DEF EventInv

\* Where a walk is over, nobody is due any more.
LEMMA OverKeeps ==
    ASSUME EventInv, walk' = NoWalk, due' = {}, UNCHANGED <<base, cached, how, of, alive, entities, heard>>
    PROVE  EventInv'
<1>1. /\ NoWalk.of = NoEntity /\ NoWalk.todo = <<>> /\ NoWalk.at = {} /\ NoWalk.selecting = FALSE
      /\ NoWalk.calling = NoSub /\ NoWalk \in Walks /\ Range(<<>>) = {}
    BY DEF NoWalk, Walks, Anybody, Range
<1>2. EventShape' /\ Registered'
    BY <1>1 DEF EventInv, EventShape, Registered, Plain, At
<1>3. Walking' /\ OnceLeft' /\ DueIsAhead' /\ EndIsTold'
    BY <1>1, NobodyAssumption DEF EventInv, Walking, OnceLeft, DueIsAhead, EndIsTold
<1> QED
    BY <1>2, <1>3 DEF EventInv

\* What a listener raises is kept while those at an entity are called, and ends the
\* walk elsewhere.
LEMMA RaiseKeeps ==
    ASSUME EventInv, ListenerRaises
    PROVE  EventInv'
<1>1. walk.calling # NoSub /\ UNCHANGED <<base, cached, how, of, alive, entities, heard>>
    BY DEF ListenerRaises
<1>2. CASE walk.selecting
    <2>1. walk' = [walk EXCEPT !.calling = NoSub, !.failed = TRUE] /\ due' = due
        BY <1>2 DEF ListenerRaises
    <2>2. walk \in Walks /\ NoSub \in Anybody
        BY DEF EventInv, EventShape, Anybody
    <2>3. /\ walk'.of = walk.of /\ walk'.todo = walk.todo /\ walk'.at = walk.at
          /\ walk'.selecting = walk.selecting /\ walk'.calling = NoSub /\ walk' \in Walks
        BY <2>1, <2>2 DEF Walks
    <2>4. walk' # NoWalk /\ walk.of # NoEntity
        BY <1>2, <2>3 DEF EventInv, Walking, NoWalk
    <2>5. EventShape' /\ Registered'
        BY <1>1, <2>1, <2>3 DEF EventInv, EventShape, Registered, Plain, At
    <2>6. Walking' /\ EndIsTold'
        BY <1>1, <2>1, <2>3, <2>4 DEF EventInv, Walking, EndIsTold, Plain, At
    <2>7. OnceLeft' /\ DueIsAhead'
        BY <1>1, <2>1, <2>3, NobodyAssumption DEF EventInv, OnceLeft, DueIsAhead, IsAhead
    <2> QED
        BY <2>5, <2>6, <2>7 DEF EventInv
<1>3. CASE ~ walk.selecting
    BY <1>1, <1>3, OverKeeps DEF ListenerRaises
<1> QED
    BY <1>2, <1>3

\* The walk over those at an entity ends when all were called; the group of what
\* they raised ends the whole walk, and those of the event alone miss it.
LEMMA EndSelectionKeeps ==
    ASSUME EventInv, EndSelection
    PROVE  EventInv'
<1>1. /\ walk.selecting /\ walk.at = {} /\ walk.calling = NoSub
      /\ UNCHANGED <<base, cached, how, of, alive, entities, heard>>
    BY DEF EndSelection
<1>2. \A s \in due : s \in Range(walk.todo) /\ (how[s] = "once" => s \in alive)
    BY <1>1 DEF EventInv, DueIsAhead, IsAhead
<1>3. CASE walk.failed
    <2>1. walk' = NoWalk /\ due' = due \cap At(walk.of)
        BY <1>3 DEF EndSelection
    <2>2. due \cap At(walk.of) = {}
        <3> SUFFICES ASSUME NEW s \in due, s \in At(walk.of) PROVE FALSE
            OBVIOUS
        <3>1. s \in Plain \cup {NoSub} /\ s \in Subs
            BY <1>2 DEF EventInv, EventShape, Walking
        <3> QED
            BY <3>1, NobodyAssumption DEF Plain, At
    <2> QED
        BY <2>1, <2>2, <1>1, OverKeeps
<1>4. CASE ~ walk.failed
    <2>1. walk' = [walk EXCEPT !.selecting = FALSE] /\ due' = due
        BY <1>4 DEF EndSelection
    <2>2. walk \in Walks
        BY DEF EventInv, EventShape
    <2>3. /\ walk'.of = walk.of /\ walk'.todo = walk.todo /\ walk'.at = walk.at
          /\ walk'.selecting = FALSE /\ walk'.calling = walk.calling /\ walk' \in Walks
        BY <2>1, <2>2 DEF Walks
    <2>4. walk.of # NoEntity
        BY <1>1 DEF EventInv, Walking, NoWalk
    <2>5. walk' # NoWalk
        BY <2>3, <2>4 DEF NoWalk
    <2>6. EventShape' /\ Registered'
        BY <1>1, <2>1, <2>3 DEF EventInv, EventShape, Registered, Plain, At
    <2>7. Walking' /\ EndIsTold'
        BY <1>1, <2>1, <2>3, <2>4, <2>5 DEF EventInv, Walking, EndIsTold, Plain, At
    <2>8. OnceLeft' /\ DueIsAhead'
        BY <1>1, <1>2, <2>1, <2>3 DEF EventInv, OnceLeft, DueIsAhead, IsAhead
    <2> QED
        BY <2>6, <2>7, <2>8 DEF EventInv
<1> QED
    BY <1>3, <1>4

\* A walk with nobody left to call has nobody due.
LEMMA EndFireKeeps ==
    ASSUME EventInv, EndFire
    PROVE  EventInv'
<1>1. /\ NextListener /\ walk.todo = <<>> /\ walk' = NoWalk
      /\ UNCHANGED <<base, cached, how, of, alive, entities, heard, due>>
    BY DEF EndFire
<1>2. Range(walk.todo) = {} /\ ~ walk.selecting
    BY <1>1 DEF Range, NextListener
<1>3. due = {}
    BY <1>2 DEF EventInv, DueIsAhead, IsAhead
<1> QED
    BY <1>1, <1>3, OverKeeps

LEMMA EventStep == EventInv /\ [EventNext]_eventVars => EventInv'
<1> SUFFICES ASSUME EventInv, [EventNext]_eventVars PROVE EventInv'
    OBVIOUS
<1>1. ASSUME NEW s \in Subs, NEW e \in Entities, SubscribeAt(s, e) PROVE EventInv'
    <2>1. "at" \in {"at", "entity"} /\ "at" # "entity"
        OBVIOUS
    <2> QED
        BY <1>1, <2>1, SubscribeAtKeeps DEF SubscribeAt
<1>2. ASSUME NEW s \in Subs, NEW e \in Entities, GetEntity(s, e) PROVE EventInv'
    BY <1>2, SubscribeAtKeeps DEF GetEntity
<1>3. CASE UNCHANGED eventVars
    BY <1>3 DEF eventVars, EventInv, EventShape, Registered, Walking, OnceLeft, DueIsAhead, IsAhead, EndIsTold,
                Plain, At, NoWalk
<1> QED
    BY <1>1, <1>2, <1>3, SubscribeKeeps, DropKeeps, DisposeKeeps, FireKeeps, CallPlainKeeps, SelectKeeps,
       CallAtKeeps, ReturnKeeps, RaiseKeeps, EndSelectionKeeps, EndFireKeeps DEF EventNext

THEOREM EventInvariance == EventSpec => []EventInv
    BY EventStarts, EventStep, PTL DEF EventSpec

\* When a fire is over, every listener that was subscribed when it began and not
\* disposed of meanwhile has been called: those at the entity also when some of them
\* raised, the others unless one of them did.  A listener subscribed once returns once.
THEOREM EveryoneHears == EventSpec => []ListenersHear
<1>1. EventInv => ListenersHear
    BY NobodyAssumption DEF EventInv, Walking, OnceLeft, ListenersHear, EveryListenerHears, OnceIsOnce
<1> QED
    BY <1>1, EventInvariance, PTL

\* When the end of an entity has been told, the registry has no object of it but one
\* that a listener asked for meanwhile.
THEOREM EndsAreTold == EventSpec => EntitiesEnd
<1>1. EventInv /\ [EventNext]_eventVars =>
          [walk.selecting /\ ~walk'.selecting =>
               entities'[walk.of] = NoSub \/ heard[entities'[walk.of]] = 0]_eventVars
    <2> SUFFICES ASSUME EventInv, EventNext, walk.selecting, ~walk'.selecting
                 PROVE  entities'[walk.of] = NoSub \/ heard[entities'[walk.of]] = 0
        OBVIOUS
    <2>1. walk \in Walks /\ walk # NoWalk
        BY DEF EventInv, EventShape, NoWalk
    <2>2. CASE EndSelection
        BY <2>2 DEF EndSelection, EventInv, EndIsTold
    <2>3. ASSUME UNCHANGED walk PROVE FALSE
        BY <2>3
    <2>4. ~ (CallPlain \/ SelectListener \/ EndFire)
        BY DEF CallPlain, SelectListener, EndFire, NextListener
    <2>5. ~ (ListenerReturns \/ ListenerRaises)
        BY <2>1 DEF ListenerReturns, ListenerRaises, Walks
    <2>6. \A s \in Subs : ~ CallAt(s)
        BY <2>1 DEF CallAt, Walks
    <2>7. \A e \in Entities : ~ Fire(e)
        BY <2>1 DEF Fire
    <2>8. \A s \in Subs : ~ (Subscribe(s) \/ Dispose(s))
        BY <2>3 DEF Subscribe, Dispose
    <2>9. \A s \in Subs, e \in Entities : ~ (SubscribeAt(s, e) \/ GetEntity(s, e))
        BY <2>3 DEF SubscribeAt, GetEntity
    <2>10. \A e \in Entities : ~ DropEntity(e)
        BY <2>3 DEF DropEntity
    <2> QED
        BY <2>2, <2>4, <2>5, <2>6, <2>7, <2>8, <2>9, <2>10 DEF EventNext
<1> QED
    BY <1>1, EventInvariance, PTL DEF EventSpec, EntitiesEnd

\* The remainder is an index, and one step forth and one back meet again.
LEMMA Wrapped == ASSUME NEW n \in Nat \ {0}, NEW i \in Int PROVE i % n \in 0 .. n - 1
    OBVIOUS

LEMMA WrapsAround ==
    ASSUME NEW n \in Nat \ {0}, NEW i \in 0 .. n - 1
    PROVE  /\ i % n = i
           /\ (((i + 1) % n) - 1) % n = i
           /\ (((i - 1) % n) + 1) % n = i
<1>1. i % n = i
    OBVIOUS
<1>2. (((i + 1) % n) - 1) % n = i
  <2>1. CASE i + 1 < n
    <3>1. (i + 1) % n = i + 1
        BY <2>1
    <3> QED BY <3>1, <1>1
  <2>2. CASE i + 1 = n
    <3>1. n % n = 0
        OBVIOUS
    <3>2. (-1) % n = n - 1
        OBVIOUS
    <3> QED BY <2>2, <3>1, <3>2
  <2> QED BY <2>1, <2>2
<1>3. (((i - 1) % n) + 1) % n = i
  <2>1. CASE i = 0
    <3>1. n % n = 0
        OBVIOUS
    <3>2. (-1) % n = n - 1
        OBVIOUS
    <3> QED BY <2>1, <3>1, <3>2
  <2>2. CASE i > 0
    <3>1. (i - 1) % n = i - 1
        BY <2>2
    <3> QED BY <3>1, <1>1
  <2> QED BY <2>1, <2>2
<1> QED BY <1>1, <1>2, <1>3

------------------------------------------------------------------------------
(* Quickfix: records that can be jumped to are those of the run that the   *)
(* list was last filed for, and an index is one of a list that was there.  *)

RecordsAreLatest ==
    records.size > 0 => records.run = IF ui = "vscode" THEN filed.found ELSE filed.last

QuickInv ==
    /\ ui \in UIs
    /\ records \in [run : Int, size : Nat]
    /\ index \in Int \cup {None}
    /\ filed \in [last : Int, found : Int]
    /\ RecordsAreLatest
    /\ jumped # None => jumped.index \in 0 .. jumped.of - 1
    /\ JumpsReachTheLatest
    /\ OnlyStalePagesFail

\* A state with an index has a list, and the index is one of it.
LEMMA StateInside ==
    ASSUME NEW size \in Nat, NEW i \in Int \cup {None}, MakeState(i, size).index # None
    PROVE  size > 0 /\ MakeState(i, size).index \in 0 .. size - 1
<1>1. size > 0
    BY DEF MakeState
<1>2. CASE i = None
    BY <1>1, <1>2 DEF MakeState
<1>3. CASE i # None
    BY <1>1, <1>3, Wrapped DEF MakeState
<1> QED BY <1>1, <1>2, <1>3

\* A jump by a state made of the list keeps the invariant.
LEMMA JumpKeeps ==
    ASSUME QuickInv, NEW i \in Int \cup {None}, JumpTo(MakeState(i, records.size))
    PROVE  QuickInv'
<1> DEFINE s == MakeState(i, records.size)
<1>1. s.index # None /\ records.size \in Nat
    BY DEF JumpTo, QuickInv
<1>2. records.size > 0 /\ s.index \in 0 .. records.size - 1
    BY <1>1, StateInside
<1>3. records.run = IF ui = "vscode" THEN filed.found ELSE filed.last
    BY <1>2 DEF QuickInv, RecordsAreLatest
<1>4. /\ index' = s.index /\ UNCHANGED <<ui, records, filed, failed>>
      /\ jumped' = [run |-> records.run, index |-> s.index, of |-> records.size, filed |-> filed]
    BY DEF JumpTo
<1> HIDE DEF s
<1> QED BY <1>2, <1>3, <1>4 DEF QuickInv, RecordsAreLatest, JumpsReachTheLatest, OnlyStalePagesFail

THEOREM QuickInvariance == QuickSpec => []QuickInv
<1>1. QuickInit => QuickInv
    BY QuickAssumption DEF QuickInit, QuickInv, NoRecords, RecordsAreLatest, JumpsReachTheLatest,
                            OnlyStalePagesFail
<1>2. QuickInv /\ [QuickNext]_quickVars => QuickInv'
  <2> SUFFICES ASSUME QuickInv, [QuickNext]_quickVars PROVE QuickInv'
      OBVIOUS
  <2>1. ASSUME NEW n \in 0..MaxFound, HandleRecords(n) PROVE QuickInv'
    <3> USE DEF HandleRecords, QuickInv, RecordsAreLatest, JumpsReachTheLatest, OnlyStalePagesFail
    <3>1. CASE n > 0
        BY <2>1, <3>1, QuickAssumption DEF SetRecords
    <3>2. CASE ~(n > 0)
      <4>1. /\ filed' = [last |-> filed.last + 1, found |-> filed.found] /\ Close
            /\ UNCHANGED <<ui, jumped, failed>>
          BY <2>1, <3>2
      <4>2. CASE ui = "vscode"
          BY <4>1, <4>2 DEF Close
      <4>3. CASE ui = "dummy"
          BY <4>1, <4>3 DEF Close, NoRecords
      <4>4. CASE ui = "vim"
          BY <4>1, <4>4 DEF Close, NoRecords
      <4> QED BY <4>2, <4>3, <4>4, QuickAssumption
    <3> QED BY <3>1, <3>2
  <2>2. ASSUME NEW i \in -1..MaxFound, Jump(i) PROVE QuickInv'
    <3>1. State.size = records.size /\ State.size # 0 /\ records.size \in Nat
        BY <2>2 DEF Jump, JumpTo, FixIndex, State, MakeState, QuickInv
    <3>2. JumpTo(MakeState(i, records.size))
        BY <2>2, <3>1 DEF Jump, FixIndex
    <3> QED BY <3>2, JumpKeeps
  <2>3. CASE Here
      BY <2>3, JumpKeeps DEF Here, State, QuickInv
  <2>4. ASSUME NEW d \in {-1, 1}, MoveBy(d) PROVE QuickInv'
    <3>1. State.size = records.size /\ State.index # None /\ records.size \in Nat
        BY <2>4 DEF MoveBy, JumpTo, ShiftIndex, State, MakeState, QuickInv
    <3>2. State.index + d \in Int
        BY <3>1, StateInside DEF State, QuickInv
    <3>3. JumpTo(MakeState(State.index + d, records.size))
        BY <2>4, <3>1 DEF MoveBy, ShiftIndex
    <3> QED BY <3>2, <3>3, JumpKeeps
  <2>5. CASE ShowPage
      BY <2>5 DEF ShowPage, QuickInv, RecordsAreLatest, JumpsReachTheLatest, OnlyStalePagesFail
  <2>6. CASE WipePage
      BY <2>6 DEF WipePage, QuickInv, RecordsAreLatest, JumpsReachTheLatest, OnlyStalePagesFail
  <2>7. ASSUME NEW line \in 0..MaxFound, NEW f \in BOOLEAN, PressKey(line, f) PROVE QuickInv'
    <3>1. CASE line < records.size
      <4>1. records.size \in Nat /\ line \in Nat
          BY QuickAssumption DEF QuickInv
      <4>2. records.size > 0 /\ line \in 0 .. records.size - 1 /\ ~(line >= records.size)
          BY <3>1, <4>1
      <4>3. /\ jumped' = [run |-> records.run, index |-> line, of |-> records.size, filed |-> filed]
            /\ UNCHANGED <<ui, records, index, filed, failed>>
          BY <2>7, <4>2 DEF PressKey
      <4> QED
          BY <4>2, <4>3 DEF QuickInv, RecordsAreLatest, JumpsReachTheLatest, OnlyStalePagesFail
    <3>2. CASE ~(line < records.size)
      <4>1. page # records
          BY <2>7, <3>2, QuickAssumption DEF PressKey, QuickInv
      <4>2. failed' = [page |-> page, list |-> records] /\ UNCHANGED <<ui, records, index, filed, jumped>>
          BY <2>7, <3>2 DEF PressKey
      <4> QED
          BY <4>1, <4>2 DEF QuickInv, RecordsAreLatest, JumpsReachTheLatest, OnlyStalePagesFail
    <3> QED
        BY <3>1, <3>2
  <2>8. CASE UNCHANGED quickVars
      BY <2>8 DEF quickVars, QuickInv, RecordsAreLatest, JumpsReachTheLatest, OnlyStalePagesFail
  <2> QED BY <2>1, <2>2, <2>3, <2>4, <2>5, <2>6, <2>7, <2>8 DEF QuickNext
<1> QED BY <1>1, <1>2, PTL DEF QuickSpec

\* However the list is filed, closed, shown and jumped through in the three editors,
\* a jump reaches a record of the list, and never one of a run that another has
\* replaced; next and prev undo each other; and a key of the page finds no record only
\* where the page does not show the list (pytoy_quickfix).
THEOREM JumpsReachRecords == QuickSpec => []JumpsAreFresh
<1>1. QuickInv => JumpsAreFresh
  <2> SUFFICES ASSUME QuickInv, records.size > 0, NEW d \in {-1, 1}
               PROVE  ShiftIndex(ShiftIndex(State, d), -d) = State
      BY DEF QuickInv, JumpsAreFresh, JumpsStayInside, OnlyStalePagesFail
  <2> DEFINE n == records.size
             i == State.index
  <2>1. n \in Nat \ {0} /\ i \in 0 .. n - 1 /\ i # None
    <3>1. i # None
        BY Wrapped, QuickAssumption DEF State, MakeState, QuickInv
    <3>2. records.size \in Nat \ {0} /\ index \in Int \cup {None}
        BY DEF QuickInv
    <3>3. MakeState(index, records.size).index # None
        BY <3>1 DEF State
    <3>4. MakeState(index, records.size).index \in 0 .. records.size - 1
        BY <3>2, <3>3, StateInside
    <3> QED BY <3>1, <3>2, <3>4 DEF State
  <2>2. State = [size |-> n, index |-> i]
      BY DEF State, MakeState
  <2>3. /\ i + d \in Int /\ (i + d) % n \in 0 .. n - 1
        /\ (((i + d) % n) - d) % n = i
    <3>1. i + d \in Int /\ (i + d) % n \in 0 .. n - 1
      <4>1. i + d \in Int
          BY <2>1
      <4> HIDE DEF n, i
      <4> QED BY <4>1, <2>1, Wrapped
    <3>2. (((i + 1) % n) - 1) % n = i /\ (((i - 1) % n) + 1) % n = i
        BY <2>1, WrapsAround
    <3>3. CASE d = 1
        BY <3>1, <3>2, <3>3, <2>1
    <3>4. CASE d = -1
        BY <3>1, <3>2, <3>4, <2>1
    <3> QED BY <3>3, <3>4
  <2> HIDE DEF n, i
  <2>4. ShiftIndex(State, d) = [size |-> n, index |-> (i + d) % n]
      BY <2>1, <2>2, <2>3, QuickAssumption DEF ShiftIndex, MakeState
  <2>5. (i + d) % n # None /\ ((i + d) % n) + (-d) = ((i + d) % n) - d
      BY <2>3, QuickAssumption
  <2> QED BY <2>1, <2>2, <2>3, <2>4, <2>5, QuickAssumption DEF ShiftIndex, MakeState
<1> QED BY <1>1, QuickInvariance, PTL

------------------------------------------------------------------------------
(* LLMTasks: the search upwards ends at the nearest kernel, which a kernel   *)
(* that comes up later, above all of those, does not change.                *)

LEMMA GreatestOf ==
    ASSUME NEW n \in Nat, NEW S, S \subseteq 0 .. n, S # {}
    PROVE  Max(S) \in S /\ \A y \in S : y <= Max(S)
<1>1. PICK x \in S : \A y \in S : y <= x
    BY HasGreatest
<1>2. \A y \in S : y \in Nat
    OBVIOUS
<1>3. x \in S /\ \A y \in S : x >= y
    BY <1>1, <1>2
<1>4. Max(S) \in S /\ \A y \in S : Max(S) >= y
    BY <1>3 DEF Max
<1> QED
    BY <1>2, <1>4

\* What is above the folder that is above another is above the other.
LEMMA PathsNest ==
    ASSUME NEW A, NEW s \in Seq(A), NEW m \in 0 .. Len(s), NEW n \in 0 .. m
    PROVE  /\ SubSeq(s, 1, m) \in Seq(A) /\ Len(SubSeq(s, 1, m)) = m
           /\ SubSeq(SubSeq(s, 1, m), 1, n) = SubSeq(s, 1, n)
           /\ SubSeq(s, 1, Len(s)) = s
    OBVIOUS

LEMMA AppendedIs ==
    ASSUME NEW A, NEW s \in Seq(A), NEW e \in A
    PROVE  /\ Append(s, e) \in Seq(A) /\ Len(Append(s, e)) = Len(s) + 1 /\ Len(s) \in Nat
           /\ \A i \in 1 .. Len(s) : Append(s, e)[i] = s[i]
           /\ Append(s, e)[Len(s) + 1] = e
           /\ ToSet(s) \subseteq A
           /\ \A x : x \in ToSet(s) <=> \E i \in 1 .. Len(s) : x = s[i]
           /\ ToSet(Append(s, e)) = ToSet(s) \cup {e}
<1>1. /\ Append(s, e) \in Seq(A) /\ Len(Append(s, e)) = Len(s) + 1 /\ Len(s) \in Nat
      /\ \A i \in 1 .. Len(s) : Append(s, e)[i] = s[i] /\ s[i] \in A
      /\ Append(s, e)[Len(s) + 1] = e
    OBVIOUS
<1>2. DOMAIN s = 1 .. Len(s) /\ DOMAIN Append(s, e) = 1 .. Len(s) + 1
    OBVIOUS
<1>3. ToSet(s) = {s[i] : i \in 1 .. Len(s)}
    BY <1>2 DEF ToSet
<1>4. ToSet(Append(s, e)) = {Append(s, e)[i] : i \in 1 .. Len(s) + 1}
    BY <1>2 DEF ToSet
<1>5. 1 .. Len(s) + 1 = 1 .. Len(s) \cup {Len(s) + 1}
    BY <1>1
<1>6. ToSet(Append(s, e)) = ToSet(s) \cup {e}
    BY <1>1, <1>3, <1>4, <1>5
<1> QED
    BY <1>1, <1>3, <1>6

KernelInv ==
    /\ kernels \in Seq(Folders)
    /\ served \in [Folders -> Folders \cup {NoKernel}]
    /\ \A f \in Folders : served[f] # NoKernel => Serving(f) # {}
    /\ KernelStays
    /\ NoneBelow

LEMMA ServingIs ==
    ASSUME KernelInv, NEW f \in Folders
    PROVE  /\ f \in Seq(STRING) /\ Len(f) \in Nat /\ Serving(f) \subseteq 0 .. Len(f)
           /\ Serving(f) # {} => KernelOf(f) \in Folders
<1>1. f \in Seq(STRING) /\ Len(f) \in Nat /\ Serving(f) \subseteq 0 .. Len(f)
    BY KernelAssumption DEF Serving
<1>2. ASSUME Serving(f) # {} PROVE KernelOf(f) \in Folders
    <2>1. Max(Serving(f)) \in Serving(f)
        BY <1>1, <1>2, GreatestOf
    <2>2. SubSeq(f, 1, Max(Serving(f))) \in ToSet(kernels)
        BY <2>1 DEF Serving
    <2>3. ToSet(kernels) \subseteq Folders
        BY AppendedIs DEF KernelInv
    <2> QED
        BY <1>2, <2>2, <2>3 DEF KernelOf
<1> QED
    BY <1>1, <1>2

\* A kernel that comes up where none serves leaves the others with theirs.
LEMMA OthersKeepTheirs ==
    ASSUME KernelInv, NEW g \in Folders, Serving(g) = {}, kernels' = Append(kernels, g)
    PROVE  /\ Serving(g)' # {} /\ KernelOf(g)' = g
           /\ \A f \in Folders : Serving(f) # {} => Serving(f)' # {} /\ KernelOf(f)' = KernelOf(f)
<1>1. ToSet(kernels)' = ToSet(kernels) \cup {g}
    BY AppendedIs DEF KernelInv
<1>2. ASSUME NEW f \in Folders
      PROVE  Serving(f)' = Serving(f) \cup {n \in 0 .. Len(f) : SubSeq(f, 1, n) = g}
    BY <1>1 DEF Serving
<1>3. Len(g) \in Nat /\ g \in Seq(STRING) /\ Len(g) \in 0 .. Len(g) /\ SubSeq(g, 1, Len(g)) = g
    <2>1. Len(g) \in Nat /\ g \in Seq(STRING)
        BY ServingIs
    <2> QED
        BY <2>1, PathsNest
<1>4. Serving(g)' # {} /\ KernelOf(g)' = g
    <2>1. Len(g) \in Serving(g)'
        BY <1>2, <1>3
    <2>2. Serving(g)' \subseteq 0 .. Len(g)
        BY <1>2, ServingIs
    <2>3. Max(Serving(g)') \in Serving(g)' /\ Len(g) <= Max(Serving(g)')
        BY <2>1, <2>2, <1>3, GreatestOf
    <2>4. Max(Serving(g)') = Len(g)
        BY <2>2, <2>3, <1>3
    <2> QED
        BY <2>1, <2>4, <1>3 DEF KernelOf
<1>5. ASSUME NEW f \in Folders, Serving(f) # {}
      PROVE  Serving(f)' # {} /\ KernelOf(f)' = KernelOf(f)
    <2> DEFINE S == Serving(f)
               T == {n \in 0 .. Len(f) : SubSeq(f, 1, n) = g}
    <2>1. f \in Seq(STRING) /\ Len(f) \in Nat /\ S \subseteq 0 .. Len(f) /\ T \subseteq 0 .. Len(f)
        BY ServingIs
    <2>2. ASSUME NEW s \in S, NEW t \in T PROVE t < s
        <3>1. s \in 0 .. Len(f) /\ t \in 0 .. Len(f) /\ SubSeq(f, 1, t) = g
            BY <2>1
        <3>2. SUFFICES ASSUME s <= t PROVE FALSE
            BY <3>1
        <3>3. s \in 0 .. t
            BY <3>1, <3>2
        <3>4. Len(g) = t /\ SubSeq(g, 1, s) = SubSeq(f, 1, s)
            BY <3>1, <3>3, <2>1, PathsNest
        <3>5. s \in Serving(g)
            BY <3>3, <3>4 DEF Serving
        <3> QED
            BY <3>5
    <2>3. Serving(f)' = S \cup T
        BY <1>2
    <2> HIDE DEF T
    <2>4. Max(S) \in S /\ \A y \in S : y <= Max(S)
        BY <2>1, <1>5, GreatestOf
    <2>5. Max(S \cup T) \in S \cup T /\ \A y \in S \cup T : y <= Max(S \cup T)
        <3>1. S \cup T \subseteq 0 .. Len(f) /\ S \cup T # {}
            BY <2>1, <1>5
        <3> QED
            BY <2>1, <3>1, GreatestOf
    <2> HIDE DEF S
    <2>6. Max(S) <= Max(S \cup T) /\ Max(S) \in 0 .. Len(f) /\ Max(S \cup T) \in 0 .. Len(f)
        BY <2>1, <2>4, <2>5
    <2>7. Max(S \cup T) \in S
        BY <2>1, <2>2, <2>4, <2>5, <2>6
    <2>8. Max(S \cup T) <= Max(S)
        BY <2>4, <2>7
    <2>9. Max(S \cup T) = Max(S)
        BY <2>1, <2>6, <2>8
    <2> QED
        BY <1>5, <2>3, <2>9 DEF S, KernelOf
<1> QED
    BY <1>4, <1>5

THEOREM KernelInvariance == KernelSpec => []KernelInv
<1>1. KernelInit => KernelInv
    BY DEF KernelInit, KernelInv, KernelStays, NoneBelow
<1>2. KernelInv /\ [KernelNext]_kernelVars => KernelInv'
  <2> SUFFICES ASSUME KernelInv, [KernelNext]_kernelVars PROVE KernelInv'
      OBVIOUS
  <2>1. ASSUME NEW g \in Folders, Summon(g), Serving(g) # {} PROVE KernelInv'
    <3>1. kernels' = kernels /\ \A f \in Folders : Serving(f)' = Serving(f) /\ KernelOf(f)' = KernelOf(f)
        BY <2>1 DEF Summon, KernelOf, Serving
    <3>2. KernelOf(g) \in Folders
        BY <2>1, ServingIs
    <3>3. served' \in [Folders -> Folders \cup {NoKernel}]
        BY <2>1, <3>2 DEF Summon, KernelInv
    <3>4. \A f \in Folders : served'[f] = IF f = g /\ served[f] = NoKernel THEN KernelOf(f) ELSE served[f]
        BY <2>1 DEF Summon, KernelInv
    <3> QED
        BY <2>1, <3>1, <3>3, <3>4 DEF KernelInv, KernelStays, NoneBelow
  <2>2. ASSUME NEW g \in Folders, Summon(g), Serving(g) = {} PROVE KernelInv'
    <3>1. kernels' = Append(kernels, g) /\ KernelOf(g) = g
        BY <2>2 DEF Summon, KernelOf
    <3>2. kernels' \in Seq(Folders)
        BY <3>1 DEF KernelInv
    <3>3. \A f \in Folders : served'[f] = IF f = g THEN g ELSE served[f]
        BY <2>2, <3>1 DEF Summon, KernelInv
    <3>4. served' \in [Folders -> Folders \cup {NoKernel}]
        BY <2>2, <3>1 DEF Summon, KernelInv
    <3>5. /\ Serving(g)' # {} /\ KernelOf(g)' = g
          /\ \A f \in Folders : Serving(f) # {} => Serving(f)' # {} /\ KernelOf(f)' = KernelOf(f)
        BY <2>2, <3>1, OthersKeepTheirs
    <3>6. (\A f \in Folders : served[f] # NoKernel => Serving(f) # {})'
        BY <3>3, <3>5 DEF KernelInv
    <3>7. KernelStays'
        BY <3>3, <3>5 DEF KernelInv, KernelStays
    <3>8. NoneBelow'
      <4>1. SUFFICES ASSUME NEW i \in 1 .. Len(kernels'), NEW j \in 1 .. Len(kernels'), i < j,
                            IsPrefix(kernels'[i], kernels'[j])
                     PROVE  FALSE
          BY DEF NoneBelow
      <4>2. /\ Len(kernels) \in Nat /\ Len(kernels') = Len(kernels) + 1
            /\ \A k \in 1 .. Len(kernels) : kernels'[k] = kernels[k]
            /\ kernels'[Len(kernels) + 1] = g
          BY <3>1, AppendedIs DEF KernelInv
      <4>3. i \in 1 .. Len(kernels)
          BY <4>1, <4>2
      <4>4. CASE j \in 1 .. Len(kernels)
          BY <4>1, <4>2, <4>3, <4>4 DEF KernelInv, NoneBelow
      <4>5. CASE j = Len(kernels) + 1
        <5>1. IsPrefix(kernels[i], g)
            BY <4>1, <4>2, <4>3, <4>5
        <5> DEFINE h == kernels[i]
        <5>2. h \in Folders /\ h \in ToSet(kernels)
            BY <4>3, AppendedIs DEF KernelInv
        <5> HIDE DEF h
        <5>3. h \in Seq(STRING) /\ Len(h) \in Nat /\ Len(g) \in Nat /\ SubSeq(h, 1, Len(h)) = h
            BY <5>2, ServingIs, PathsNest
        <5>4. Len(h) <= Len(g) /\ SubSeq(h, 1, Len(h)) = SubSeq(g, 1, Len(h))
            BY <5>1 DEF h, IsPrefix
        <5>5. Len(h) \in 0 .. Len(g) /\ SubSeq(g, 1, Len(h)) \in ToSet(kernels)
          <6>1. SubSeq(g, 1, Len(h)) = h
              BY <5>3, <5>4, Zenon
          <6>2. Len(h) \in Nat /\ Len(g) \in Nat /\ Len(h) <= Len(g)
              BY <5>3, <5>4, Zenon
          <6> DEFINE a == Len(h)
                     b == Len(g)
          <6>3. a \in 0 .. b
            <7> HIDE DEF a, b
            <7> QED
                BY <6>2 DEF a, b
          <6> QED
              BY <6>1, <6>3, <5>2, Zenon
        <5>6. Len(h) \in Serving(g)
            BY <5>5 DEF Serving
        <5> QED
            BY <5>6, <2>2
      <4> QED
          BY <4>2, <4>4, <4>5
    <3> QED
        BY <3>2, <3>4, <3>6, <3>7, <3>8 DEF KernelInv
  <2>3. CASE UNCHANGED kernelVars
    <3>1. \A f : Serving(f)' = Serving(f) /\ KernelOf(f)' = KernelOf(f)
        BY <2>3 DEF kernelVars, KernelOf, Serving
    <3> QED
        BY <2>3, <3>1 DEF kernelVars, KernelInv, KernelStays, NoneBelow
  <2> QED
      BY <2>1, <2>2, <2>3 DEF KernelNext
<1> QED
    BY <1>1, <1>2, PTL DEF KernelSpec

\* A folder keeps the kernel that served it first, whichever folders are served
\* after it, in whatever order (tools/llm/kernel).
THEOREM KernelsStay == KernelSpec => []KernelStays
<1>1. KernelInv => KernelStays
    BY DEF KernelInv
<1> QED
    BY <1>1, KernelInvariance, PTL

\* No kernel comes up in a folder that one above it serves (tools/llm/kernel).
THEOREM KernelsAreNotNested == KernelSpec => []NoneBelow
<1>1. KernelInv => NoneBelow
    BY DEF KernelInv
<1> QED
    BY <1>1, KernelInvariance, PTL

------------------------------------------------------------------------------
(* Environments: what is cached for a folder whose files have not changed   *)
(* since is what the walk upwards finds now.                                *)

LEMMA GreatestIs ==
    ASSUME NEW n \in Nat, NEW S, S \subseteq 1 .. n
    PROVE  /\ S = {} => Greatest(S) = 0
           /\ S # {} => Greatest(S) \in S /\ \A y \in S : y <= Greatest(S)
<1>1. S = {} => Greatest(S) = 0
    BY DEF Greatest
<1>2. ASSUME S # {} PROVE Greatest(S) \in S /\ \A y \in S : y <= Greatest(S)
  <2>1. S \subseteq 0 .. n
      OBVIOUS
  <2>2. PICK x \in S : \A y \in S : y <= x
      BY <1>2, <2>1, HasGreatest
  <2> QED
      BY <1>2, <2>2 DEF Greatest
<1> QED
    BY <1>1, <1>2

LEMMA LeastIs ==
    ASSUME NEW n \in Nat, NEW S, S \subseteq 1 .. n
    PROVE  /\ S = {} => Least(S) = 0
           /\ S # {} => Least(S) \in S /\ \A y \in S : Least(S) <= y
<1>1. S = {} => Least(S) = 0
    BY DEF Least
<1>2. ASSUME S # {} PROVE Least(S) \in S /\ \A y \in S : Least(S) <= y
  <2>1. S \subseteq Nat
      OBVIOUS
  <2>2. PICK x \in S : \A y \in S : x <= y
      BY <1>2, <2>1, HasLeast
  <2> QED
      BY <1>2, <2>2 DEF Least
<1> QED
    BY <1>1, <1>2

\* The folders above one where a walk turns, or that hold anything of a project.
TurnsAbove(f)    == {p \in 1 .. f : project[p] \in {"workspace", "broken"}}
ProjectsAbove(f) == {p \in 1 .. f : project[p] # "none"}

\* What a walk finds that reads every file as it is now.
FoundWorkspace(f) ==
    IF Greatest(TurnsAbove(f)) # 0 THEN Greatest(TurnsAbove(f)) ELSE Least(ProjectsAbove(f))

LEMMA WalksUpwards ==
    ASSUME NEW f \in Path
    PROVE  /\ FoundWorkspace(f) \in 0 .. f /\ ProjectOf(f) \in 0 .. f
           /\ FoundWorkspace(f) # 0 => FoundWorkspace(f) \in ProjectsAbove(f) /\ FoundWorkspace(f) <= ProjectOf(f)
           /\ TurnsAbove(f) # {} => project[FoundWorkspace(f)] \in {"workspace", "broken"}
           /\ TurnsAbove(f) = {} => FoundWorkspace(f) = Least(ProjectsAbove(f))
<1>1. f \in Nat /\ TurnsAbove(f) \subseteq 1 .. f /\ ProjectsAbove(f) \subseteq 1 .. f
    BY EnvAssumption DEF Path, TurnsAbove, ProjectsAbove
<1>2. TurnsAbove(f) \subseteq ProjectsAbove(f)
    BY DEF TurnsAbove, ProjectsAbove
<1>3. ProjectOf(f) = Greatest(ProjectsAbove(f))
    BY DEF ProjectOf, ProjectsAbove
<1>4. \A p \in TurnsAbove(f) : project[p] \in {"workspace", "broken"}
    BY DEF TurnsAbove
<1>5. /\ TurnsAbove(f) = {} => Greatest(TurnsAbove(f)) = 0
      /\ TurnsAbove(f) # {} => Greatest(TurnsAbove(f)) \in TurnsAbove(f)
      /\ ProjectsAbove(f) = {} => Greatest(ProjectsAbove(f)) = 0 /\ Least(ProjectsAbove(f)) = 0
      /\ ProjectsAbove(f) # {} => /\ Greatest(ProjectsAbove(f)) \in ProjectsAbove(f)
                                  /\ Least(ProjectsAbove(f)) \in ProjectsAbove(f)
                                  /\ \A y \in ProjectsAbove(f) : y <= Greatest(ProjectsAbove(f))
    BY <1>1, GreatestIs, LeastIs
<1>6. CASE TurnsAbove(f) # {}
  <2>1. FoundWorkspace(f) = Greatest(TurnsAbove(f)) /\ FoundWorkspace(f) \in TurnsAbove(f)
      BY <1>1, <1>5, <1>6 DEF FoundWorkspace
  <2> QED
      BY <1>1, <1>2, <1>3, <1>4, <1>5, <1>6, <2>1
<1>7. CASE TurnsAbove(f) = {}
  <2>1. FoundWorkspace(f) = Least(ProjectsAbove(f))
      BY <1>5, <1>7 DEF FoundWorkspace
  <2> QED
      BY <1>1, <1>3, <1>5, <1>7, <2>1
<1> QED
    BY <1>6, <1>7

\* What is cached for a folder whose files are as they were read is what a walk finds now,
\* and a project is asked for only where a workspace was found.
FoundAsIs(f) ==
    /\ projects[f] # NotAsked => workspaces[f] > 0
    /\ f \notin stale /\ projects[f] # NotAsked => projects[f] = ProjectOf(f)
    /\ FilesAsRead(f) /\ workspaces[f] > 0 =>
           workspaces[f] = FoundWorkspace(f) /\ project[workspaces[f]] # "broken"

EnvInv ==
    /\ project \in [Path -> Kinds]
    /\ loaded \in [Path -> {"unread", "plain", "workspace"}]
    /\ installed \in {"unknown", "yes", "no"}
    /\ installed = "yes" => uv # "nowhere"
    /\ installed = "no" => uv = "nowhere"
    /\ workspaces \in [Path -> Nat \cup {NotAsked}] /\ projects \in [Path -> Nat \cup {NotAsked}]
    /\ \A f \in Path : FoundAsIs(f)
    /\ UvOnlyInProjects

\* A pyproject whose cache does not contradict it is read as it is.
LEMMA ReadsAsIs ==
    ASSUME EnvInv, NEW f \in Path, FilesAsRead(f)
    PROVE  /\ \A p \in 1 .. f : Content(p) = project[p]
           /\ TurnsAt(f) = Greatest(TurnsAbove(f)) /\ WorkspaceOf(f) = FoundWorkspace(f)
<1>1. \A p \in 1 .. f : Content(p) = project[p]
    BY DEF FilesAsRead, Content
<1>2. /\ {p \in 1 .. f : Content(p) \in {"workspace", "broken"}} = TurnsAbove(f)
      /\ {p \in 1 .. f : Content(p) # "none"} = ProjectsAbove(f)
    BY <1>1 DEF TurnsAbove, ProjectsAbove
<1> QED
    BY <1>1, <1>2 DEF TurnsAt, WorkspaceOf, FoundWorkspace

LEMMA FindsWhatIsThere ==
    ASSUME EnvInv, NEW f \in Path
    PROVE  /\ FindUv \in {"yes", "no"} /\ (FindUv = "no" <=> uv = "nowhere")
           /\ TurnsAt(f) \in 0 .. f /\ WorkspaceOf(f) \in 0 .. f /\ FindWorkspace(f) \in Nat
           /\ FindProject(f) \in Nat
<1>1. FindUv \in {"yes", "no"} /\ (FindUv = "no" <=> uv = "nowhere")
    BY DEF EnvInv, FindUv
<1> DEFINE T == {p \in 1 .. f : Content(p) \in {"workspace", "broken"}}
           P == {p \in 1 .. f : Content(p) # "none"}
<1>2. f \in Nat /\ T \subseteq 1 .. f /\ P \subseteq 1 .. f
    BY EnvAssumption DEF Path
<1>3. TurnsAt(f) = Greatest(T) /\ WorkspaceOf(f) = IF TurnsAt(f) # 0 THEN TurnsAt(f) ELSE Least(P)
    BY DEF TurnsAt, WorkspaceOf
<1> HIDE DEF T, P
<1>4. Greatest(T) \in 0 .. f /\ Least(P) \in 0 .. f
  <2>1. (T = {} => Greatest(T) = 0) /\ (T # {} => Greatest(T) \in T)
      BY <1>2, GreatestIs
  <2>2. (P = {} => Least(P) = 0) /\ (P # {} => Least(P) \in P)
      BY <1>2, LeastIs
  <2>3. 0 \in 0 .. f /\ T \subseteq 0 .. f /\ P \subseteq 0 .. f
      BY <1>2
  <2> QED
      BY <2>1, <2>2, <2>3
<1>5. TurnsAt(f) \in 0 .. f /\ WorkspaceOf(f) \in 0 .. f /\ ProjectOf(f) \in Nat
    BY <1>2, <1>3, <1>4, WalksUpwards
<1>6. \A n \in Nat \cup {NotAsked} : n # NotAsked => n \in Nat
    OBVIOUS
<1>7. workspaces[f] \in Nat \cup {NotAsked} /\ projects[f] \in Nat \cup {NotAsked}
    BY DEF EnvInv
<1> QED
    BY <1>1, <1>2, <1>5, <1>6, <1>7 DEF FindWorkspace, FindProject

\* Reading more files makes none of them fit better what is cached of them.
LEMMA ReadingKeeps ==
    ASSUME EnvInv, NEW f \in Path, UNCHANGED <<project, stale>>, loaded' \in {loaded, ReadUpTo(f)}
    PROVE  /\ loaded' \in [Path -> {"unread", "plain", "workspace"}]
           /\ \A g \in Path : FilesAsRead(g)' => FilesAsRead(g)
           /\ \A g : FoundWorkspace(g)' = FoundWorkspace(g) /\ ProjectOf(g)' = ProjectOf(g)
<1>1. loaded' \in [Path -> {"unread", "plain", "workspace"}]
    BY DEF ReadUpTo, EnvInv
<1>2. \A p \in Path : loaded[p] # "unread" => loaded'[p] = loaded[p]
    BY DEF ReadUpTo, Content, EnvInv
<1>3. \A g \in Path : FilesAsRead(g)' => FilesAsRead(g)
  <2> SUFFICES ASSUME NEW g \in Path, FilesAsRead(g)' PROVE FilesAsRead(g)
      OBVIOUS
  <2>1. \A p \in 1 .. g : p \in Path
      BY EnvAssumption DEF Path
  <2> QED
      BY <1>2, <2>1 DEF FilesAsRead
<1>4. \A g : FoundWorkspace(g)' = FoundWorkspace(g) /\ ProjectOf(g)' = ProjectOf(g)
    BY DEF FoundWorkspace, ProjectOf, TurnsAbove, ProjectsAbove
<1> QED
    BY <1>1, <1>3, <1>4

\* Whoever asks a solver leaves the caches in order.
LEMMA AskingKeeps ==
    ASSUME EnvInv, NEW f \in Path, NEW pref, AskSolver(f, pref), UNCHANGED <<project, uv, stale>>
    PROVE  /\ loaded' \in [Path -> {"unread", "plain", "workspace"}]
           /\ installed' \in {"unknown", "yes", "no"}
           /\ installed' = "yes" => uv # "nowhere"
           /\ installed' = "no" => uv = "nowhere"
           /\ workspaces' \in [Path -> Nat \cup {NotAsked}]
           /\ \A g \in Path : workspaces'[g] = workspaces[g] \/ (g = f /\ workspaces[g] = NotAsked)
           /\ \A g \in Path : FilesAsRead(g)' /\ workspaces'[g] > 0 =>
                  workspaces'[g] = FoundWorkspace(g)' /\ project'[workspaces'[g]] # "broken"
           /\ \A g : ProjectOf(g)' = ProjectOf(g)
<1>1. /\ installed' \in {"unknown", "yes", "no"}
      /\ installed' = "yes" => uv # "nowhere"
      /\ installed' = "no" => uv = "nowhere"
    BY FindsWhatIsThere DEF AskSolver, EnvInv
<1>2. loaded' \in {loaded, ReadUpTo(f)}
    BY DEF AskSolver, AskWorkspace
<1>3. workspaces' = workspaces \/ (~WalkRaises(f) /\ workspaces' = [workspaces EXCEPT ![f] = FindWorkspace(f)])
    BY DEF AskSolver, AskWorkspace
<1>4. workspaces' \in [Path -> Nat \cup {NotAsked}]
    BY <1>3, FindsWhatIsThere DEF EnvInv
<1>5. \A g \in Path : workspaces'[g] = workspaces[g] \/ (g = f /\ workspaces[g] = NotAsked)
    BY <1>3 DEF EnvInv, FindWorkspace
<1>6. ASSUME NEW g \in Path, FilesAsRead(g)', workspaces'[g] > 0
      PROVE  workspaces'[g] = FoundWorkspace(g)' /\ project'[workspaces'[g]] # "broken"
  <2>1. FilesAsRead(g) /\ FoundWorkspace(g)' = FoundWorkspace(g)
      BY <1>2, <1>6, ReadingKeeps
  <2>2. CASE workspaces'[g] = workspaces[g]
      BY <1>6, <2>1, <2>2 DEF EnvInv, FoundAsIs
  <2>3. CASE g = f /\ workspaces[f] = NotAsked /\ workspaces'[f] # NotAsked
    <3>1. ~WalkRaises(f) /\ workspaces'[f] = FindWorkspace(f)
        BY <1>3, <2>3 DEF EnvInv
    <3>2. FindUv = "yes" /\ FindWorkspace(f) = WorkspaceOf(f)
        BY <1>6, <2>3, <3>1, FindsWhatIsThere DEF FindWorkspace
    <3>3. ~Unreadable(f)
        BY <2>3, <3>1, <3>2 DEF WalkRaises, NeedsWalk
    <3>4. /\ WorkspaceOf(f) = FoundWorkspace(f) /\ TurnsAt(f) = Greatest(TurnsAbove(f))
          /\ \A p \in 1 .. f : Content(p) = project[p]
        BY <2>1, <2>3, ReadsAsIs
    <3>5. FoundWorkspace(f) \in 1 .. f
        BY <1>6, <2>3, <3>1, <3>2, <3>4, WalksUpwards, EnvAssumption DEF Path
    <3>6. project[FoundWorkspace(f)] # "broken"
      <4>1. CASE TurnsAt(f) # 0
          BY <3>3, <3>4, <3>5, <4>1 DEF Unreadable, FoundWorkspace
      <4>2. CASE TurnsAt(f) = 0
        <5>1. TurnsAbove(f) = {}
          <6>1. f \in Nat /\ TurnsAbove(f) \subseteq 1 .. f
              BY EnvAssumption DEF Path, TurnsAbove
          <6>2. TurnsAbove(f) # {} => Greatest(TurnsAbove(f)) \in TurnsAbove(f)
              BY <6>1, GreatestIs
          <6> QED
              BY <3>4, <4>2, <6>1, <6>2
        <5> QED
            BY <3>5, <5>1 DEF TurnsAbove
      <4> QED
          BY <4>1, <4>2
    <3> QED
        BY <2>1, <2>3, <3>1, <3>2, <3>4, <3>6
  <2> QED
      BY <1>5, <2>2, <2>3
<1>7. \A g : ProjectOf(g)' = ProjectOf(g)
    BY <1>2, ReadingKeeps
<1> QED
    BY <1>1, <1>2, <1>4, <1>5, <1>6, <1>7, ReadingKeeps

THEOREM EnvInvariance == EnvSpec => []EnvInv
<1>1. EnvInit => EnvInv
  <2>1. NotAsked \in Int /\ ~(NotAsked > 0)
      BY DEF NotAsked
  <2> QED
      BY <2>1 DEF EnvInit, EnvInv, FoundAsIs, UvOnlyInProjects, Nothing
<1>2. EnvInv /\ [EnvNext]_envVars => EnvInv'
  <2> SUFFICES ASSUME EnvInv, [EnvNext]_envVars PROVE EnvInv'
      OBVIOUS
  <2>1. ASSUME NEW f \in Path, NEW pref, AskSolver(f, pref), UNCHANGED <<project, uv, stale, projects>>,
               UvOnlyInProjects'
        PROVE  EnvInv'
    <3>1. ASSUME NEW g \in Path PROVE FoundAsIs(g)'
      <4>1. workspaces[g] > 0 => workspaces[g] # NotAsked
          BY DEF NotAsked
      <4> QED
          BY <2>1, <4>1, AskingKeeps DEF EnvInv, FoundAsIs
    <3> QED
        BY <2>1, <3>1, AskingKeeps DEF EnvInv
  <2>2. ASSUME NEW f \in Path, NEW given, SolvePreference(f, given) PROVE EnvInv'
    <3> DEFINE pref == IF given = "none" THEN preference ELSE given
    <3>1. AskSolver(f, pref) /\ UNCHANGED <<project, uv, stale, projects>>
        BY <2>2 DEF SolvePreference
    <3>2. solved' = solved \/ solved' = Solve(f, pref)
        BY <2>2 DEF SolvePreference
    <3> HIDE DEF pref
    <3>3. LET s == Solve(f, pref)
          IN  s.kind = "uv" => s.pref = "uv" \/ (FindUv = "yes" /\ s.workspace # 0)
        BY DEF Solve
    <3>4. UvOnlyInProjects'
        BY <3>1, <3>2, <3>3, FindsWhatIsThere DEF UvOnlyInProjects, EnvInv
    <3> QED
        BY <2>1, <3>1, <3>4
  <2>3. ASSUME NEW f \in Path, ToWorkspace(f) PROVE EnvInv'
    <3>1. AskSolver(f, "auto") /\ UNCHANGED <<project, uv, stale, projects, solved>>
        BY <2>3 DEF ToWorkspace
    <3> QED
        BY <2>1, <3>1 DEF UvOnlyInProjects, EnvInv
  <2>4. ASSUME NEW f \in Path, AskProject(f) PROVE EnvInv'
    <3>1. AskSolver(f, "auto") /\ UNCHANGED <<project, uv, stale, solved>>
        BY <2>4 DEF AskProject
    <3>2. CASE UNCHANGED projects
        BY <2>1, <3>1, <3>2 DEF UvOnlyInProjects, EnvInv
    <3>3. CASE FindUv = "yes" /\ ~WalkRaises(f) /\ FindWorkspace(f) # 0
               /\ projects' = [projects EXCEPT ![f] = FindProject(f)]
      <4>1. workspaces' = [workspaces EXCEPT ![f] = FindWorkspace(f)]
          BY <3>1, <3>3 DEF AskSolver, AskWorkspace
      <4>2. workspaces'[f] > 0
          BY <3>3, <4>1, FindsWhatIsThere DEF EnvInv
      <4>3. projects' \in [Path -> Nat \cup {NotAsked}]
          BY <3>3, FindsWhatIsThere DEF EnvInv
      <4>4. projects'[f] = projects[f] \/ projects'[f] = ProjectOf(f)
          BY <3>3 DEF EnvInv, FindProject
      <4>5. \A g \in Path : g # f => projects'[g] = projects[g] /\ workspaces'[g] = workspaces[g]
          BY <3>3, <4>1 DEF EnvInv
      <4>6. ASSUME NEW g \in Path PROVE FoundAsIs(g)'
        <5>1. CASE g = f
            BY <3>1, <4>2, <4>4, <5>1, AskingKeeps DEF FoundAsIs, EnvInv, FindProject
        <5>2. CASE g # f
            BY <3>1, <4>5, <5>2, AskingKeeps DEF FoundAsIs, EnvInv
        <5> QED
            BY <5>1, <5>2
      <4>7. UvOnlyInProjects'
          BY <3>1 DEF UvOnlyInProjects, EnvInv
      <4> QED
          BY <3>1, <4>3, <4>6, <4>7, AskingKeeps DEF EnvInv
    <3> QED
        BY <2>4, <3>2, <3>3 DEF AskProject
  <2>5. ASSUME NEW f \in Path, AskApart(f) PROVE EnvInv'
    <3>1. UNCHANGED <<project, uv, installed, workspaces, projects, stale, solved>> /\ loaded' = ReadUpTo(f)
        BY <2>5 DEF AskApart
    <3> QED
        BY <3>1, ReadingKeeps DEF EnvInv, FoundAsIs, UvOnlyInProjects
  <2>6. ASSUME NEW f \in Path, NEW k \in Kinds, FilesChange(f, k) PROVE EnvInv'
    <3>1. /\ project' = [project EXCEPT ![f] = k] /\ UNCHANGED <<loaded, uv, installed, workspaces, projects, solved>>
          /\ stale' = stale \cup {g \in f .. Depth : workspaces[g] # NotAsked \/ projects[g] # NotAsked}
        BY <2>6 DEF FilesChange
    <3>2. ASSUME NEW g \in Path PROVE FoundAsIs(g)'
      <4>1. CASE g \in stale'
          BY <3>1, <4>1 DEF FoundAsIs, FilesAsRead, EnvInv
      <4>2. CASE g \notin stale' /\ (workspaces[g] # NotAsked \/ projects[g] # NotAsked)
        <5>1. g < f /\ g \notin stale
            BY <3>1, <4>2, EnvAssumption DEF Path
        <5>2. \A p \in 1 .. g : p \in Path /\ project'[p] = project[p]
            BY <3>1, <5>1, EnvAssumption DEF Path, EnvInv
        <5>3. /\ TurnsAbove(g)' = TurnsAbove(g) /\ ProjectsAbove(g)' = ProjectsAbove(g)
              /\ ProjectOf(g)' = ProjectOf(g)
            BY <5>2 DEF TurnsAbove, ProjectsAbove, ProjectOf
        <5>4. FoundWorkspace(g)' = FoundWorkspace(g) /\ (FilesAsRead(g)' => FilesAsRead(g))
            BY <3>1, <5>1, <5>2, <5>3 DEF FoundWorkspace, FilesAsRead
        <5>5. FoundWorkspace(g) \in 0 .. g
            BY WalksUpwards
        <5> QED
            BY <3>1, <5>1, <5>2, <5>3, <5>4, <5>5, EnvAssumption DEF FoundAsIs, EnvInv, Path
      <4>3. CASE workspaces[g] = NotAsked /\ projects[g] = NotAsked
          BY <3>1, <4>3 DEF FoundAsIs, NotAsked
      <4> QED
          BY <4>1, <4>2, <4>3
    <3> QED
        BY <3>1, <3>2 DEF EnvInv, UvOnlyInProjects
  <2>7. ASSUME UNCHANGED <<project, loaded, uv, installed, workspaces, projects, stale, solved>> PROVE EnvInv'
      BY <2>7 DEF EnvInv, FoundAsIs, UvOnlyInProjects, FilesAsRead, FoundWorkspace, ProjectOf, TurnsAbove,
                  ProjectsAbove
  <2>8. ASSUME NEW p \in Preferences, SetPreference(p) PROVE EnvInv'
      BY <2>7, <2>8 DEF SetPreference
  <2>9. CASE UNCHANGED envVars
      BY <2>7, <2>9 DEF envVars
  <2> QED
      BY <2>2, <2>3, <2>4, <2>5, <2>6, <2>8, <2>9 DEF EnvNext
<1> QED
    BY <1>1, <1>2, PTL DEF EnvSpec

\* Whatever is asked and preferred in whatever order, and however the files change, uv
\* runs nothing outside of a project but for who prefers it (environment_manager).
THEOREM UvInProjects == EnvSpec => []UvOnlyInProjects
<1>1. EnvInv => UvOnlyInProjects
    BY DEF EnvInv
<1> QED
    BY <1>1, EnvInvariance, PTL

\* What the solver answers for the folders of a project fits together, as long as the files
\* above them are as they were read: for a folder, as to its workspace and its project, and
\* for two, as to the root (environment_manager).
THEOREM LookupsFit == EnvSpec => []LookupsAgree
<1>1. EnvInv => LookupsAgree
  <2> SUFFICES ASSUME EnvInv PROVE LookupsAgree
      OBVIOUS
  <2>1. ASSUME NEW f \in Path, FilesAsRead(f), projects[f] # NotAsked
        PROVE  0 < workspaces[f] /\ workspaces[f] <= projects[f]
    <3>1. workspaces[f] > 0 /\ f \notin stale /\ workspaces[f] = FoundWorkspace(f) /\ projects[f] = ProjectOf(f)
        BY <2>1 DEF EnvInv, FoundAsIs, FilesAsRead
    <3> QED
        BY <3>1, WalksUpwards
  <2>2. ASSUME NEW f \in Path, NEW g \in Path, FilesAsRead(f), FilesAsRead(g), f <= g,
               workspaces[f] > 0, workspaces[g] > 0
        PROVE  workspaces[f] = workspaces[g] \/ project[workspaces[g]] = "workspace"
    <3>1. /\ workspaces[f] = FoundWorkspace(f) /\ FoundWorkspace(f) # 0
          /\ workspaces[g] = FoundWorkspace(g) /\ project[FoundWorkspace(g)] # "broken"
        BY <2>2 DEF EnvInv, FoundAsIs
    <3>2. CASE TurnsAbove(g) # {}
        BY <3>1, <3>2, WalksUpwards
    <3>3. CASE TurnsAbove(g) = {}
      <4>1. f \in Nat /\ g \in Nat /\ ProjectsAbove(f) \subseteq 1 .. f /\ ProjectsAbove(g) \subseteq 1 .. g
          BY EnvAssumption DEF Path, ProjectsAbove
      <4>2. TurnsAbove(f) = {} /\ ProjectsAbove(f) \subseteq ProjectsAbove(g)
          BY <3>3, <4>1, <2>2 DEF TurnsAbove, ProjectsAbove
      <4>3. \A p \in ProjectsAbove(g) : p <= f => p \in ProjectsAbove(f)
          BY <4>1 DEF ProjectsAbove
      <4>4. ProjectsAbove(f) # {}
          BY <3>1, WalksUpwards
      <4> DEFINE a == Least(ProjectsAbove(f))
                 b == Least(ProjectsAbove(g))
      <4>5. a \in ProjectsAbove(f) /\ \A y \in ProjectsAbove(f) : a <= y
          BY <4>1, <4>4, LeastIs
      <4>6. b \in ProjectsAbove(g) /\ \A y \in ProjectsAbove(g) : b <= y
          BY <4>1, <4>2, <4>4, LeastIs
      <4>7. FoundWorkspace(f) = a /\ FoundWorkspace(g) = b
          BY <3>3, <4>2, WalksUpwards
      <4> HIDE DEF a, b
      <4>8. a \in 1 .. f /\ b \in 1 .. g
          BY <4>1, <4>5, <4>6
      <4>9. b <= a
          BY <4>2, <4>5, <4>6
      <4>10. b \in ProjectsAbove(f)
          BY <4>1, <4>3, <4>6, <4>8, <4>9
      <4>11. a <= b
          BY <4>5, <4>10
      <4>12. a = b
          BY <4>1, <4>8, <4>9, <4>11
      <4> QED
          BY <3>1, <4>7, <4>12
    <3> QED
        BY <3>2, <3>3
  <2> QED
      BY <2>1, <2>2 DEF LookupsAgree
<1> QED
    BY <1>1, EnvInvariance, PTL

------------------------------------------------------------------------------
(* Configuration: nothing is moved out of the folder of a workspace, which  *)
(* holds another one, and that folder has the date of its last              *)
(* configuration.                                                           *)

Dicts  == [kind : {"absent", "blank", "dict"}, at : [Entries -> Nat]]
Folder == [there : BOOLEAN, dict : Dicts, origin : Int]

IsKept(v) == \E f \in Places : v \in ValuesIn(disk[f].dict)

ConfInv ==
    /\ disk \in [Places -> Folder]
    /\ config.folder \in {"none", "project", "ofWorkspace"}
    /\ config.folder = "none" => config = NoConfig
    /\ values \in Nat /\ days \in Nat /\ made \in 0 .. days
    /\ config.type = "centralized" /\ made = days =>
           disk["ofWorkspace"].there /\ disk["ofWorkspace"].origin = days
    /\ NothingIsLost

LEMMA ValuesAre ==
    /\ \A dict, v : v \in ValuesIn(dict) <=> v # 0 /\ \E k \in Entries : dict.at[k] = v
    /\ ValuesIn(Absent) = {}
<1>1. \A dict, v : v \in ValuesIn(dict) <=> v # 0 /\ \E k \in Entries : dict.at[k] = v
    BY DEF ValuesIn
<1>2. \A k \in Entries : Absent.at[k] = 0
    BY DEF Absent, NoEntry
<1> QED
    BY <1>1, <1>2

LEMMA LostIsGone == NothingIsLost <=> \A v \in 1 .. values : v \in replaced \/ IsKept(v)
    BY DEF NothingIsLost, IsKept

\* A step that moves the values it does not give up loses none.
LEMMA NothingGoes ==
    ASSUME ConfInv, replaced \subseteq replaced',
           \A f \in Places : \A v \in ValuesIn(disk[f].dict) : v \in replaced' \/ IsKept(v)',
           values' = values \/ (values' = values + 1 /\ (values' \in replaced' \/ IsKept(values)'))
    PROVE  NothingIsLost'
<1>1. \A v \in 1 .. values : v \in replaced' \/ IsKept(v)'
    BY LostIsGone DEF ConfInv, IsKept
<1>2. \A v \in 1 .. values' : v \in 1 .. values \/ (v = values' /\ values' = values + 1)
    BY DEF ConfInv
<1>3. \A v \in 1 .. values' : v \in replaced' \/ IsKept(v)'
    BY <1>1, <1>2 DEF IsKept
<1> QED
    BY <1>3 DEF NothingIsLost, IsKept

LEMMA FilesAre ==
    /\ Absent \in Dicts
    /\ BlankFile \in Dicts
    /\ Missing \in Folder
    /\ Missing.dict = Absent
    BY DEF Absent, BlankFile, Missing, NoEntry, NoOrigin, Folder, Dicts

LEMMA FolderWritten ==
    ASSUME NEW r \in Folder, NEW v \in Int
    PROVE  /\ [r EXCEPT !.there = TRUE, !.origin = v] \in Folder
           /\ [r EXCEPT !.there = TRUE, !.origin = v].there = TRUE
           /\ [r EXCEPT !.there = TRUE, !.origin = v].dict = r.dict
           /\ [r EXCEPT !.there = TRUE, !.origin = v].origin = v
           /\ [r EXCEPT !.there = TRUE] \in Folder
           /\ [r EXCEPT !.there = TRUE].there = TRUE
           /\ [r EXCEPT !.there = TRUE].dict = r.dict
           /\ [r EXCEPT !.there = TRUE].origin = r.origin
    BY DEF Folder

LEMMA MadeKeeps ==
    ASSUME NEW d \in [Places -> Folder], NEW f \in Places, NEW new, new = [d EXCEPT ![f].there = TRUE]
    PROVE  /\ new \in [Places -> Folder]
           /\ \A g \in Places : /\ new[g].dict = d[g].dict /\ new[g].origin = d[g].origin
                               /\ new[g].there \in {TRUE, d[g].there}
<1> DEFINE e == [d[f] EXCEPT !.there = TRUE]
<1>1. e \in Folder /\ e.there = TRUE /\ e.dict = d[f].dict /\ e.origin = d[f].origin
  <2>1. PICK r \in Folder : r = d[f]
      OBVIOUS
  <2>2. e = [r EXCEPT !.there = TRUE]
      BY <2>1
  <2> HIDE DEF e
  <2> QED
      BY <2>1, <2>2 DEF Folder
<1>2. new = [d EXCEPT ![f] = e]
    OBVIOUS
<1> HIDE DEF e
<1> QED
    BY <1>1, <1>2

LEMMA TouchKeeps ==
    ASSUME NEW d \in [Places -> Folder], NEW f \in Places, days \in Nat
    PROVE  /\ Touched(d, f) \in [Places -> Folder]
           /\ \A g \in Places : Touched(d, f)[g].dict = d[g].dict
           /\ \A g \in Places \ {f} : Touched(d, f)[g] = d[g]
           /\ Touched(d, f)[f].there = TRUE /\ Touched(d, f)[f].origin = days
<1> DEFINE e == [d[f] EXCEPT !.there = TRUE, !.origin = days]
<1>1. e \in Folder /\ e.there = TRUE /\ e.dict = d[f].dict /\ e.origin = days
  <2>1. PICK r \in Folder : r = d[f]
      OBVIOUS
  <2>2. e = [r EXCEPT !.there = TRUE, !.origin = days] /\ days \in Int
      BY <2>1
  <2> HIDE DEF e
  <2> QED
      BY <2>1, <2>2 DEF Folder
<1>2. Touched(d, f) = [d EXCEPT ![f] = e]
    BY DEF Touched
<1> HIDE DEF e
<1> QED
    BY <1>1, <1>2

\* A copy that removes what it was made of loses no more than what it goes over.
LEMMA CopyKeeps ==
    ASSUME ConfInv, NEW d \in [Places -> Folder], NEW remove \in BOOLEAN,
           \A g \in Places : d[g].dict = disk[g].dict,
           d["ofWorkspace"] = disk["ofWorkspace"],
           NEW from \in Places \ {"ofWorkspace"}, NEW to \in Places \ {"ofWorkspace"}, from # to,
           Copy(d, from, to, remove), UNCHANGED <<config, values, days, made>>
    PROVE  ConfInv'
<1> DEFINE copied == MergeCopy(d, from, to)
<1>1. /\ copied \in [Places -> Folder]
      /\ \A g \in Places \ {to} : copied[g] = d[g]
      /\ copied[to].dict = IF d[from].dict = Absent THEN d[to].dict ELSE d[from].dict
  <2> DEFINE dict   == IF d[from].dict = Absent THEN d[to].dict ELSE d[from].dict
             origin == IF d[from].origin = NoOrigin THEN d[to].origin ELSE d[from].origin
             e == [d[to] EXCEPT !.there = TRUE, !.dict = dict, !.origin = origin]
  <2>1. d[to] \in Folder /\ dict \in Dicts /\ origin \in Int
      BY DEF Folder
  <2>2. copied = [d EXCEPT ![to] = e]
      BY DEF MergeCopy
  <2> HIDE DEF dict, origin
  <2>3. e \in Folder /\ e.dict = dict
      BY <2>1 DEF Folder
  <2>4. dict = IF d[from].dict = Absent THEN d[to].dict ELSE d[from].dict
      BY DEF dict
  <2> HIDE DEF e, copied
  <2> QED
      BY <2>2, <2>3, <2>4
<1>2. /\ disk' = IF remove THEN Removed(copied, from) ELSE copied
      /\ replaced' = IF d[from].dict = Absent THEN replaced
                     ELSE replaced \cup (ValuesIn(d[to].dict) \ ValuesIn(d[from].dict))
    BY DEF Copy
<1> HIDE DEF copied
<1>3. disk' \in [Places -> Folder]
    BY <1>1, <1>2, FilesAre DEF Removed
<1>4. /\ \A g \in Places \ {from, to} : disk'[g] = d[g]
      /\ disk'[to].dict = IF d[from].dict = Absent THEN d[to].dict ELSE d[from].dict
      /\ disk'[from] \in {d[from], Missing}
    BY <1>1, <1>2 DEF Removed
<1>5. \A g \in Places : \A v \in ValuesIn(disk[g].dict) : v \in replaced' \/ IsKept(v)'
  <2> SUFFICES ASSUME NEW g \in Places, NEW v \in ValuesIn(disk[g].dict), v \notin replaced'
               PROVE  \E h \in Places : v \in ValuesIn(disk'[h].dict)
      BY DEF IsKept
  <2>1. CASE g \notin {from, to}
      BY <2>1, <1>4
  <2>2. CASE g = from
      BY <2>2, <1>4, ValuesAre
  <2>3. CASE g = to
      BY <2>3, <1>2, <1>4
  <2> QED
      BY <2>1, <2>2, <2>3
<1>6. replaced \subseteq replaced'
    BY <1>2
<1>7. NothingIsLost'
    BY <1>5, <1>6, NothingGoes
<1>8. disk'["ofWorkspace"] = disk["ofWorkspace"]
    BY <1>4 DEF Places, Local, Central
<1> QED
    BY <1>3, <1>7, <1>8 DEF ConfInv, Folder

THEOREM ConfInvariance == ConfSpec => []ConfInv
<1>1. ASSUME ConfInit PROVE ConfInv
  <2>1. disk \in [Places -> Folder]
    <3>1. PICK there \in {{"global"}, {"global", "project"}} :
              disk = [f \in Places |-> [Missing EXCEPT !.there = f \in there]]
        BY <1>1 DEF ConfInit
    <3>2. ASSUME NEW f \in Places PROVE [Missing EXCEPT !.there = f \in there] \in Folder
      <4>1. (f \in there) \in BOOLEAN
          OBVIOUS
      <4>2. \A b \in BOOLEAN : [Missing EXCEPT !.there = b] \in Folder
          BY FilesAre DEF Folder
      <4> QED
          BY <4>1, <4>2, Zenon
    <3> QED
        BY <3>1, <3>2
  <2> QED
      BY <1>1, <2>1 DEF ConfInit, ConfInv, Folder, NothingIsLost, NoConfig
<1>2. ConfInv /\ [ConfNext]_confVars => ConfInv'
  <2> SUFFICES ASSUME ConfInv, [ConfNext]_confVars PROVE ConfInv'
      OBVIOUS
  <2>0. disk \in [Places -> Folder] /\ days \in Nat /\ values \in Nat
      BY DEF ConfInv, Folder
  <2>1. ASSUME NEW wanted \in {"auto", "project", "centralized"}, Make(wanted) PROVE ConfInv'
    <3>1. UNCHANGED <<values, days, replaced>> /\ made' = days
        BY <2>1 DEF Make
    <3>2. "ofWorkspace" \in Places
        BY DEF Places, Local, Central
    <3>3. /\ disk' \in [Places -> Folder] /\ \A g \in Places : disk'[g].dict = disk[g].dict
          /\ config'.folder \in {"project", "ofWorkspace"}
          /\ config'.type = "centralized" =>
                 disk'["ofWorkspace"].there /\ disk'["ofWorkspace"].origin = days
      <4>1. CASE TypeFor(wanted) = "project"
          BY <2>0, <2>1, <4>1 DEF Make
      <4>2. CASE TypeFor(wanted) # "project"
        <5>1. config'.folder = "ofWorkspace" /\ disk' = Touched(disk, "ofWorkspace")
            BY <2>1, <4>2 DEF Make, CentralizedFolder
        <5> QED
            BY <5>1, <3>2, <2>0, TouchKeeps
      <4> QED
          BY <4>1, <4>2
    <3>4. NothingIsLost'
        BY <3>1, <3>3, NothingGoes DEF IsKept
    <3> QED
        BY <3>1, <3>3, <3>4, <2>0 DEF ConfInv, Folder
  <2>2. ASSUME NEW place \in {"local", "global"}, GetFolder(place) PROVE ConfInv'
    <3> DEFINE f == FolderOf(place)
    <3>1. UNCHANGED <<config, values, days, made, replaced>>
        BY <2>2 DEF GetFolder
    <3>2. f \in Places
        BY <2>2 DEF GetFolder, Made, ConfInv, FolderOf, Places, Local, Central
    <3>3. disk' = [disk EXCEPT ![f].there = TRUE]
        BY <2>2 DEF GetFolder
    <3> HIDE DEF f
    <3>4. /\ disk' \in [Places -> Folder]
          /\ \A g \in Places : /\ disk'[g].dict = disk[g].dict /\ disk'[g].origin = disk[g].origin
                              /\ disk'[g].there \in {TRUE, disk[g].there}
      <4>1. disk' \in [Places -> Folder] /\ \A g \in Places : g # f => disk'[g] = disk[g]
          BY <3>2, <3>3, <2>0 DEF Folder
      <4>2. disk'[f].dict = disk[f].dict /\ disk'[f].origin = disk[f].origin /\ disk'[f].there = TRUE
          BY <3>2, <3>3, <2>0 DEF Folder
      <4> QED
          BY <3>2, <4>1, <4>2, Zenon
    <3>5. NothingIsLost'
        BY <3>1, <3>4, NothingGoes DEF IsKept
    <3>6. "ofWorkspace" \in Places
        BY DEF Places, Local, Central
    <3> QED
        BY <3>1, <3>4, <3>5, <3>6 DEF ConfInv, Folder
  <2>3. ASSUME NEW place \in {"local", "global"}, NEW k \in Entries, AssureDict(place, k) PROVE ConfInv'
    <3> DEFINE f == FolderOf(place)
    <3>1. UNCHANGED <<config, days, made, replaced>>
        BY <2>3 DEF AssureDict
    <3>2. f \in Places
        BY <2>3 DEF AssureDict, Made, ConfInv, FolderOf, Places, Local, Central
    <3>3. IF disk[f].dict # Absent
          THEN disk' = [disk EXCEPT ![f].there = TRUE] /\ UNCHANGED values
          ELSE /\ values' = values + 1
               /\ disk' = [disk EXCEPT ![f].there = TRUE, ![f].dict = Dict([NoEntry EXCEPT ![k] = values'])]
        BY <2>3 DEF AssureDict
    <3> HIDE DEF f
    <3>4. "ofWorkspace" \in Places
        BY DEF Places, Local, Central
    <3>5. CASE disk[f].dict # Absent
      <4>1. /\ disk' \in [Places -> Folder] /\ values' = values
            /\ \A g \in Places : /\ disk'[g].dict = disk[g].dict /\ disk'[g].origin = disk[g].origin
                                /\ disk'[g].there \in {TRUE, disk[g].there}
          BY <3>2, <3>3, <3>5, <2>0, MadeKeeps, ZenonT(30)
      <4>2. NothingIsLost'
          BY <3>1, <4>1, NothingGoes DEF IsKept
      <4> QED
          BY <3>1, <3>4, <4>1, <4>2 DEF ConfInv, Folder
    <3>6. CASE disk[f].dict = Absent
      <4> DEFINE new == Dict([NoEntry EXCEPT ![k] = values'])
      <4>1. values' = values + 1 /\ disk' = [disk EXCEPT ![f].there = TRUE, ![f].dict = new]
          BY <3>3, <3>6
      <4>2. new \in Dicts /\ new.at[k] = values'
          BY <4>1, <2>0 DEF Dict, NoEntry, Dicts
      <4> HIDE DEF new
      <4>3. /\ disk' \in [Places -> Folder] /\ disk'[f].dict = new
            /\ \A g \in Places : /\ g # f => disk'[g].dict = disk[g].dict
                                /\ disk'[g].origin = disk[g].origin
                                /\ disk'[g].there \in {TRUE, disk[g].there}
          BY <3>2, <4>1, <4>2, <2>0 DEF Folder
      <4>4. IsKept(values)'
          BY <3>2, <4>1, <4>2, <4>3, <2>0, ValuesAre DEF IsKept
      <4>5. \A g \in Places : \A v \in ValuesIn(disk[g].dict) : IsKept(v)'
        <5> SUFFICES ASSUME NEW g \in Places, NEW v \in ValuesIn(disk[g].dict)
                     PROVE  v \in ValuesIn(disk'[g].dict)
            BY DEF IsKept
        <5>1. g # f
            BY <3>6, ValuesAre
        <5> QED
            BY <5>1, <4>3
      <4>6. NothingIsLost'
          BY <3>1, <4>1, <4>4, <4>5, NothingGoes
      <4> QED
          BY <3>1, <3>4, <4>1, <4>3, <4>6, <2>0 DEF ConfInv, Folder
    <3> QED
        BY <3>5, <3>6
  <2>4. ASSUME NEW f \in Places, UserWrites(f) PROVE ConfInv'
    <3>1. UNCHANGED <<config, days, made>> /\ values' = values + 1
        BY <2>4 DEF UserWrites
    <3>2. PICK dict \in {BlankFile} \cup {Dict([disk[f].dict.at EXCEPT ![k] = values']) : k \in Entries} :
              /\ disk' = [disk EXCEPT ![f].dict = dict]
              /\ replaced' = replaced \cup (ValuesIn(disk[f].dict) \ ValuesIn(dict))
                                      \cup ({values'} \ ValuesIn(dict))
        BY <2>4 DEF UserWrites
    <3>3. dict \in Dicts
      <4>1. disk[f].dict.at \in [Entries -> Nat] /\ values' \in Nat
          BY <2>0, <3>1 DEF Folder, Dicts
      <4> QED
          BY <4>1, <3>2, FilesAre DEF Dict, Dicts
    <3>4. /\ disk' \in [Places -> Folder] /\ disk'[f].dict = dict
          /\ \A g \in Places : /\ g # f => disk'[g].dict = disk[g].dict
                              /\ disk'[g].origin = disk[g].origin
                              /\ disk'[g].there = disk[g].there
        BY <3>2, <3>3, <2>0 DEF Folder
    <3>5. \A g \in Places : \A v \in ValuesIn(disk[g].dict) : v \in replaced' \/ IsKept(v)'
        BY <3>2, <3>4 DEF IsKept
    <3>6. values' \in replaced' \/ IsKept(values)'
        BY <3>2, <3>4 DEF IsKept
    <3>7. NothingIsLost'
        BY <3>1, <3>2, <3>5, <3>6, NothingGoes
    <3>8. "ofWorkspace" \in Places
        BY DEF Places, Local, Central
    <3> QED
        BY <3>1, <3>4, <3>7, <3>8, <2>0 DEF ConfInv, Folder
  <2>5. ASSUME NEW remove \in BOOLEAN, Fetch(remove) PROVE ConfInv'
    <3> DEFINE from == CentralizedFolder[config.folder]
               to == ProjectFolder[config.folder]
               d == Touched(disk, from)
    <3>1. /\ UNCHANGED <<config, values, days, made>>
          /\ Copy(d, from, to, remove)
          /\ config.folder \in {"project", "ofWorkspace"}
        BY <2>5 DEF Fetch, Made, ConfInv
    <3>2. /\ from \in Places \ {"ofWorkspace"} /\ to \in Places \ {"ofWorkspace"} /\ from # to
          /\ "ofWorkspace" \in Places
        BY <3>1 DEF CentralizedFolder, ProjectFolder, Places, Local, Central
    <3> HIDE DEF from, to
    <3>3. /\ d \in [Places -> Folder]
          /\ \A g \in Places : d[g].dict = disk[g].dict
          /\ d["ofWorkspace"] = disk["ofWorkspace"]
      <4>1. from \in Places /\ "ofWorkspace" \in Places \ {from}
          BY <3>2
      <4> QED
          BY <4>1, <2>0, TouchKeeps, Zenon
    <3> HIDE DEF d
    <3> QED
        BY <3>1, <3>2, <3>3, CopyKeeps
  <2>6. ASSUME NEW remove \in BOOLEAN, MoveLocal(remove) PROVE ConfInv'
    <3> DEFINE from == ProjectFolder[config.folder]
               to == CentralizedFolder[config.folder]
               d == Touched(disk, to)
    <3>1. /\ UNCHANGED <<config, values, days, made>>
          /\ Copy(d, from, to, remove)
          /\ config.folder \in {"project", "ofWorkspace"}
        BY <2>6 DEF MoveLocal, Made, ConfInv
    <3>2. /\ from \in Places \ {"ofWorkspace"} /\ to \in Places \ {"ofWorkspace"} /\ from # to
          /\ "ofWorkspace" \in Places
        BY <3>1 DEF CentralizedFolder, ProjectFolder, Places, Local, Central
    <3> HIDE DEF from, to
    <3>3. /\ d \in [Places -> Folder]
          /\ \A g \in Places : d[g].dict = disk[g].dict
          /\ d["ofWorkspace"] = disk["ofWorkspace"]
      <4>1. to \in Places /\ "ofWorkspace" \in Places \ {to}
          BY <3>2
      <4> QED
          BY <4>1, <2>0, TouchKeeps, Zenon
    <3> HIDE DEF d
    <3> QED
        BY <3>1, <3>2, <3>3, CopyKeeps
  <2>7. CASE DayPasses
      BY <2>7 DEF DayPasses, ConfInv, NothingIsLost
  <2>8. CASE CleanLocals
    <3>1. UNCHANGED <<config, values, days, made>>
        BY <2>8 DEF CleanLocals
    <3>2. disk' \in [Places -> Folder] /\ \A g \in Places : disk'[g] \in {disk[g], Missing}
        BY <2>8, <2>0, FilesAre DEF CleanLocals
    <3>3. replaced' = replaced \cup UNION {ValuesIn(disk[g].dict) \ ValuesIn(disk'[g].dict) : g \in Places}
        BY <2>8 DEF CleanLocals
    <3>4. \A g \in Places : \A v \in ValuesIn(disk[g].dict) : v \in replaced' \/ IsKept(v)'
        BY <3>3 DEF IsKept
    <3>5. NothingIsLost'
        BY <3>1, <3>3, <3>4, NothingGoes
    <3>6. config.type = "centralized" /\ made = days => disk'["ofWorkspace"] = disk["ofWorkspace"]
      <4>1. "ofWorkspace" \in Places /\ "ofWorkspace" # "inCentral"
          BY DEF Places, Local, Central
      <4>2. config.type = "centralized" /\ made = days => "ofWorkspace" \notin Expired
          BY <2>0 DEF ConfInv, Expired, NoOrigin
      <4> QED
          BY <2>8, <4>1, <4>2 DEF CleanLocals
    <3> QED
        BY <3>1, <3>2, <3>5, <3>6 DEF ConfInv, Folder
  <2>9. CASE UNCHANGED confVars
      BY <2>9 DEF confVars, ConfInv, NothingIsLost
  <2> QED
      BY <2>1, <2>2, <2>3, <2>4, <2>5, <2>6, <2>7, <2>8, <2>9 DEF ConfNext
<1> QED
    BY <1>1, <1>2, PTL DEF ConfSpec

\* However a workspace's files are fetched, moved, cleaned and edited, no value goes that
\* was not written over and whose folder had not expired (pytoy_configuration).
THEOREM ValuesAreKept == ConfSpec => []NothingIsLost
<1>1. ConfInv => NothingIsLost
    BY DEF ConfInv
<1> QED
    BY <1>1, ConfInvariance, PTL

\* A configuration made today has its folder, whatever was cleaned since
\* (pytoy_configuration).
THEOREM FolderIsThere == ConfSpec => []FolderOfTheDay
<1>1. ConfInv => FolderOfTheDay
    BY DEF ConfInv, FolderOfTheDay
<1> QED
    BY <1>1, ConfInvariance, PTL

------------------------------------------------------------------------------
(* LLMTasks: what is stored while a collection writes, what the task has    *)
(* read of it, and that both stay apart unless overlap says so.             *)

Versions   == {NoFile, Torn} \cup Nat
CollectorSteps == {"rest", "next", "info", "convert", "body", "dataset"}
FileSets   == SUBSET Files
SomeFile   == Files \cup {NoFile}
DoneSets   == SUBSET Convertible
Collectors == [step : CollectorSteps, left : FileSets, file : SomeFile, now : Int, done : DoneSets]
Quotes     == [file : Files, info : Versions, body : Versions, apart : BOOLEAN]
QuoteSets  == SUBSET Quotes
Subjects   == Documents \cup {NoFile}
TaskKinds  == {"none", "edit", "review", "evolve", "reflect"}
TaskSteps  == {"none", "language", "exists", "usage", "data", "pick", "body", "compose",
               "prepare", "review", "voyage", "done", "failed"}
Languages  == {"none", "english", "japanese", "python"}
Modes      == {"none", "invalid", "editor_assist", "polishing"}
RuleSets   == {EditRules(l) : l \in Languages} \cup {ReviewRules(m) : m \in Modes}
                \cup {PreparationRules, EvolveRules, ReflectRules}
Tasks      == [kind : TaskKinds, step : TaskSteps, asked : Subjects, language : Languages, prepared : Modes,
               left : FileSets, file : SomeFile, info : Versions, quoted : QuoteSets]
SentMessages == [rules : RuleSets, about : Subjects, references : QuoteSets]

\* The files are written one after the other; those of a dataset were all written.
StoresAgree ==
    /\ source \in [Files -> Nat] /\ counts \in [edits : Nat, collections : Nat]
    /\ infos \in [Files -> Versions] /\ bodies \in [Files -> Versions]
    /\ dataset \in {NoSet, Half} \cup SUBSET Convertible
    /\ collector \in Collectors
    /\ collector.step \in {"info", "convert", "body"} => collector.file \in Convertible /\ collector.now \in Nat
    /\ collector.step \in {"convert", "body"} => collector.file \in torn /\ infos[collector.file] # NoFile
    /\ dataset = Half => collector.step = "dataset"
    /\ \A f \in Files :
          /\ infos[f] = Torn => collector.step = "info" /\ collector.file = f
          /\ bodies[f] = Torn => collector.step = "body" /\ collector.file = f
          /\ f \in torn \/ infos[f] = bodies[f] \/ (collector.step = "info" /\ collector.file = f)
          /\ f \in collector.done \cup dataset => infos[f] # NoFile /\ bodies[f] # NoFile

TaskAgrees ==
    /\ document \in Documents
    /\ task \in Tasks /\ messages \in Seq(SentMessages)
    /\ task.step = "prepare" => task.kind # "edit"
    /\ task.step = "language" => messages = <<>> /\ task.quoted = {}
    /\ task.step \in {"language", "prepare", "review", "voyage"} => task.asked \in Documents
    /\ task.step = "body" => task.file \in Files
    /\ task.language # "none" => task.asked \in Documents /\ task.language = LanguageOf(Enclosed(task.asked))
    /\ OneDocument

\* As long as nothing was collected meanwhile, the task reads what is there.
Agreeing(q) == q.info = q.body \/ q.apart
ReadingAgrees ==
    /\ overlap \in BOOLEAN
    /\ overlap \/ /\ Reading => collector.step = "rest"
                  /\ task.step \in {"usage", "data"} => Loads
                  /\ task.step \in {"pick", "body"} => Loads /\ task.left \subseteq dataset
                  /\ task.step = "body" => task.file \in dataset /\ task.info = infos[task.file]
                  /\ \A q \in task.quoted : Agreeing(q)
                  /\ \A k \in 1 .. Len(messages) : \A q \in messages[k].references : Agreeing(q)
                  /\ task.kind = "edit" /\ task.step = "failed" => task.left \cap Undecoded # {}

TaskInv == StoresAgree /\ TaskAgrees /\ ReadingAgrees

\* A step of the collector leaves the task alone, but tells whether it was reading.
LEMMA CollectingKeeps ==
    ASSUME TaskInv, StoresAgree', overlap' = (overlap \/ Reading), UNCHANGED <<document, task, messages>>
    PROVE  TaskInv'
<1>1. TaskAgrees'
    BY DEF TaskInv, TaskAgrees, OneDocument
<1>2. overlap' \in BOOLEAN /\ (~overlap' => ~overlap /\ ~Reading)
    BY DEF TaskInv, ReadingAgrees
<1>3. ~Reading => task.step \notin {"usage", "data", "pick", "body"} /\ ~Reading'
    BY DEF Reading
<1>4. ReadingAgrees'
    BY <1>2, <1>3 DEF TaskInv, ReadingAgrees
<1> QED
    BY <1>1, <1>4 DEF TaskInv

LEMMA CollectorParts ==
    /\ {"rest", "next", "info", "convert", "body", "dataset"} \subseteq CollectorSteps
    /\ {} \in FileSets /\ {} \in DoneSets /\ NoFile \in SomeFile /\ NoFile \in Int
    /\ \A f \in Files : f \in SomeFile
    /\ \A l \in FileSets : \A f \in Files : l \ {f} \in FileSets
    /\ \A d \in DoneSets : \A f \in Convertible : d \cup {f} \in DoneSets
    /\ Rest \in Collectors
<1>1. /\ {"rest", "next", "info", "convert", "body", "dataset"} \subseteq CollectorSteps
      /\ {} \in FileSets /\ {} \in DoneSets /\ NoFile \in SomeFile /\ NoFile \in Int
      /\ \A f \in Files : f \in SomeFile
      /\ \A l \in FileSets : \A f \in Files : l \ {f} \in FileSets
      /\ \A d \in DoneSets : \A f \in Convertible : d \cup {f} \in DoneSets
    BY DEF CollectorSteps, FileSets, DoneSets, SomeFile, NoFile
<1>2. Rest \in Collectors
    BY <1>1 DEF Rest, Collectors
<1> QED
    BY <1>1, <1>2

LEMMA CollectStep == ASSUME TaskInv, Collect PROVE TaskInv'
<1> USE DEF NoFile, Torn, Versions, NoSet, Half
<1>0. \A f \in Files : f # -1 /\ f # -2
    BY TaskAssumption
<1>1. CASE Gather
  <2>1. /\ collector.step = "rest" /\ UNCHANGED <<source, infos, bodies, dataset, torn, document, task, messages>>
        /\ overlap' = (overlap \/ Reading)
        /\ counts' = [counts EXCEPT !.collections = @ + 1]
        /\ collector' = [Rest EXCEPT !.step = "next", !.left = {f \in Files : source[f] > 0}]
      BY <1>1 DEF Gather, Collecting, asking
  <2>2. collector' \in Collectors /\ collector'.step = "next" /\ collector'.done = {}
    <3> DEFINE left == {f \in Files : source[f] > 0}
    <3>1. left \in FileSets /\ "next" \in CollectorSteps /\ Rest \in Collectors
        BY CollectorParts DEF FileSets
    <3>2. collector' = [Rest EXCEPT !.step = "next", !.left = left]
        BY <2>1
    <3> HIDE DEF left
    <3> QED
      <4>1. collector' \in Collectors /\ collector'.step = "next" /\ collector'.done = Rest.done
          BY <3>1, <3>2 DEF Collectors
      <4> QED
          BY <4>1 DEF Rest
  <2>3. StoresAgree'
      BY <2>1, <2>2 DEF TaskInv, StoresAgree
  <2> QED
      BY <2>1, <2>3, CollectingKeeps
<1>2. CASE NextFile
  <2>1. collector.step = "next" /\ UNCHANGED <<bodies, dataset, counts, torn>>
      BY <1>2 DEF NextFile
  <2>2. PICK f \in collector.left :
          IF f \notin Convertible
          THEN Collecting([collector EXCEPT !.left = @ \ {f}]) /\ UNCHANGED infos
          ELSE IF source[f] = 0
          THEN Collecting(Rest) /\ UNCHANGED infos
          ELSE /\ infos' = [infos EXCEPT ![f] = Torn]
               /\ Collecting([collector EXCEPT !.step = "info", !.left = @ \ {f}, !.file = f, !.now = source[f]])
      BY <1>2 DEF NextFile
  <2>3. UNCHANGED <<source, document, task, messages>> /\ overlap' = (overlap \/ Reading)
      BY <2>2 DEF Collecting, asking
  <2>4. f \in Files
      BY <2>2 DEF TaskInv, StoresAgree, Collectors, FileSets
  <2>5. StoresAgree'
    <3>1. CASE f \notin Convertible
      <4>1. collector' = [collector EXCEPT !.left = @ \ {f}] /\ infos' = infos
          BY <2>2, <3>1 DEF Collecting
      <4>2. collector' \in Collectors /\ collector'.step = "next" /\ collector'.done = collector.done
        <5>1. collector \in Collectors
            BY DEF TaskInv, StoresAgree
        <5>2. collector.left \ {f} \in FileSets
            BY <5>1, <2>4, CollectorParts DEF Collectors
        <5> QED
            BY <4>1, <5>1, <5>2, <2>1 DEF Collectors
      <4> QED
          BY <4>1, <4>2, <2>1, <2>3 DEF TaskInv, StoresAgree
    <3>2. CASE f \in Convertible /\ source[f] = 0
      <4>1. collector' = Rest /\ infos' = infos
          BY <2>2, <3>2 DEF Collecting
      <4>2. collector' \in Collectors /\ collector'.step = "rest" /\ collector'.done = {}
          BY <4>1, CollectorParts DEF Rest
      <4> QED
          BY <4>1, <4>2, <2>1, <2>3 DEF TaskInv, StoresAgree
    <3>3. CASE f \in Convertible /\ source[f] # 0
      <4>1. /\ infos' = [infos EXCEPT ![f] = Torn]
            /\ collector' = [collector EXCEPT !.step = "info", !.left = @ \ {f}, !.file = f, !.now = source[f]]
          BY <2>2, <3>3 DEF Collecting
      <4>2. /\ collector' \in Collectors /\ collector'.step = "info" /\ collector'.done = collector.done
            /\ collector'.file = f /\ collector'.now \in Nat
        <5>1. collector \in Collectors /\ source[f] \in Nat
            BY <2>4 DEF TaskInv, StoresAgree
        <5>2. collector.left \ {f} \in FileSets /\ f \in SomeFile /\ source[f] \in Int /\ "info" \in CollectorSteps
            BY <5>1, <2>4, CollectorParts DEF Collectors
        <5>3. /\ collector' \in Collectors /\ collector'.step = "info" /\ collector'.done = collector.done
              /\ collector'.file = f /\ collector'.now = source[f]
            BY <4>1, <5>1, <5>2 DEF Collectors
        <5> QED
            BY <5>1, <5>3
      <4>3. /\ infos' \in [Files -> Versions] /\ infos'[f] = Torn
            /\ \A g \in Files \ {f} : infos'[g] = infos[g]
          BY <4>1, <2>4 DEF TaskInv, StoresAgree
      <4> QED
          BY <3>3, <4>2, <4>3, <2>1, <2>3 DEF TaskInv, StoresAgree
    <3> QED
        BY <3>1, <3>2, <3>3
  <2> QED
      BY <2>3, <2>5, CollectingKeeps
<1>3. CASE WriteInfo
  <2> DEFINE f == collector.file
  <2>1. /\ collector.step = "info" /\ UNCHANGED <<source, bodies, dataset, counts, document, task, messages>>
        /\ overlap' = (overlap \/ Reading)
        /\ infos' = [infos EXCEPT ![f] = collector.now]
        /\ torn' = torn \cup {f}
        /\ collector' = [collector EXCEPT !.step = "convert"]
      BY <1>3 DEF WriteInfo, Collecting, asking
  <2>2. f \in Convertible /\ f \in Files /\ collector.now \in Nat
      BY <2>1, TaskAssumption DEF TaskInv, StoresAgree
  <2>3. /\ collector' \in Collectors /\ collector'.step = "convert" /\ collector'.done = collector.done
        /\ collector'.file = f /\ collector'.now = collector.now
    <3>1. collector \in Collectors /\ "convert" \in CollectorSteps
        BY CollectorParts DEF TaskInv, StoresAgree
    <3> QED
        BY <2>1, <3>1 DEF Collectors
  <2>4. /\ infos' \in [Files -> Versions] /\ infos'[f] = collector.now
        /\ \A g \in Files \ {f} : infos'[g] = infos[g]
      BY <2>1, <2>2 DEF TaskInv, StoresAgree
  <2>5. StoresAgree'
      BY <2>1, <2>2, <2>3, <2>4 DEF TaskInv, StoresAgree
  <2> QED
      BY <2>1, <2>5, CollectingKeeps
<1>4. CASE Convert
  <2> DEFINE f == collector.file
  <2>1. /\ collector.step = "convert" /\ UNCHANGED <<source, infos, dataset, counts, torn, document, task, messages>>
        /\ overlap' = (overlap \/ Reading)
        /\ \/ /\ source[f] > 0
              /\ bodies' = [bodies EXCEPT ![f] = Torn]
              /\ collector' = [collector EXCEPT !.step = "body", !.now = source[f]]
           \/ collector' = Rest /\ UNCHANGED bodies
      BY <1>4 DEF Convert, Collecting, asking
  <2>2. f \in Convertible /\ f \in Files /\ f \in torn /\ infos[f] # NoFile
      BY <2>1, TaskAssumption DEF TaskInv, StoresAgree
  <2>3. CASE collector' = Rest /\ UNCHANGED bodies
    <3>1. collector' \in Collectors /\ collector'.step = "rest" /\ collector'.done = {}
        BY <2>3, CollectorParts DEF Rest
    <3>2. StoresAgree'
        BY <3>1, <2>1, <2>3 DEF TaskInv, StoresAgree
    <3> QED
        BY <2>1, <3>2, CollectingKeeps
  <2>4. CASE /\ source[f] > 0
             /\ bodies' = [bodies EXCEPT ![f] = Torn]
             /\ collector' = [collector EXCEPT !.step = "body", !.now = source[f]]
    <3>1. /\ collector' \in Collectors /\ collector'.step = "body" /\ collector'.done = collector.done
          /\ collector'.file = f /\ collector'.now \in Nat
      <4>1. collector \in Collectors /\ source[f] \in Nat /\ source[f] \in Int /\ "body" \in CollectorSteps
          BY <2>2, CollectorParts DEF TaskInv, StoresAgree
      <4>2. /\ collector' \in Collectors /\ collector'.step = "body" /\ collector'.done = collector.done
            /\ collector'.file = f /\ collector'.now = source[f]
          BY <4>1, <2>4 DEF Collectors
      <4> QED
          BY <4>1, <4>2
    <3>2. /\ bodies' \in [Files -> Versions] /\ bodies'[f] = Torn
          /\ \A g \in Files \ {f} : bodies'[g] = bodies[g]
        BY <2>2, <2>4 DEF TaskInv, StoresAgree
    <3>3. StoresAgree'
        BY <2>1, <2>2, <3>1, <3>2 DEF TaskInv, StoresAgree
    <3> QED
        BY <2>1, <3>3, CollectingKeeps
  <2> QED
      BY <2>1, <2>3, <2>4
<1>5. CASE WriteBody
  <2> DEFINE f == collector.file
  <2>1. /\ collector.step = "body" /\ UNCHANGED <<source, infos, dataset, counts, document, task, messages>>
        /\ overlap' = (overlap \/ Reading)
        /\ bodies' = [bodies EXCEPT ![f] = collector.now]
        /\ torn' = IF infos[f] = collector.now THEN torn \ {f} ELSE torn
        /\ collector' = [collector EXCEPT !.step = "next", !.done = @ \cup {f}, !.file = NoFile, !.now = NoFile]
      BY <1>5 DEF WriteBody, Collecting, asking
  <2>2. f \in Convertible /\ f \in Files /\ f \in torn /\ infos[f] # NoFile /\ collector.now \in Nat
      BY <2>1, TaskAssumption DEF TaskInv, StoresAgree
  <2>3. collector' \in Collectors /\ collector'.step = "next" /\ collector'.done = collector.done \cup {f}
    <3>1. /\ collector \in Collectors /\ "next" \in CollectorSteps
          /\ NoFile \in SomeFile /\ NoFile \in Int
        BY CollectorParts DEF TaskInv, StoresAgree
    <3> DEFINE through == collector.done \cup {f}
    <3>2. collector' = [collector EXCEPT !.step = "next", !.done = through, !.file = NoFile, !.now = NoFile]
        BY <2>1
    <3>3. through \in DoneSets
        BY <2>2, <3>1, CollectorParts DEF Collectors
    <3> HIDE DEF through
    <3>4. collector' \in Collectors /\ collector'.step = "next" /\ collector'.done = through
        BY <3>1, <3>2, <3>3 DEF Collectors
    <3> QED
        BY <3>4 DEF through
  <2>4. /\ bodies' \in [Files -> Versions] /\ bodies'[f] = collector.now
        /\ \A g \in Files \ {f} : bodies'[g] = bodies[g]
      BY <2>1, <2>2 DEF TaskInv, StoresAgree
  <2>5. StoresAgree'
      BY <2>1, <2>2, <2>3, <2>4 DEF TaskInv, StoresAgree
  <2> QED
      BY <2>1, <2>5, CollectingKeeps
<1>6. CASE DumpDataset
  <2>1. /\ UNCHANGED <<source, infos, bodies, counts, torn, document, task, messages>>
        /\ overlap' = (overlap \/ Reading)
        /\ \/ /\ collector.step = "next" /\ dataset' = Half
              /\ collector' = [collector EXCEPT !.step = "dataset"]
           \/ /\ collector.step = "dataset" /\ dataset' = collector.done
              /\ collector' = Rest
      BY <1>6 DEF DumpDataset, Collecting, asking
  <2>2. CASE /\ collector.step = "next" /\ dataset' = Half
             /\ collector' = [collector EXCEPT !.step = "dataset"]
    <3>1. collector' \in Collectors /\ collector'.step = "dataset" /\ collector'.done = collector.done
      <4>1. collector \in Collectors /\ "dataset" \in CollectorSteps
          BY CollectorParts DEF TaskInv, StoresAgree
      <4> QED
          BY <4>1, <2>2 DEF Collectors
    <3>2. StoresAgree'
        BY <1>0, <2>1, <2>2, <3>1 DEF TaskInv, StoresAgree
    <3> QED
        BY <2>1, <3>2, CollectingKeeps
  <2>3. CASE collector.step = "dataset" /\ dataset' = collector.done /\ collector' = Rest
    <3>1. collector' \in Collectors /\ collector'.step = "rest" /\ collector'.done = {}
        BY <2>3, CollectorParts DEF Rest
    <3>2. collector.done \in SUBSET Convertible
        BY DEF TaskInv, StoresAgree, Collectors, DoneSets
    <3>3. -2 \notin Convertible
        BY <1>0, TaskAssumption
    <3>4. dataset' # Half
        BY <2>3, <3>2, <3>3
    <3>5. StoresAgree'
        BY <2>1, <2>3, <3>1, <3>2, <3>4 DEF TaskInv, StoresAgree
    <3> QED
        BY <2>1, <3>5, CollectingKeeps
  <2> QED
      BY <2>1, <2>2, <2>3
<1> QED
    BY <1>1, <1>2, <1>3, <1>4, <1>5, <1>6 DEF Collect

\* Whatever the task does it writes no file.
LEMMA StoresStay ==
    ASSUME TaskInv, UNCHANGED <<source, infos, bodies, dataset, collector, torn, counts>>
    PROVE  StoresAgree'
    BY DEF TaskInv, StoresAgree

LEMMA TaskParts ==
    /\ NoFile \in Versions /\ NoFile \in SomeFile /\ NoFile \in Subjects
    /\ {} \in FileSets /\ {} \in QuoteSets
    /\ \A d \in Documents : d \in Subjects
    /\ \A f \in Files : f \in SomeFile
    /\ \A l \in FileSets : \A f \in l : f \in Files /\ l \ {f} \in FileSets
    /\ TaskSteps = {"none", "language", "exists", "usage", "data", "pick", "body", "compose",
                    "prepare", "review", "voyage", "done", "failed"}
    /\ NoTask \in Tasks
<1>1. /\ NoFile \in Versions /\ NoFile \in SomeFile /\ NoFile \in Subjects
      /\ {} \in FileSets /\ {} \in QuoteSets
      /\ \A d \in Documents : d \in Subjects
      /\ \A f \in Files : f \in SomeFile
      /\ \A l \in FileSets : \A f \in l : f \in Files /\ l \ {f} \in FileSets
      /\ "none" \in TaskKinds /\ "none" \in TaskSteps /\ "none" \in Languages /\ "none" \in Modes
    BY DEF Versions, SomeFile, Subjects, FileSets, QuoteSets, TaskKinds, TaskSteps, Languages, Modes
<1>2. NoTask \in Tasks
    BY <1>1 DEF NoTask, Tasks
<1> QED
    BY <1>1, <1>2 DEF TaskSteps

LEMMA EnclosedSpeaks ==
    ASSUME NEW d \in Documents
    PROVE  /\ LanguageOf(Enclosed(d)) \in Languages
           /\ \/ LanguageOf(Enclosed(d)) = LanguageOf(d)
              \/ LanguageOf(d) = "japanese" /\ 100 * (d.japanese - 8) <= 15 * d.chars
              \/ d.hits = 1 /\ d.colon = 1
<1>1. /\ d \in [chars : Nat, japanese : Nat, hits : Nat, colon : {0, 1}]
      /\ d.chars = 0 => d.japanese = 0 /\ d.hits = 0 /\ d.colon = 0
    BY TaskAssumption
<1>2. /\ Enclosed(d).chars = d.chars + 50 /\ Enclosed(d).japanese = d.japanese
      /\ Enclosed(d).hits = d.hits + d.colon
    BY <1>1 DEF Enclosed, MarkersLength
<1>3. /\ d.chars \in Nat /\ d.japanese \in Nat /\ d.hits \in Nat /\ d.colon \in {0, 1}
    BY <1>1
<1>4. LanguageOf(Enclosed(d)) = IF d.hits + d.colon >= 2 THEN "python"
                                ELSE IF 100 * d.japanese > 15 * (d.chars + 50) THEN "japanese" ELSE "english"
    BY <1>2, <1>3 DEF LanguageOf
<1> QED
    BY <1>1, <1>3, <1>4 DEF LanguageOf, Languages

LEMMA Sent ==
    ASSUME NEW s \in Seq(SentMessages), NEW m \in SentMessages
    PROVE  /\ Append(s, m) \in Seq(SentMessages)
           /\ \A k \in 1 .. Len(Append(s, m)) : Append(s, m)[k] = m \/ (k \in 1 .. Len(s) /\ Append(s, m)[k] = s[k])
    OBVIOUS

LEMMA RulesAreRules ==
    /\ \A l \in Languages : EditRules(l) \in RuleSets
    /\ \A m \in Modes : ReviewRules(m) \in RuleSets
    /\ PreparationRules \in RuleSets /\ EvolveRules \in RuleSets /\ ReflectRules \in RuleSets
    BY DEF RuleSets

\* The task after a step that keeps what it was asked.
Continues(t) ==
    /\ task' = t /\ t \in Tasks
    /\ t.kind = task.kind /\ t.asked = task.asked /\ t.language = task.language
    /\ t.step \notin {"language", "prepare", "voyage"}
    /\ t.step = "review" => task.asked \in Documents
    /\ t.step = "body" => t.file \in Files

ReadsOn(t) ==
    overlap \/ /\ t.step \in {"exists", "usage", "data", "pick", "body"} => Reading
               /\ t.step \in {"usage", "data"} => Loads
               /\ t.step \in {"pick", "body"} => Loads /\ t.left \subseteq dataset
               /\ t.step = "body" => t.file \in dataset /\ t.info = infos[t.file]
               /\ \A q \in t.quoted : Agreeing(q)
               /\ t.kind = "edit" /\ t.step = "failed" => t.left \cap Undecoded # {}

LEMMA TaskContinues ==
    ASSUME TaskInv, NEW t, Continues(t), ReadsOn(t),
           UNCHANGED <<source, infos, bodies, dataset, collector, torn, document, counts, overlap>>,
           \/ UNCHANGED messages
           \/ \E m \in SentMessages : /\ messages' = Append(messages, m) /\ m.about = task.asked
                                      /\ overlap \/ \A q \in m.references : Agreeing(q)
    PROVE  TaskInv'
<1>1. StoresAgree'
    BY StoresStay
<1>2. /\ messages' \in Seq(SentMessages)
      /\ \A k \in 1 .. Len(messages') :
            /\ messages'[k].about = task.asked
            /\ overlap \/ \A q \in messages'[k].references : Agreeing(q)
  <2>1. CASE UNCHANGED messages
      BY <2>1 DEF TaskInv, TaskAgrees, ReadingAgrees, OneDocument
  <2>2. ASSUME NEW m \in SentMessages, messages' = Append(messages, m), m.about = task.asked,
               overlap \/ \A q \in m.references : Agreeing(q)
        PROVE  <1>2
    <3>1. /\ messages \in Seq(SentMessages)
          /\ \A k \in 1 .. Len(messages) : messages[k].about = task.asked
          /\ overlap \/ \A k \in 1 .. Len(messages) : \A q \in messages[k].references : Agreeing(q)
        BY DEF TaskInv, TaskAgrees, ReadingAgrees, OneDocument
    <3> QED
        BY <2>2, <3>1, Sent
  <2> QED
      BY <2>1, <2>2
<1>3. TaskAgrees'
    BY <1>2 DEF TaskInv, TaskAgrees, Continues, OneDocument
<1>4. ReadingAgrees'
  <2>1. CASE overlap
      BY <2>1 DEF TaskInv, ReadingAgrees
  <2>2. CASE ~overlap
    <3>1. Reading' => collector.step = "rest"
        BY <2>2 DEF TaskInv, ReadingAgrees, ReadsOn, Continues, Reading
    <3>2. Loads' = Loads
        BY DEF Loads
    <3>3. /\ task'.step \in {"usage", "data"} => Loads'
          /\ task'.step \in {"pick", "body"} => Loads' /\ task'.left \subseteq dataset'
          /\ task'.step = "body" => task'.file \in dataset' /\ task'.info = infos'[task'.file]
          /\ \A q \in task'.quoted : Agreeing(q)
          /\ task'.kind = "edit" /\ task'.step = "failed" => task'.left \cap Undecoded # {}
        BY <2>2, <3>2 DEF ReadsOn, Continues
    <3> QED
        BY <1>2, <2>2, <3>1, <3>3 DEF TaskInv, ReadingAgrees
  <2> QED
      BY <2>1, <2>2
<1> QED
    BY <1>1, <1>3, <1>4 DEF TaskInv

\* The model answers the question for the language of the text.
LEMMA SelectLanguageKeeps == ASSUME TaskInv, SelectLanguage PROVE TaskInv'
<1> DEFINE l == LanguageOf(Enclosed(task.asked))
<1>1. /\ task.step = "language"
      /\ task' = [task EXCEPT !.language = l, !.step = "exists"]
      /\ overlap' = (collector.step # "rest")
      /\ UNCHANGED <<source, infos, bodies, dataset, collector, torn, document, counts, messages>>
    BY DEF SelectLanguage, Going, stores
<1>2. task \in Tasks /\ task.asked \in Documents /\ messages = <<>> /\ task.quoted = {}
    BY <1>1 DEF TaskInv, TaskAgrees
<1>3. l \in Languages /\ "exists" \in TaskSteps
    BY <1>2, EnclosedSpeaks, TaskParts
<1> HIDE DEF l
<1>4. /\ task' \in Tasks /\ task'.step = "exists" /\ task'.language = l /\ task'.asked = task.asked
      /\ task'.kind = task.kind /\ task'.quoted = task.quoted
    BY <1>1, <1>2, <1>3 DEF Tasks
<1>5. StoresAgree'
    BY <1>1, StoresStay
<1>6. TaskAgrees'
    BY <1>1, <1>2, <1>4 DEF l, TaskInv, TaskAgrees, OneDocument
<1>7. ReadingAgrees'
  <2>1. overlap' \in BOOLEAN /\ (~overlap' => collector'.step = "rest")
      BY <1>1
  <2>2. Len(messages') = 0
      BY <1>1, <1>2
  <2> QED
      BY <1>1, <1>2, <1>4, <2>1, <2>2 DEF ReadingAgrees
<1> QED
    BY <1>5, <1>6, <1>7 DEF TaskInv

\* No references are read of a dataset that there is not.
LEMMA ExistsKeeps == ASSUME TaskInv, Exists PROVE TaskInv'
<1> DEFINE t == [task EXCEPT !.step = IF Loads THEN "usage" ELSE "compose"]
<1>1. /\ task.step = "exists" /\ task' = t
      /\ UNCHANGED <<source, infos, bodies, dataset, collector, torn, document, counts, messages, overlap>>
    BY DEF Exists, Going, stores
<1>2. task \in Tasks /\ "usage" \in TaskSteps /\ "compose" \in TaskSteps
    BY TaskParts DEF TaskInv, TaskAgrees
<1>3. /\ t \in Tasks /\ t.step = (IF Loads THEN "usage" ELSE "compose") /\ t.kind = task.kind
      /\ t.asked = task.asked /\ t.language = task.language /\ t.quoted = task.quoted
    BY <1>2 DEF Tasks
<1> HIDE DEF t
<1>4. Continues(t)
    BY <1>1, <1>3 DEF Continues
<1>5. ReadsOn(t)
    BY <1>1, <1>3 DEF ReadsOn, TaskInv, ReadingAgrees, Reading
<1> QED
    BY <1>1, <1>4, <1>5, TaskContinues

\* A reading that fails was disturbed by a collection.
LEMMA FailsKeeps ==
    ASSUME TaskInv, Fails, overlap \/ (Reading /\ task.left \cap Undecoded # {})
    PROVE  TaskInv'
<1> DEFINE t == [task EXCEPT !.step = "failed"]
<1>1. /\ task' = t
      /\ UNCHANGED <<source, infos, bodies, dataset, collector, torn, document, counts, messages, overlap>>
    BY DEF Fails, Going, stores
<1>2. task \in Tasks /\ "failed" \in TaskSteps
    BY TaskParts DEF TaskInv, TaskAgrees
<1>3. /\ t \in Tasks /\ t.step = "failed" /\ t.kind = task.kind
      /\ t.asked = task.asked /\ t.language = task.language
      /\ t.left = task.left /\ t.quoted = task.quoted
    BY <1>2 DEF Tasks
<1> HIDE DEF t
<1>4. Continues(t)
    BY <1>1, <1>3 DEF Continues
<1>5. ReadsOn(t)
    BY <1>3 DEF ReadsOn, TaskInv, ReadingAgrees, Reading
<1> QED
    BY <1>1, <1>4, <1>5, TaskContinues

LEMMA LoadKeeps == ASSUME TaskInv, Load PROVE TaskInv'
<1>1. task.step \in {"usage", "data"}
    BY DEF Load
<1>2. CASE ~Loads
  <2>1. Fails /\ overlap
      BY <1>1, <1>2 DEF Load, TaskInv, ReadingAgrees
  <2> QED
      BY <2>1, FailsKeeps
<1>3. CASE Loads
  <2> DEFINE t == IF task.step = "usage" THEN [task EXCEPT !.step = "data"]
                  ELSE [task EXCEPT !.step = "pick", !.left = dataset]
  <2>1. /\ task' = t
        /\ UNCHANGED <<source, infos, bodies, dataset, collector, torn, document, counts, messages, overlap>>
      BY <1>3 DEF Load, Going, stores
  <2>2. /\ task \in Tasks /\ "data" \in TaskSteps /\ "pick" \in TaskSteps
        /\ dataset \in FileSets
      BY <1>3, TaskParts, TaskAssumption DEF TaskInv, TaskAgrees, StoresAgree, Loads, FileSets
  <2>3. /\ t \in Tasks /\ t.step = (IF task.step = "usage" THEN "data" ELSE "pick") /\ t.kind = task.kind
        /\ t.asked = task.asked /\ t.language = task.language /\ t.quoted = task.quoted
        /\ t.step = "pick" => t.left = dataset
    <3>1. CASE task.step = "usage"
        BY <2>2, <3>1 DEF Tasks
    <3>2. CASE task.step # "usage"
        BY <2>2, <3>2 DEF Tasks
    <3> QED
        BY <3>1, <3>2
  <2> HIDE DEF t
  <2>4. Continues(t)
      BY <2>1, <2>3 DEF Continues
  <2>5. ReadsOn(t)
      BY <1>1, <1>3, <2>3 DEF ReadsOn, TaskInv, ReadingAgrees, Reading
  <2> QED
      BY <2>1, <2>4, <2>5, TaskContinues
<1> QED
    BY <1>2, <1>3

LEMMA PickPairKeeps == ASSUME TaskInv, PickPair PROVE TaskInv'
<1>1. task.step = "pick" /\ task \in Tasks
    BY DEF PickPair, TaskInv, TaskAgrees
<1>2. CASE Going([task EXCEPT !.step = "compose", !.left = {}]) /\ UNCHANGED <<messages, overlap>>
  <2> DEFINE t == [task EXCEPT !.step = "compose", !.left = {}]
  <2>1. /\ task' = t
        /\ UNCHANGED <<source, infos, bodies, dataset, collector, torn, document, counts, messages, overlap>>
      BY <1>2 DEF Going, stores
  <2>2. "compose" \in TaskSteps /\ {} \in FileSets
      BY TaskParts
  <2>3. /\ t \in Tasks /\ t.step = "compose" /\ t.kind = task.kind
        /\ t.asked = task.asked /\ t.language = task.language /\ t.quoted = task.quoted
      BY <1>1, <2>2 DEF Tasks
  <2> HIDE DEF t
  <2>4. Continues(t)
      BY <2>1, <2>3 DEF Continues
  <2>5. ReadsOn(t)
      BY <2>3 DEF ReadsOn, TaskInv, ReadingAgrees
  <2> QED
      BY <2>1, <2>4, <2>5, TaskContinues
<1>3. ASSUME NEW f \in task.left,
             IF infos[f] < 0 \/ f \in Undecoded THEN Fails
             ELSE /\ Going([task EXCEPT !.step = "body", !.file = f, !.info = infos[f], !.left = @ \ {f}])
                  /\ UNCHANGED <<messages, overlap>>
      PROVE  TaskInv'
  <2>0. f \in Files /\ task.left \ {f} \in FileSets /\ infos[f] \in Versions
      BY <1>1, TaskParts DEF Tasks, TaskInv, StoresAgree
  <2>3. CASE f \in Undecoded
      BY <1>1, <1>3, <2>3, FailsKeeps DEF Reading
  <2>1. CASE infos[f] < 0
    <3>1. overlap \/ (collector.step = "rest" /\ f \in dataset)
        BY <1>1 DEF TaskInv, ReadingAgrees, Reading
    <3>2. infos[f] = NoFile \/ infos[f] = Torn
        BY <2>0, <2>1 DEF Versions, NoFile, Torn
    <3>3. overlap
        BY <2>0, <3>1, <3>2 DEF TaskInv, StoresAgree
    <3> QED
        BY <1>3, <2>1, <3>3, FailsKeeps
  <2>2. CASE ~(infos[f] < 0 \/ f \in Undecoded)
    <3> DEFINE t == [task EXCEPT !.step = "body", !.file = f, !.info = infos[f], !.left = @ \ {f}]
    <3>1. /\ task' = t
          /\ UNCHANGED <<source, infos, bodies, dataset, collector, torn, document, counts, messages, overlap>>
        BY <1>3, <2>2 DEF Going, stores
    <3>2. "body" \in TaskSteps /\ f \in SomeFile
        BY <2>0, TaskParts
    <3>3. /\ t \in Tasks /\ t.step = "body" /\ t.kind = task.kind /\ t.file = f /\ t.info = infos[f]
          /\ t.asked = task.asked /\ t.language = task.language /\ t.quoted = task.quoted
          /\ t.left = task.left \ {f}
        BY <1>1, <2>0, <3>2 DEF Tasks
    <3> HIDE DEF t
    <3>4. Continues(t)
        BY <3>1, <3>3, <2>0 DEF Continues
    <3>5. ReadsOn(t)
        BY <1>1, <3>3 DEF ReadsOn, TaskInv, ReadingAgrees, Reading
    <3> QED
        BY <3>1, <3>4, <3>5, TaskContinues
  <2> QED
      BY <2>1, <2>2, <2>3
<1> QED
    BY <1>2, <1>3 DEF PickPair

LEMMA ReadBodyKeeps == ASSUME TaskInv, ReadBody PROVE TaskInv'
<1> DEFINE f == task.file
<1>1. task.step = "body" /\ task \in Tasks /\ f \in Files /\ bodies[f] \in Versions
    BY DEF ReadBody, TaskInv, TaskAgrees, StoresAgree
<1>2. overlap \/ (collector.step = "rest" /\ f \in dataset /\ task.info = infos[f])
    BY <1>1 DEF TaskInv, ReadingAgrees, Reading
<1>3. CASE bodies[f] = NoFile
  <2>1. overlap
      BY <1>1, <1>2, <1>3 DEF TaskInv, StoresAgree
  <2> QED
      BY <1>3, <2>1, FailsKeeps DEF ReadBody
<1>4. CASE bodies[f] # NoFile
  <2> DEFINE q == [file |-> f, info |-> task.info, body |-> bodies[f], apart |-> f \in torn]
             quoted == task.quoted \cup {q}
             t == [task EXCEPT !.step = "pick", !.file = NoFile, !.info = NoFile, !.quoted = quoted]
  <2>1. /\ task' = t
        /\ UNCHANGED <<source, infos, bodies, dataset, collector, torn, document, counts, messages, overlap>>
      BY <1>4 DEF ReadBody, Going, stores
  <2>2. q \in Quotes
    <3>1. task.info \in Versions /\ (f \in torn) \in BOOLEAN
        BY <1>1 DEF Tasks
    <3> QED
        BY <1>1, <3>1 DEF Quotes
  <2>3. overlap \/ Agreeing(q)
      BY <1>1, <1>2 DEF TaskInv, StoresAgree, Agreeing
  <2> HIDE DEF q
  <2>4. quoted \in QuoteSets
      BY <1>1, <2>2 DEF Tasks, QuoteSets
  <2>5. overlap \/ \A r \in quoted : Agreeing(r)
      BY <2>3 DEF TaskInv, ReadingAgrees
  <2> HIDE DEF quoted
  <2>6. "pick" \in TaskSteps /\ NoFile \in SomeFile /\ NoFile \in Versions
      BY TaskParts
  <2>7. /\ t \in Tasks /\ t.step = "pick" /\ t.kind = task.kind
        /\ t.asked = task.asked /\ t.language = task.language /\ t.quoted = quoted
        /\ t.left = task.left
      BY <1>1, <2>4, <2>6 DEF Tasks
  <2> HIDE DEF t
  <2>8. Continues(t)
      BY <2>1, <2>7 DEF Continues
  <2>9. ReadsOn(t)
      BY <1>1, <2>5, <2>7 DEF ReadsOn, TaskInv, ReadingAgrees, Reading
  <2> QED
      BY <2>1, <2>8, <2>9, TaskContinues
<1> QED
    BY <1>3, <1>4

\* A message is about the document the task was asked about.
LEMMA SendKeeps ==
    ASSUME TaskInv, NEW rules \in RuleSets, NEW references \in QuoteSets, NEW t, Continues(t),
           t.step \in {"done", "review"} \/ (t.step = "failed" /\ t.kind # "edit"), t.quoted = task.quoted,
           overlap \/ \A q \in references : Agreeing(q),
           Send(Message(rules, task.asked, references)),
           UNCHANGED <<source, infos, bodies, dataset, collector, torn, document, counts, overlap>>
    PROVE  TaskInv'
<1> DEFINE m == Message(rules, task.asked, references)
<1>1. task.asked \in Subjects
    BY DEF TaskInv, TaskAgrees, Tasks
<1>2. m \in SentMessages /\ m.about = task.asked /\ m.references = references
    BY <1>1 DEF Message, SentMessages
<1>3. messages' = Append(messages, m)
    BY DEF Send
<1> HIDE DEF m
<1>4. ReadsOn(t)
    BY DEF ReadsOn, TaskInv, ReadingAgrees
<1> QED
    BY <1>2, <1>3, <1>4, TaskContinues

LEMMA FinishKeeps ==
    ASSUME TaskInv, NEW rules \in RuleSets, NEW references \in QuoteSets,
           overlap \/ \A q \in references : Agreeing(q),
           Send(Message(rules, task.asked, references)),
           Going([task EXCEPT !.step = "done"]), UNCHANGED overlap
    PROVE  TaskInv'
<1> DEFINE t == [task EXCEPT !.step = "done"]
<1>1. task' = t /\ UNCHANGED <<source, infos, bodies, dataset, collector, torn, document, counts, overlap>>
    BY DEF Going, stores
<1>2. task \in Tasks /\ "done" \in TaskSteps
    BY TaskParts DEF TaskInv, TaskAgrees
<1>3. /\ t \in Tasks /\ t.step = "done" /\ t.kind = task.kind /\ t.quoted = task.quoted
      /\ t.asked = task.asked /\ t.language = task.language
    BY <1>2 DEF Tasks
<1> HIDE DEF t
<1>4. Continues(t)
    BY <1>1, <1>3 DEF Continues
<1> QED
    BY <1>1, <1>3, <1>4, SendKeeps

LEMMA TellsKeeps == ASSUME TaskInv, Compose \/ Review \/ Voyage PROVE TaskInv'
<1>1. task \in Tasks /\ task.language \in Languages /\ task.prepared \in Modes /\ task.quoted \in QuoteSets
    BY DEF TaskInv, TaskAgrees, Tasks
<1>2. {} \in QuoteSets
    BY TaskParts
<1>3. CASE Compose
  <2>1. overlap \/ \A q \in task.quoted : Agreeing(q)
      BY DEF TaskInv, ReadingAgrees
  <2> QED
      BY <1>1, <1>3, <2>1, RulesAreRules, FinishKeeps DEF Compose
<1>4. CASE Review
    BY <1>1, <1>2, <1>4, RulesAreRules, FinishKeeps DEF Review
<1>5. CASE Voyage
  <2>1. (IF task.kind = "evolve" THEN EvolveRules ELSE ReflectRules) \in RuleSets
      BY RulesAreRules
  <2> QED
      BY <1>2, <1>5, <2>1, FinishKeeps DEF Voyage
<1> QED
    BY <1>3, <1>4, <1>5

LEMMA PrepareKeeps == ASSUME TaskInv, Prepare PROVE TaskInv'
<1>1. PICK mode \in {"editor_assist", "polishing", "invalid"} :
          Going([task EXCEPT !.prepared = mode, !.step = IF mode = "invalid" THEN "failed" ELSE "review"])
    BY DEF Prepare
<1> DEFINE step == IF mode = "invalid" THEN "failed" ELSE "review"
           t == [task EXCEPT !.prepared = mode, !.step = step]
<1>2. /\ task' = t /\ UNCHANGED <<source, infos, bodies, dataset, collector, torn, document, counts, overlap>>
      /\ task.step = "prepare" /\ Send(Message(PreparationRules, task.asked, {}))
    BY <1>1 DEF Prepare, Going, stores
<1>3. /\ task \in Tasks /\ mode \in Modes /\ step \in TaskSteps /\ step \in {"failed", "review"}
      /\ task.kind # "edit" /\ task.asked \in Documents
    BY <1>2, TaskParts DEF TaskInv, TaskAgrees, Modes
<1> HIDE DEF step
<1>4. /\ t \in Tasks /\ t.step = step /\ t.kind = task.kind /\ t.quoted = task.quoted
      /\ t.asked = task.asked /\ t.language = task.language
    BY <1>3 DEF Tasks
<1> HIDE DEF t
<1>5. Continues(t)
    BY <1>2, <1>3, <1>4 DEF Continues
<1>6. /\ t.step \in {"done", "review"} \/ (t.step = "failed" /\ t.kind # "edit")
      /\ PreparationRules \in RuleSets /\ {} \in QuoteSets
      /\ overlap \/ \A q \in {} : Agreeing(q)
    BY <1>3, <1>4, TaskParts, RulesAreRules
<1> QED
    BY <1>2, <1>4, <1>5, <1>6, SendKeeps

LEMMA AskKeeps ==
    ASSUME TaskInv, NEW kind \in {"edit", "review", "evolve", "reflect"}, AskModel(kind)
    PROVE  TaskInv'
<1> DEFINE t == [NoTask EXCEPT !.kind = kind, !.step = FirstStep(kind), !.asked = document]
<1>1. /\ task' = t /\ messages = <<>> /\ overlap' = FALSE
      /\ UNCHANGED <<source, infos, bodies, dataset, collector, torn, document, messages, counts>>
    BY DEF AskModel, stores
<1>2. /\ FirstStep(kind) \in {"language", "prepare", "voyage"}
      /\ FirstStep(kind) = "prepare" => kind # "edit"
    BY DEF FirstStep
<1>3. NoTask \in Tasks /\ kind \in TaskKinds /\ FirstStep(kind) \in TaskSteps /\ document \in Subjects
    BY <1>2, TaskParts DEF TaskInv, TaskAgrees, TaskKinds
<1>4. /\ t \in Tasks /\ t.kind = kind /\ t.step = FirstStep(kind) /\ t.asked = document
      /\ t.language = NoTask.language /\ t.quoted = NoTask.quoted
    BY <1>3 DEF Tasks
<1>5. NoTask.language = "none" /\ NoTask.quoted = {}
    BY DEF NoTask
<1> HIDE DEF t
<1>6. StoresAgree'
    BY <1>1, StoresStay
<1>7. Len(messages') = 0
    BY <1>1
<1>8. TaskAgrees'
    BY <1>1, <1>2, <1>4, <1>5, <1>7 DEF TaskInv, TaskAgrees, OneDocument
<1>9. ReadingAgrees'
  <2>1. overlap' \in BOOLEAN
      BY <1>1
  <2> QED
      BY <1>1, <1>2, <1>4, <1>5, <1>7, <2>1 DEF ReadingAgrees, Reading
<1> QED
    BY <1>6, <1>8, <1>9 DEF TaskInv

\* What is edited meanwhile the task has not been asked about, nor is it stored.
LEMMA EditKeeps ==
    ASSUME TaskInv, (\E f \in Files : EditFile(f)) \/ EditDocument \/ UNCHANGED taskVars
    PROVE  TaskInv'
<1>1. UNCHANGED <<infos, bodies, dataset, collector, torn, task, messages, overlap>>
    BY DEF EditFile, EditDocument, taskVars, stores, asking
<1>2. document' \in Documents
    BY DEF EditFile, EditDocument, taskVars, TaskInv, TaskAgrees
<1>3. source' \in [Files -> Nat] /\ counts' \in [edits : Nat, collections : Nat]
  <2>1. source \in [Files -> Nat] /\ counts \in [edits : Nat, collections : Nat]
      BY DEF TaskInv, StoresAgree
  <2>2. ASSUME MayEdit PROVE counts' \in [edits : Nat, collections : Nat] /\ counts.edits + 2 \in Nat
      BY <2>1, <2>2 DEF MayEdit
  <2>3. ASSUME NEW f \in Files, EditFile(f) PROVE <1>3
      BY <2>1, <2>2, <2>3 DEF EditFile
  <2>4. CASE EditDocument
      BY <2>1, <2>2, <2>4 DEF EditDocument
  <2>5. CASE UNCHANGED taskVars
      BY <2>1, <2>5 DEF taskVars
  <2> QED
      BY <2>3, <2>4, <2>5
<1>4. StoresAgree'
    BY <1>1, <1>3 DEF TaskInv, StoresAgree
<1>5. TaskAgrees'
    BY <1>1, <1>2 DEF TaskInv, TaskAgrees, OneDocument
<1>6. ReadingAgrees'
    BY <1>1 DEF TaskInv, ReadingAgrees, Reading, Loads
<1> QED
    BY <1>4, <1>5, <1>6 DEF TaskInv

THEOREM TaskInvariance == TaskSpec => []TaskInv
<1>1. ASSUME TaskInit PROVE TaskInv
  <2>1. Rest \in Collectors /\ NoTask \in Tasks /\ NoFile \in Versions
      BY CollectorParts, TaskParts
  <2>2. /\ Rest.step = "rest" /\ Rest.done = {}
        /\ NoTask.step = "none" /\ NoTask.quoted = {} /\ NoTask.language = "none" /\ NoTask.kind = "none"
      BY DEF Rest, NoTask
  <2>3. \A f \in Files : f # NoFile
      BY TaskAssumption
  <2>4. StoresAgree
      BY <1>1, <2>1, <2>2, <2>3 DEF TaskInit, StoresAgree, NoSet, Half, NoFile, Torn
  <2>5. TaskAgrees
      BY <1>1, <2>1, <2>2 DEF TaskInit, TaskAgrees, OneDocument
  <2>6. ReadingAgrees
    <3>1. task = NoTask /\ messages = <<>> /\ overlap = FALSE
        BY <1>1 DEF TaskInit
    <3>2. Len(messages) = 0 /\ overlap \in BOOLEAN
        BY <3>1
    <3> QED
        BY <2>2, <3>1, <3>2 DEF ReadingAgrees, Reading
  <2> QED
      BY <2>4, <2>5, <2>6 DEF TaskInv
<1>2. TaskInv /\ [TaskNext]_taskVars => TaskInv'
  <2> SUFFICES ASSUME TaskInv, [TaskNext]_taskVars PROVE TaskInv'
      OBVIOUS
  <2> QED
      BY EditKeeps, CollectStep, AskKeeps, SelectLanguageKeeps, ExistsKeeps, LoadKeeps, PickPairKeeps,
         ReadBodyKeeps, TellsKeeps, PrepareKeeps DEF TaskNext
<1> QED
    BY <1>1, <1>2, PTL DEF TaskSpec

\* Whatever is edited and collected while a task runs, all that it tells the model is
\* about the document it was asked about (tools/llm/tasks).
THEOREM QuestionsAreOfOne == TaskSpec => []OneDocument
<1>1. TaskInv => OneDocument
    BY DEF TaskInv, TaskAgrees
<1> QED
    BY <1>1, TaskInvariance, PTL

\* An edit fails over its references only when a collection wrote while it read them
\* (tools/llm/references).
THEOREM ReferencesAreRead == TaskSpec => []ReadsWhatWasCollected
<1>1. TaskInv => ReadsWhatWasCollected
    BY DEF TaskInv, ReadingAgrees, ReadsWhatWasCollected
<1> QED
    BY <1>1, TaskInvariance, PTL

\* Description and markdown that are quoted to the model are of one version, but for what
\* was collected meanwhile, or collected in two parts (tools/llm/references).
THEOREM QuotesFit == TaskSpec => []QuotesAgree
<1>1. TaskInv => QuotesAgree
    BY DEF TaskInv, ReadingAgrees, QuotesAgree, Agreeing
<1> QED
    BY <1>1, TaskInvariance, PTL

\* The language that an edit finds is the text's, but for a text on the edge of it, which
\* the markers around the selection take over (tools/llm/rules).
THEOREM LanguageIsFound == TaskSpec => []LanguageIsTheTexts
<1>1. TaskInv => LanguageIsTheTexts
  <2> SUFFICES ASSUME TaskInv PROVE LanguageIsTheTexts
      OBVIOUS
  <2>1. \/ task.language = "none"
        \/ task.asked \in Documents /\ task.language = LanguageOf(Enclosed(task.asked))
      BY DEF TaskInv, TaskAgrees
  <2> QED
      BY <2>1, EnclosedSpeaks DEF LanguageIsTheTexts
<1> QED
    BY <1>1, TaskInvariance, PTL

------------------------------------------------------------------------------
(* TerminalScreen: an update is scheduled exactly while the reader is about *)
(* to start its timer or the timer waits, and there is one timer at most.   *)

OneTimer ==
    /\ fires \in {0, 1}
    /\ reader = "set" => fires = 0
    /\ scheduled <=> reader = "set" \/ fires = 1

ScreenInv ==
    /\ host \in {"vim", "nvim", "tty"}
    /\ scheduled \in BOOLEAN /\ firing \in BOOLEAN /\ holding \in BOOLEAN
    /\ reader \in {"reading", "fed", "set", "gone"} /\ (host # "tty" => reader = "gone")
    /\ chunk \in Strings /\ chunks \in StringLists
    /\ OneTimer
    /\ SeenOrOnItsWay

LEMMA HeadTail ==
    ASSUME NEW S, NEW s \in Seq(S), s # <<>>
    PROVE  Head(s) \in S /\ Tail(s) \in Seq(S) /\ Len(Tail(s)) = Len(s) - 1
    OBVIOUS

THEOREM ScreenInvariance == ScreenSpec => []ScreenInv
<1>1. ASSUME ScreenInit PROVE ScreenInv
  <2>1. /\ host \in {"vim", "nvim", "tty"} /\ ~scheduled /\ ~firing /\ holding
        /\ scheduled \in BOOLEAN /\ firing \in BOOLEAN /\ holding \in BOOLEAN
        /\ fires = 0 /\ display = BlankScreen
        /\ reader \in {"reading", "gone"} /\ (host # "tty" => reader = "gone")
      BY <1>1, ScreenAssumption DEF ScreenInit
  <2>2. chunk \in Strings /\ chunks \in StringLists
      BY <1>1 DEF ScreenInit, Strings, StringLists
  <2> QED
      BY <2>1, <2>2 DEF ScreenInv, OneTimer, SeenOrOnItsWay
<1>2. ScreenInv /\ [ScreenNext]_screenVars => ScreenInv'
  <2> SUFFICES ASSUME ScreenInv, [ScreenNext]_screenVars PROVE ScreenInv'
      OBVIOUS
  <2> USE DEF ScreenInv, OneTimer
  <2>1. ASSUME NEW text \in Outputs, ProgramWrites(text) PROVE ScreenInv'
    <3>1. Append(chunks, text) \in StringLists
        BY ScreenAssumption DEF StringLists
    <3> QED
        BY <2>1, <3>1 DEF ProgramWrites, SeenOrOnItsWay, Snapshot
  <2>2. CASE ProgramEnds
      BY <2>2 DEF ProgramEnds, SeenOrOnItsWay, Snapshot
  <2>3. CASE OnOutput
    <3>1. /\ chunks' \in StringLists
          /\ UNCHANGED <<host, running, reader, chunk, scheduled, fires, firing, holding>>
        BY <2>3, HeadTail DEF OnOutput, StringLists
    <3>2. view' = IF holding THEN Snapshot(display') ELSE view
        BY <2>3 DEF OnOutput, Update
    <3> QED
        BY <3>1, <3>2 DEF SeenOrOnItsWay, Snapshot
  <2>4. CASE ReadPty
    <3>1. chunk' \in Strings /\ chunks' \in StringLists
        BY <2>4, HeadTail DEF ReadPty, Strings, StringLists
    <3> QED
        BY <2>4, <3>1 DEF ReadPty, SeenOrOnItsWay, Snapshot
  <2>5. CASE FeedStream
    <3>1. chunk' \in Strings /\ (Len(chunk) # 1 => chunk' # <<>>)
      <4>1. chunk # <<>> /\ chunk' = Tail(chunk)
          BY <2>5 DEF FeedStream
      <4>2. chunk' \in Strings /\ Len(chunk') = Len(chunk) - 1 /\ Len(chunk) \in Nat
          BY <4>1, HeadTail DEF Strings
      <4>3. Len(chunk) # 1 => Len(chunk') # 0
          BY <4>2
      <4>4. Len(<<>>) = 0
          OBVIOUS
      <4> QED
          BY <4>2, <4>3, <4>4
    <3> QED
        BY <2>5, <3>1 DEF FeedStream, SeenOrOnItsWay
  <2>6. CASE ScheduleUpdate
      BY <2>6 DEF ScheduleUpdate, SeenOrOnItsWay
  <2>7. CASE StartTimer
      BY <2>7 DEF StartTimer, SeenOrOnItsWay
  <2>8. CASE FireUpdate
    <3>1. CASE firing
        BY <2>8, <3>1 DEF FireUpdate, Update, SeenOrOnItsWay, Snapshot
    <3>2. CASE ~firing
      <4>1. /\ fires > 0 /\ fires' = fires - 1 /\ firing' = TRUE /\ scheduled' = FALSE
            /\ UNCHANGED <<host, reader, chunk, chunks, holding>>
          BY <2>8, <3>2 DEF FireUpdate
      <4>2. fires = 1 /\ fires' = 0 /\ reader # "set"
          BY <4>1
      <4>3. fires' \in {0, 1} /\ fires' # 1 /\ ~scheduled' /\ firing'
          BY <4>1, <4>2
      <4>4. OneTimer'
          BY <4>1, <4>2, <4>3
      <4>5. SeenOrOnItsWay'
          BY <4>3 DEF SeenOrOnItsWay
      <4> QED
          BY <4>1, <4>4, <4>5
    <3> QED
        BY <3>1, <3>2
  <2>9. CASE DisposeRunner
      BY <2>9 DEF DisposeRunner, SeenOrOnItsWay
  <2>10. CASE UNCHANGED screenVars
      BY <2>10 DEF screenVars, SeenOrOnItsWay, Snapshot
  <2> QED
      BY <2>1, <2>2, <2>3, <2>4, <2>5, <2>6, <2>7, <2>8, <2>9, <2>10 DEF ScreenNext
<1> QED
    BY <1>1, <1>2, PTL DEF ScreenSpec

\* While the runner has its job, what the emulator was fed last is in the buffer or
\* an update is on its way (terminal_runner, virtual_tty).
THEOREM ScreenIsSeen == ScreenSpec => []SeenOrOnItsWay
<1>1. ScreenInv => SeenOrOnItsWay
    BY DEF ScreenInv
<1> QED
    BY <1>1, ScreenInvariance, PTL

LEMMA HeadBehind ==
    ASSUME NEW A, NEW s \in Seq(A), s # <<>>
    PROVE  s = <<Head(s)>> \o Tail(s) /\ <<Head(s)>> \in Seq(A)
    OBVIOUS

LEMMA FlatHead ==
    ASSUME NEW lines \in StringLists, lines # <<>>
    PROVE  /\ Head(lines) \in Strings /\ Tail(lines) \in StringLists
           /\ Flat(lines) = Head(lines) \o Flat(Tail(lines))
<1> DEFINE h == Head(lines)
           t == Tail(lines)
<1>1. h \in Strings /\ t \in StringLists /\ lines = <<h>> \o t /\ <<h>> \in StringLists
    BY HeadTail, HeadBehind DEF StringLists
<1> HIDE DEF h, t
<1>2. Flat(lines) = Flat(<<h>>) \o Flat(t)
    BY <1>1, FlatConcat
<1>3. Flat(<<h>>) = h
  <2>1. <<h>> = Append(<<>>, h) /\ <<>> \o h = h
      BY <1>1, ConcatAppend, NoText, LineAppended DEF Strings
  <2>2. Flat(Append(<<>>, h)) = Flat(<<>>) \o h /\ Flat(<<>>) = <<>>
      BY <1>1, FlatAppend, NoText
  <2> QED
      BY <2>1, <2>2, Zenon
<1>4. Flat(lines) = h \o Flat(t)
    BY <1>2, <1>3, Zenon
<1> QED
    BY <1>1, <1>4 DEF h, t

\* A text taken in front of the rest.
LEMMA TakenOn ==
    ASSUME NEW p \in Strings, NEW text \in Strings, NEW rest \in Strings
    PROVE  LET whole == p \o (text \o rest)
               n     == Len(p) + Len(text)
           IN  n \in Nat /\ n <= Len(whole) /\ SubSeq(whole, 1, n) = p \o text /\ whole = (p \o text) \o rest
<1> DEFINE whole == p \o (text \o rest)
<1>1. whole = (p \o text) \o rest /\ p \o text \in Strings
    BY StringsAssociate
<1>2. ASSUME NEW a \in Strings, NEW b \in Strings
      PROVE  /\ SubSeq(a \o b, 1, Len(a)) = a /\ Len(a) <= Len(a \o b) /\ Len(a) \in Nat
             /\ Len(a \o b) = Len(a) + Len(b)
    BY <1>2 DEF Strings
<1>3. Len(p \o text) = Len(p) + Len(text)
    BY <1>2
<1> HIDE DEF whole
<1>4. /\ SubSeq((p \o text) \o rest, 1, Len(p \o text)) = p \o text
      /\ Len(p \o text) <= Len((p \o text) \o rest) /\ Len(p \o text) \in Nat
    BY <1>1, <1>2
<1> QED
    BY <1>1, <1>3, <1>4 DEF whole

\* What the program wrote is what the emulator was fed, then what the reader holds, then
\* what is not read yet.
FedInv ==
    /\ program \in Strings /\ chunk \in Strings /\ chunks \in StringLists
    /\ host # "tty" => chunk = <<>>
    /\ fed \in Nat /\ fed <= Len(program)
    /\ program = SubSeq(program, 1, fed) \o (chunk \o Flat(chunks))
    /\ ScreenIsTheProgrammes

LEMMA FeedConcat ==
    ASSUME NEW first, NEW text \in Strings, NEW more \in Strings
    PROVE  Feed(first, text \o more) = Feed(Feed(first, text), more)
<1>1. Folded(FeedStep, first, text \o more) = Folded(FeedStep, Folded(FeedStep, first, text), more)
    BY FoldedConcat DEF Strings
<1> QED
    BY <1>1 DEF Feed

\* The emulator is fed with what comes next.
Feeds(text, rest) ==
    /\ text \o rest = chunk \o Flat(chunks) /\ rest = chunk' \o Flat(chunks')
    /\ chunk' \in Strings /\ chunks' \in StringLists /\ (host' # "tty" => chunk' = <<>>)
    /\ display' = Feed(display, text) /\ fed' = fed + Len(text) /\ program' = program

LEMMA FeedsOn ==
    ASSUME FedInv, NEW text \in Strings, NEW rest \in Strings, Feeds(text, rest)
    PROVE  FedInv'
<1>1. /\ fed + Len(text) \in Nat /\ fed + Len(text) <= Len(program)
      /\ SubSeq(program, 1, fed) \in Strings
      /\ SubSeq(program, 1, fed + Len(text)) = SubSeq(program, 1, fed) \o text
      /\ program = SubSeq(program, 1, fed + Len(text)) \o rest
  <2> DEFINE p == SubSeq(program, 1, fed)
  <2>1. p \in Strings /\ Len(p) = fed
      BY DEF FedInv, Strings
  <2>2. program = p \o (text \o rest)
      BY DEF FedInv, Feeds
  <2> HIDE DEF p
  <2> DEFINE whole == p \o (text \o rest)
             n     == Len(p) + Len(text)
  <2>3. n \in Nat /\ n <= Len(whole) /\ SubSeq(whole, 1, n) = p \o text /\ whole = (p \o text) \o rest
      BY <2>1, TakenOn
  <2>4. n = fed + Len(text) /\ whole = program
      BY <2>1, <2>2
  <2> HIDE DEF whole, n
  <2>5. /\ fed + Len(text) \in Nat /\ fed + Len(text) <= Len(program)
        /\ SubSeq(program, 1, fed + Len(text)) = p \o text /\ program = (p \o text) \o rest
      BY <2>3, <2>4, Zenon
  <2> QED
      BY <2>1, <2>5 DEF p
<1>2. Feed(Feed(BlankScreen, SubSeq(program, 1, fed)), text) = Feed(BlankScreen, SubSeq(program, 1, fed) \o text)
    BY <1>1, FeedConcat
<1>3. display' = Feed(BlankScreen, SubSeq(program, 1, fed) \o text)
    BY <1>2 DEF FedInv, Feeds, ScreenIsTheProgrammes
<1>4. ScreenIsTheProgrammes'
    BY <1>1, <1>3 DEF Feeds, ScreenIsTheProgrammes
<1> QED
    BY <1>1, <1>4 DEF FedInv, Feeds

LEMMA FedStarts == ScreenInit => FedInv
<1> SUFFICES ASSUME ScreenInit PROVE FedInv
    OBVIOUS
<1> DEFINE e == <<>>
<1>1. SubSeq(e, 1, 0) = e /\ e \o (e \o e) = e /\ Len(e) = 0
    OBVIOUS
<1>2. Flat(e) = e /\ Feed(BlankScreen, e) = BlankScreen
    BY FlatAppend, FoldedEmpty DEF Feed
<1>3. e \in Strings /\ e \in StringLists
    BY NoText
<1>4. program = e /\ chunk = e /\ chunks = e /\ fed = 0 /\ display = BlankScreen
    BY DEF ScreenInit
<1>5. host # "tty" => chunk = <<>>
    BY <1>4
<1> HIDE DEF e
<1>6. program = SubSeq(program, 1, fed) \o (chunk \o Flat(chunks)) /\ fed \in Nat /\ fed <= Len(program)
    BY <1>1, <1>2, <1>4
<1>7. ScreenIsTheProgrammes
    BY <1>1, <1>2, <1>4 DEF ScreenIsTheProgrammes
<1> QED
    BY <1>3, <1>4, <1>5, <1>6, <1>7 DEF FedInv

LEMMA FedSteps == ScreenInv /\ FedInv /\ [ScreenNext]_screenVars => FedInv'
<1> SUFFICES ASSUME ScreenInv, FedInv, [ScreenNext]_screenVars PROVE FedInv'
    OBVIOUS
<1>1. /\ program \in Strings /\ chunk \in Strings /\ chunks \in StringLists /\ Flat(chunks) \in Strings
      /\ fed \in Nat /\ fed <= Len(program) /\ SubSeq(program, 1, fed) \in Strings
  <2>1. fed <= Len(program) => SubSeq(program, 1, fed) \in Strings
      BY DEF FedInv, Strings
  <2> QED
      BY <2>1, FlatAppend DEF FedInv
<1>2. ASSUME UNCHANGED <<host, program, chunks, fed, display, chunk>> PROVE FedInv'
    BY <1>2 DEF FedInv, ScreenIsTheProgrammes
<1>3. ASSUME NEW text \in Outputs, ProgramWrites(text) PROVE FedInv'
  <2>1. /\ program' = program \o text /\ chunks' = Append(chunks, text)
        /\ UNCHANGED <<host, fed, display, chunk>> /\ text \in Strings
      BY <1>3, ScreenAssumption DEF ProgramWrites
  <2>2. program' \in Strings /\ chunks' \in StringLists /\ Flat(chunks') = Flat(chunks) \o text
    <3>1. program' \in Strings
        BY <1>1, <2>1, StringsAssociate
    <3>2. Append(chunks, text) \in StringLists /\ Flat(Append(chunks, text)) = Flat(chunks) \o text
        BY <1>1, <2>1, FlatAppend, LineAppended
    <3> QED
        BY <2>1, <3>1, <3>2
  <2>3. fed <= Len(program \o text) /\ SubSeq(program \o text, 1, fed) = SubSeq(program, 1, fed)
      BY <1>1, <2>1 DEF Strings
  <2> DEFINE p == SubSeq(program, 1, fed)
  <2>4. program = p \o (chunk \o Flat(chunks)) /\ p \in Strings
      BY <1>1 DEF FedInv
  <2> HIDE DEF p
  <2>5. (p \o (chunk \o Flat(chunks))) \o text = p \o (chunk \o (Flat(chunks) \o text))
    <3>1. /\ chunk \o Flat(chunks) \in Strings
          /\ (chunk \o Flat(chunks)) \o text = chunk \o (Flat(chunks) \o text)
      <4> DEFINE later == Flat(chunks)
      <4>1. chunk \in Strings /\ later \in Strings /\ text \in Strings
          BY <1>1, <2>1
      <4> HIDE DEF later
      <4>2. (chunk \o later) \o text = chunk \o (later \o text) /\ chunk \o later \in Strings
          BY <4>1, StringsAssociate
      <4> QED
          BY <4>2 DEF later
    <3>2. (p \o (chunk \o Flat(chunks))) \o text = p \o ((chunk \o Flat(chunks)) \o text)
        BY <2>1, <2>4, <3>1, StringsAssociate, Zenon
    <3> QED
        BY <3>1, <3>2, Zenon
  <2>6. program' = p \o (chunk' \o Flat(chunks'))
      BY <2>1, <2>2, <2>4, <2>5
  <2>7. SubSeq(program', 1, fed') = p
      BY <2>1, <2>3 DEF p
  <2>8. ScreenIsTheProgrammes'
      BY <2>1, <2>3 DEF FedInv, ScreenIsTheProgrammes
  <2> QED
      BY <1>1, <2>1, <2>2, <2>3, <2>6, <2>7, <2>8 DEF FedInv
<1>4. CASE OnOutput
  <2> DEFINE h == Head(chunks)
             t == Tail(chunks)
             text == IF host = "nvim" THEN Joined(CutLines(h)) ELSE h
  <2>1. /\ host # "tty" /\ chunks # <<>> /\ display' = Feed(display, text) /\ fed' = fed + Len(text)
        /\ chunks' = t /\ UNCHANGED <<host, program, chunk>>
      BY <1>4 DEF OnOutput
  <2>2. h \in Strings /\ t \in StringLists /\ Flat(chunks) = h \o Flat(t) /\ Flat(t) \in Strings
      BY <1>1, <2>1, FlatHead, FlatAppend
  <2>3. text = h
      BY <2>2, JoinsTheCut DEF Joined
  <2> HIDE DEF h, t, text
  <2>4. chunk = <<>> /\ chunk' = <<>> /\ chunk' \in Strings
      BY <1>1, <2>1 DEF FedInv
  <2>5. <<>> \o Flat(chunks) = Flat(chunks) /\ <<>> \o Flat(t) = Flat(t)
      BY <1>1, <2>2, NoText, ConcatAppend DEF Strings
  <2>6. h \o Flat(t) = chunk \o Flat(chunks) /\ Flat(t) = chunk' \o Flat(chunks')
      BY <2>1, <2>2, <2>4, <2>5, Zenon
  <2> QED
      BY <2>1, <2>2, <2>3, <2>4, <2>6, FeedsOn DEF Feeds
<1>5. CASE ReadPty
  <2>1. CASE running
    <3>1. /\ chunk = <<>> /\ chunks # <<>> /\ chunk' = Head(chunks) /\ chunks' = Tail(chunks)
          /\ UNCHANGED <<host, program, fed, display>> /\ reader = "reading"
        BY <1>5, <2>1 DEF ReadPty
    <3>2. chunk' \in Strings /\ chunks' \in StringLists /\ Flat(chunks) = chunk' \o Flat(chunks')
        BY <1>1, <3>1, FlatHead
    <3>3. <<>> \o Flat(chunks) = Flat(chunks)
        BY <1>1, NoText, ConcatAppend DEF Strings
    <3>4. chunk \o Flat(chunks) = chunk' \o Flat(chunks')
        BY <3>1, <3>2, <3>3, Zenon
    <3>5. host' = "tty"
        BY <3>1 DEF ScreenInv
    <3>6. ScreenIsTheProgrammes'
        BY <3>1 DEF FedInv, ScreenIsTheProgrammes
    <3> QED
        BY <3>1, <3>2, <3>4, <3>5, <3>6 DEF FedInv
  <2>2. CASE ~running
      BY <1>2, <1>5, <2>2 DEF ReadPty
  <2> QED
      BY <2>1, <2>2
<1>6. CASE FeedStream
  <2> DEFINE text == <<Head(chunk)>>
             t    == Tail(chunk)
  <2>1. /\ chunk # <<>> /\ reader = "reading" /\ display' = Feed(display, text) /\ fed' = fed + 1
        /\ chunk' = t /\ UNCHANGED <<host, program, chunks>>
      BY <1>6 DEF FeedStream
  <2>2. text \in Strings /\ t \in Strings /\ chunk = text \o t /\ Len(text) = 1
      BY <1>1, <2>1, HeadTail, HeadBehind DEF Strings
  <2> HIDE DEF text, t
  <2>3. (text \o t) \o Flat(chunks) = text \o (t \o Flat(chunks)) /\ t \o Flat(chunks) \in Strings
    <3> DEFINE later == Flat(chunks)
    <3>1. text \in Strings /\ t \in Strings /\ later \in Strings
        BY <1>1, <2>2
    <3> HIDE DEF later
    <3>2. (text \o t) \o later = text \o (t \o later) /\ t \o later \in Strings
        BY <3>1, StringsAssociate
    <3> QED
        BY <3>2 DEF later
  <2>4. text \o (t \o Flat(chunks)) = chunk \o Flat(chunks)
      BY <2>2, <2>3
  <2>5. host' = "tty"
      BY <2>1 DEF ScreenInv
  <2> DEFINE rest == t \o Flat(chunks)
  <2>6. rest \in Strings /\ text \o rest = chunk \o Flat(chunks) /\ rest = chunk' \o Flat(chunks')
      BY <2>1, <2>3, <2>4
  <2>7. fed' = fed + Len(text)
      BY <2>1, <2>2
  <2> HIDE DEF rest
  <2> QED
      BY <1>1, <2>1, <2>2, <2>5, <2>6, <2>7, FeedsOn DEF Feeds
<1>7. CASE \/ ProgramEnds \/ ScheduleUpdate \/ StartTimer \/ FireUpdate \/ DisposeRunner
           \/ UNCHANGED screenVars
    BY <1>2, <1>7 DEF ProgramEnds, ScheduleUpdate, StartTimer, FireUpdate, DisposeRunner, screenVars
<1> QED
    BY <1>3, <1>4, <1>5, <1>6, <1>7 DEF ScreenNext

\* The reader of the pseudo terminal goes when the program has ended, not before.
LEMMA ReadToItsEnd == ScreenSpec => []ReadUntilTheEnd
<1>1. ScreenInit => ReadUntilTheEnd
    BY DEF ScreenInit, ReadUntilTheEnd
<1>2. ReadUntilTheEnd /\ [ScreenNext]_screenVars => ReadUntilTheEnd'
  <2> SUFFICES ASSUME ReadUntilTheEnd, [ScreenNext]_screenVars PROVE ReadUntilTheEnd'
      OBVIOUS
  <2>1. CASE ReadPty
      BY <2>1 DEF ReadPty, ReadUntilTheEnd
  <2>2. CASE FeedStream
      BY <2>2 DEF FeedStream, ReadUntilTheEnd
  <2>3. CASE ScheduleUpdate \/ StartTimer
      BY <2>3 DEF ScheduleUpdate, StartTimer, ReadUntilTheEnd
  <2>4. CASE ProgramEnds \/ DisposeRunner
      BY <2>4 DEF ProgramEnds, DisposeRunner, ReadUntilTheEnd
  <2>5. CASE OnOutput \/ FireUpdate \/ \E text \in Outputs : ProgramWrites(text)
      BY <2>5 DEF OnOutput, FireUpdate, ProgramWrites, ReadUntilTheEnd
  <2>6. CASE UNCHANGED screenVars
      BY <2>6 DEF screenVars, ReadUntilTheEnd
  <2> QED
      BY <2>1, <2>2, <2>3, <2>4, <2>5, <2>6 DEF ScreenNext
<1> QED
    BY <1>1, <1>2, PTL DEF ScreenSpec

\* The screen of a terminal is that of what its program wrote, up to what the emulator
\* was fed last; what the program wrote behind that is being fed or not read yet, and
\* nothing is skipped (terminal_runner, virtual_tty).
THEOREM ScreenIsFed == ScreenSpec => [](ScreenIsTheProgrammes /\ NothingIsSkipped)
<1>1. FedInv => ScreenIsTheProgrammes /\ NothingIsSkipped
    BY DEF FedInv, NothingIsSkipped
<1> QED
    BY <1>1, FedStarts, FedSteps, ScreenInvariance, PTL DEF ScreenSpec

------------------------------------------------------------------------------
(* JobOutput: what is handed over, of each stream, and what of it is shown.  *)

\* What comes behind a text changes the last of its lines only.
LEMMA CutAfter ==
    ASSUME NEW text \in Strings, NEW more \in Strings
    PROVE  LET cut  == CutLines(text)
               next == CutLines(Last(cut) \o more)
           IN  /\ Last(cut) \o more \in Strings /\ text \o more \in Strings
               /\ Front(CutLines(text \o more)) = Front(cut) \o Front(next)
               /\ Last(CutLines(text \o more)) = Last(next)
<1> DEFINE cut  == CutLines(text)
           next == CutLines(Last(cut) \o more)
<1>1. /\ Front(cut) \in StringLists /\ Last(cut) \in Strings
    BY CutAppend, FrontAndLast DEF StringLists
<1>2. Last(cut) \o more \in Strings /\ text \o more \in Strings
    BY <1>1, ConcatAppend DEF Strings
<1>3. Front(next) \in StringLists /\ Last(next) \in Strings /\ next = Append(Front(next), Last(next))
    BY <1>2, CutAppend, FrontAndLast DEF StringLists
<1>4. CutLines(text \o more) = Front(cut) \o next
    BY CutGoesOn
<1> HIDE DEF cut, next
<1>5. /\ Front(cut) \o Append(Front(next), Last(next)) = Append(Front(cut) \o Front(next), Last(next))
      /\ Front(cut) \o Front(next) \in StringLists
    BY <1>1, <1>3, ConcatAppend DEF StringLists
<1>6. /\ Front(Append(Front(cut) \o Front(next), Last(next))) = Front(cut) \o Front(next)
      /\ Last(Append(Front(cut) \o Front(next), Last(next))) = Last(next)
    BY <1>3, <1>5, LineAppended
<1>7. CutLines(text \o more) = Append(Front(cut) \o Front(next), Last(next))
    BY <1>3, <1>4, <1>5, Zenon
<1>8. /\ Front(CutLines(text \o more)) = Front(cut) \o Front(next)
      /\ Last(CutLines(text \o more)) = Last(next)
    BY <1>6, <1>7, Zenon
<1> QED
    BY <1>2, <1>8 DEF cut, next

\* The parts of a piece have its text; one that ends with a break has nothing else.
LEMMA PartsOfAPiece ==
    ASSUME NEW piece \in Strings
    PROVE  /\ Parts(piece) \in StringLists /\ Flat(Parts(piece)) = Unbroken(piece)
           /\ piece # <<>> /\ Last(piece) = LF =>
                 Parts(piece) = Front(CutLines(piece)) /\ Last(CutLines(piece)) = <<>>
<1> DEFINE cut == CutLines(piece)
<1>1. /\ cut \in StringLists /\ cut # <<>> /\ Flat(cut) = Unbroken(piece)
      /\ Front(cut) \in StringLists /\ Last(cut) \in Strings /\ cut = Append(Front(cut), Last(cut))
    BY CutAppend, CutKeepsTheText, FrontAndLast DEF StringLists
<1>2. Parts(piece) = IF Last(cut) = <<>> THEN Front(cut) ELSE cut
    BY DEF Parts
<1>3. piece # <<>> /\ Last(piece) = LF => Last(cut) = <<>>
    BY CutOfALastBreak
<1> HIDE DEF cut
<1>4. Flat(cut) = Flat(Front(cut)) \o Last(cut) /\ Flat(Front(cut)) \in Strings
  <2>1. Flat(Append(Front(cut), Last(cut))) = Flat(Front(cut)) \o Last(cut) /\ Flat(Front(cut)) \in Strings
      BY <1>1, FlatAppend
  <2> QED
      BY <1>1, <2>1, Zenon
<1>5. Flat(Front(cut)) \o <<>> = Flat(Front(cut))
    BY <1>4, NoText, ConcatAppend DEF Strings
<1>6. Parts(piece) \in StringLists /\ Flat(Parts(piece)) = Unbroken(piece)
  <2>1. CASE Last(cut) = <<>>
      BY <1>1, <1>2, <1>4, <1>5, <2>1
  <2>2. CASE Last(cut) # <<>>
      BY <1>1, <1>2, <2>2
  <2> QED
      BY <2>1, <2>2
<1> QED
    BY <1>2, <1>3, <1>6 DEF cut

\* What is read when the next piece is handed over.
LEMMA ReadOn ==
    ASSUME NEW w \in Seq(Strings \ {<<>>}), NEW n \in Nat, n <= Len(w)
    PROVE  /\ w \in StringLists /\ SubSeq(w, 1, n) \in StringLists /\ Flat(SubSeq(w, 1, n)) \in Strings
           /\ n < Len(w) => /\ w[n + 1] \in Strings \ {<<>>} /\ n + 1 \in DOMAIN w
                            /\ Flat(SubSeq(w, 1, n + 1)) = Flat(SubSeq(w, 1, n)) \o w[n + 1]
<1>1. w \in StringLists /\ SubSeq(w, 1, n) \in StringLists
    BY DEF StringLists
<1>2. ASSUME n < Len(w)
      PROVE  w[n + 1] \in Strings \ {<<>>} /\ n + 1 \in DOMAIN w /\ SubSeq(w, 1, n + 1) = Append(SubSeq(w, 1, n), w[n + 1])
    BY <1>2
<1> QED
    BY <1>1, <1>2, FlatAppend

\* What a stream has come to.  The last line is put behind the others when the
\* stream has ended.
Handed(s) ==
    LET read == Flat(Read(s))
        cut  == CutLines(read)
    IN  /\ Unbroken(carry[s]) = carry[s] /\ (jobEditor = "nvim" => carry[s] = <<>>)
        /\ Flat(captured[s]) \o carry[s] = Unbroken(read)
        /\ jobEditor # "nvim" \/ EndsItsLines(s) =>
              \/ captured[s] = Front(cut) /\ carry[s] = Last(cut)
              \/ /\ captured[s] = cut /\ carry[s] = <<>>
                 /\ stage # "running" /\ taken[s] = Len(written[s])

Shown(s) ==
    IF stage # "told" /\ gone \cap {s, "out"} = {} THEN appended[s] = Solid(captured[s])
    ELSE \E rest \in StringLists : Solid(captured[s]) = appended[s] \o rest

OutTyped ==
    /\ asked \subseteq Streams /\ gone \subseteq asked
    /\ written \in [Streams -> Seq(Strings \ {<<>>})]
    /\ taken \in [Streams -> Nat] /\ \A s \in Streams : taken[s] <= Len(written[s])
    /\ carry \in [Streams -> Strings]
    /\ captured \in [Streams -> StringLists] /\ appended \in [Streams -> StringLists]
    /\ stage \in {"running", "exited", "told"}
    /\ wired = IF stage = "told" \/ "out" \in gone THEN {} ELSE asked

OutInv ==
    /\ OutTyped
    /\ \A s \in Streams : Handed(s)
    /\ \A s \in asked : Shown(s)
    /\ errHidden => stage = "told" /\ appended["err"] = <<>>
    /\ stage = "told" /\ isFiled => "err" \in gone

LEMMA OutStarts == OutInit => OutInv
<1> SUFFICES ASSUME OutInit PROVE OutInv
    OBVIOUS
<1> DEFINE e == <<>>
<1>1. OutTyped
  <2>1. e \in Seq(Strings \ {<<>>}) /\ Len(e) = 0
      OBVIOUS
  <2> HIDE DEF e
  <2>2. written = [s \in Streams |-> e] /\ carry = [s \in Streams |-> e] /\ captured = [s \in Streams |-> e] /\ appended = [s \in Streams |-> e]
      BY DEF OutInit, e
  <2>3. e \in Strings /\ e \in StringLists
      BY NoText DEF e
  <2>4. written \in [Streams -> Seq(Strings \ {<<>>})] /\ \A s \in Streams : written[s] = e
      BY <2>1, <2>2
  <2>5. taken \in [Streams -> Nat] /\ \A s \in Streams : taken[s] = 0
      BY DEF OutInit
  <2>6. \A s \in Streams : taken[s] <= Len(written[s])
      BY <2>1, <2>4, <2>5
  <2>7. /\ carry \in [Streams -> Strings]
        /\ captured \in [Streams -> StringLists] /\ appended \in [Streams -> StringLists]
      BY <2>2, <2>3
  <2> QED
      BY <2>4, <2>5, <2>6, <2>7 DEF OutInit, OutTyped, Asked, Streams
<1>2. \A s \in Streams : Handed(s)
  <2> SUFFICES ASSUME NEW s \in Streams PROVE Handed(s)
      OBVIOUS
  <2>1. SubSeq(e, 1, 0) = e /\ e \o e = e
      OBVIOUS
  <2>2. Flat(e) = e /\ Unbroken(e) = e /\ CutLines(e) = Append(e, e)
      BY FlatAppend, UnbrokenAppend, CutAppend, LineAppended, NoText
  <2>3. Front(Append(e, e)) = e /\ Last(Append(e, e)) = e
      BY LineAppended, NoText
  <2> HIDE DEF e
  <2>4. written[s] = e /\ taken[s] = 0 /\ carry[s] = e /\ captured[s] = e
      BY DEF OutInit, e
  <2>5. Read(s) = e
      BY <2>1, <2>4 DEF Read
  <2>6. Front(CutLines(Flat(Read(s)))) = e /\ Last(CutLines(Flat(Read(s)))) = e
      BY <2>2, <2>3, <2>5, Zenon
  <2>7. Unbroken(Flat(Read(s))) = e /\ Flat(captured[s]) \o carry[s] = e
      BY <2>1, <2>2, <2>4, <2>5, Zenon
  <2>8. carry[s] = <<>>
      BY <2>4 DEF e
  <2> QED
      BY <2>2, <2>4, <2>6, <2>7, <2>8 DEF Handed
<1>3. \A s \in asked : Shown(s)
    BY SolidAppend DEF OutInit, Shown, Asked, Streams
<1> QED
    BY <1>1, <1>2, <1>3 DEF OutInit, OutInv

BuffersStay == UNCHANGED <<asked, wired, gone, stage>>

\* What is appended to the buffers with the lines of a step.
LEMMA EmitShows ==
    ASSUME OutInv, NEW s \in Streams, NEW ls \in StringLists, Emit(s, ls), BuffersStay
    PROVE  /\ captured' \in [Streams -> StringLists] /\ appended' \in [Streams -> StringLists]
           /\ captured'[s] = captured[s] \o ls
           /\ \A r \in Streams \ {s} : captured'[r] = captured[r]
           /\ \A r \in asked' : Shown(r)'
           /\ stage = "told" => appended' = appended
<1> DEFINE more == IF s \in wired \ gone THEN Solid(ls) ELSE <<>>
<1>1. Solid(ls) \in StringLists /\ captured[s] \in StringLists /\ appended[s] \in StringLists
    BY SolidAppend DEF OutInv, OutTyped
<1>2. /\ captured[s] \o ls \in StringLists
      /\ more \in StringLists /\ appended[s] \o more \in StringLists
      /\ appended[s] \o <<>> = appended[s]
    BY <1>1, ConcatAppend, NoText DEF StringLists
<1>3. /\ captured' = [captured EXCEPT ![s] = captured[s] \o ls]
      /\ appended' = [appended EXCEPT ![s] = appended[s] \o more]
    BY DEF Emit
<1> HIDE DEF more
<1>4. /\ captured' \in [Streams -> StringLists] /\ appended' \in [Streams -> StringLists]
      /\ captured'[s] = captured[s] \o ls /\ appended'[s] = appended[s] \o more
      /\ \A r \in Streams \ {s} : captured'[r] = captured[r] /\ appended'[r] = appended[r]
    BY <1>1, <1>2, <1>3 DEF OutInv, OutTyped
<1>5. ASSUME s \notin wired \ gone PROVE appended' = appended
  <2>1. appended[s] \o more = appended[s]
      BY <1>2, <1>5 DEF more
  <2> QED
      BY <1>3, <2>1 DEF OutInv, OutTyped
<1>6. ASSUME NEW r \in asked PROVE Shown(r)'
  <2>1. CASE r # s
      BY <1>4, <1>6, <2>1 DEF OutInv, OutTyped, Shown, BuffersStay
  <2>2. CASE r = s
    <3>1. Solid(captured'[s]) = Solid(captured[s]) \o Solid(ls)
        BY <1>1, <1>4, SolidConcat
    <3>2. CASE stage # "told" /\ gone \cap {s, "out"} = {}
      <4>1. s \in wired \ gone
          BY <1>6, <2>2, <3>2 DEF OutInv, OutTyped
      <4>2. appended'[s] = appended[s] \o Solid(ls)
          BY <1>4, <4>1 DEF more
      <4>3. appended[s] = Solid(captured[s])
          BY <1>6, <2>2, <3>2 DEF OutInv, Shown
      <4> QED
          BY <2>2, <3>1, <3>2, <4>2, <4>3 DEF Shown, BuffersStay
    <3>3. CASE ~(stage # "told" /\ gone \cap {s, "out"} = {})
      <4>1. s \notin wired \ gone
          BY <3>3 DEF OutInv, OutTyped
      <4>2. appended'[s] = appended[s]
          BY <1>5, <4>1
      <4>3. Begins(appended[s], Solid(captured[s]))
          BY <1>6, <2>2, <3>3 DEF OutInv, Shown, Begins
      <4>4. Begins(appended[s], Solid(captured[s]) \o Solid(ls))
          BY <1>1, <4>3, BeginningKept
      <4>5. Begins(appended'[s], Solid(captured'[s]))
          BY <3>1, <4>2, <4>4, Zenon
      <4> QED
          BY <2>2, <3>3, <4>5 DEF Shown, BuffersStay, Begins
    <3> QED
        BY <3>2, <3>3
  <2> QED
      BY <2>1, <2>2
<1>7. stage = "told" => s \notin wired \ gone
    BY DEF OutInv, OutTyped
<1> QED
    BY <1>4, <1>5, <1>6, <1>7 DEF BuffersStay

\* The job and the buffers as long as the lines of one stream are handed over.
LEMMA OutHandOver ==
    ASSUME OutInv, NEW s \in Streams, HandOver(s)
    PROVE  OutInv'
<1> DEFINE piece == written[s][taken[s] + 1]
           text  == Flat(Read(s))
           cut   == CutLines(text)
           next  == CutLines(carry[s] \o piece)
<1>1. /\ written[s] \in Seq(Strings \ {<<>>}) /\ taken[s] \in Nat /\ taken[s] < Len(written[s])
      /\ carry[s] \in Strings /\ captured[s] \in StringLists
    BY DEF OutInv, OutTyped, HandOver
<1>2. /\ piece \in Strings /\ piece # <<>> /\ taken[s] + 1 \in DOMAIN written[s]
      /\ text \in Strings
      /\ Flat(SubSeq(written[s], 1, taken[s] + 1)) = text \o piece
  <2>1. /\ Flat(SubSeq(written[s], 1, taken[s])) \in Strings
        /\ written[s][taken[s] + 1] \in Strings \ {<<>>} /\ taken[s] + 1 \in DOMAIN written[s]
        /\ Flat(SubSeq(written[s], 1, taken[s] + 1))
              = Flat(SubSeq(written[s], 1, taken[s])) \o written[s][taken[s] + 1]
    <3> DEFINE w == written[s]
               n == taken[s]
    <3>1. w \in Seq(Strings \ {<<>>}) /\ n \in Nat /\ n <= Len(w) /\ n < Len(w)
        BY <1>1
    <3> HIDE DEF w, n
    <3>2. /\ Flat(SubSeq(w, 1, n)) \in Strings
          /\ w[n + 1] \in Strings \ {<<>>} /\ n + 1 \in DOMAIN w
          /\ Flat(SubSeq(w, 1, n + 1)) = Flat(SubSeq(w, 1, n)) \o w[n + 1]
        BY <3>1, ReadOn
    <3> QED
        BY <3>2 DEF w, n
  <2> QED
      BY <2>1 DEF Read
<1>3. carry[s] \o piece \in Strings /\ next \in StringLists /\ next # <<>>
  <2>1. carry[s] \o piece \in Strings
      BY <1>1, <1>2, ConcatAppend DEF Strings
  <2> QED
      BY <2>1, CutAppend
<1>4. Front(next) \in StringLists /\ Last(next) \in Strings /\ next = Append(Front(next), Last(next))
    BY <1>3, FrontAndLast DEF StringLists
<1>5. /\ UNCHANGED <<jobEditor, asked, written, wired, gone, stage, errHidden, isFiled>>
      /\ taken' = [taken EXCEPT ![s] = @ + 1]
      /\ IF jobEditor = "nvim" THEN Emit(s, Parts(piece)) /\ carry' = carry
         ELSE Emit(s, Front(next)) /\ carry' = [carry EXCEPT ![s] = Last(next)]
    BY DEF HandOver
<1>6. /\ Unbroken(carry[s]) = carry[s] /\ (jobEditor = "nvim" => carry[s] = <<>>)
      /\ Flat(captured[s]) \o carry[s] = Unbroken(text)
      /\ jobEditor # "nvim" \/ EndsItsLines(s) => captured[s] = Front(cut) /\ carry[s] = Last(cut)
  <2>1. Handed(s) /\ taken[s] # Len(written[s])
      BY <1>1 DEF OutInv
  <2> QED
      BY <2>1, Zenon DEF Handed
<1>7. EndsItsLines(s) => Last(piece) = LF
    BY <1>2 DEF EndsItsLines
<1>8. /\ Flat(captured[s]) \in Strings /\ Unbroken(text) \in Strings
      /\ Unbroken(text \o piece) = Unbroken(text) \o Unbroken(piece) /\ Unbroken(piece) \in Strings
    BY <1>1, <1>2, FlatAppend, UnbrokenAppend, UnbrokenConcat
<1>9. /\ Parts(piece) \in StringLists /\ Flat(Parts(piece)) = Unbroken(piece)
      /\ Last(piece) = LF => Parts(piece) = Front(CutLines(piece)) /\ Last(CutLines(piece)) = <<>>
    BY <1>2, PartsOfAPiece
<1>10. /\ Last(cut) \o piece \in Strings /\ text \o piece \in Strings
       /\ Front(CutLines(text \o piece)) = Front(cut) \o Front(CutLines(Last(cut) \o piece))
       /\ Last(CutLines(text \o piece)) = Last(CutLines(Last(cut) \o piece))
    BY <1>2, CutAfter
<1>11. /\ taken' \in [Streams -> Nat] /\ taken'[s] = taken[s] + 1
       /\ \A r \in Streams : taken'[r] <= Len(written[r])
       /\ \A r \in Streams \ {s} : taken'[r] = taken[r]
    BY <1>1, <1>5 DEF OutInv, OutTyped
<1>12. /\ carry' \in [Streams -> Strings] /\ \A r \in Streams \ {s} : carry'[r] = carry[r]
       /\ carry'[s] = IF jobEditor = "nvim" THEN carry[s] ELSE Last(next)
  <2> HIDE DEF next
  <2> QED
      BY <1>4, <1>5 DEF OutInv, OutTyped
<1> DEFINE ls == IF jobEditor = "nvim" THEN Parts(piece) ELSE Front(next)
<1>13. ls \in StringLists /\ Emit(s, ls)
    BY <1>4, <1>5, <1>9
<1>14. Read(s)' = SubSeq(written[s], 1, taken[s] + 1)
    BY <1>5, <1>11 DEF Read
<1>15. Flat(Read(s)') = text \o piece
    BY <1>2, <1>14
<1> HIDE DEF piece, text, cut, next, ls
<1>16. /\ captured' \in [Streams -> StringLists] /\ appended' \in [Streams -> StringLists]
       /\ captured'[s] = captured[s] \o ls
       /\ \A r \in Streams \ {s} : captured'[r] = captured[r]
       /\ \A r \in asked' : Shown(r)'
       /\ stage = "told" => appended' = appended
    BY <1>5, <1>13, EmitShows DEF BuffersStay
<1>17. OutTyped'
    BY <1>5, <1>11, <1>12, <1>16 DEF OutInv, OutTyped
<1>18. /\ Unbroken(carry'[s]) = carry'[s] /\ (jobEditor = "nvim" => carry'[s] = <<>>)
       /\ Flat(captured'[s]) \o carry'[s] = Unbroken(text \o piece)
       /\ jobEditor # "nvim" \/ EndsItsLines(s) =>
             captured'[s] = Front(CutLines(text \o piece)) /\ carry'[s] = Last(CutLines(text \o piece))
  <2>1. CASE jobEditor = "nvim"
    <3>1. carry'[s] = <<>> /\ carry[s] = <<>> /\ captured'[s] = captured[s] \o Parts(piece)
        BY <1>6, <1>12, <1>16, <2>1 DEF ls
    <3>2. Flat(captured'[s]) = Flat(captured[s]) \o Unbroken(piece)
        BY <1>1, <1>9, <3>1, FlatConcat
    <3>3. Flat(captured[s]) \o <<>> = Flat(captured[s])
        BY <1>8, NoText, ConcatAppend DEF Strings
    <3>4. Flat(captured'[s]) = Unbroken(text \o piece)
        BY <1>6, <1>8, <3>1, <3>2, <3>3
    <3>5. Unbroken(text \o piece) \o <<>> = Unbroken(text \o piece)
        BY <1>10, UnbrokenAppend, NoText, ConcatAppend DEF Strings
    <3>6. ASSUME EndsItsLines(s)
          PROVE  captured'[s] = Front(CutLines(text \o piece)) /\ carry'[s] = Last(CutLines(text \o piece))
      <4>1. captured[s] = Front(cut) /\ Last(cut) = <<>>
          BY <1>6, <3>1, <3>6
      <4>2. <<>> \o piece = piece
          BY <1>2, ConcatAppend, NoText DEF Strings
      <4>3. /\ Front(CutLines(text \o piece)) = Front(cut) \o Front(CutLines(piece))
            /\ Last(CutLines(text \o piece)) = Last(CutLines(piece))
          BY <1>10, <4>1, <4>2, Zenon
      <4>4. Parts(piece) = Front(CutLines(piece)) /\ Last(CutLines(piece)) = <<>>
          BY <1>7, <1>9, <3>6
      <4> QED
          BY <3>1, <4>1, <4>3, <4>4, Zenon
    <3>7. Unbroken(<<>>) = <<>>
        BY UnbrokenAppend
    <3>8. Flat(captured'[s]) \o carry'[s] = Unbroken(text \o piece)
        BY <3>1, <3>4, <3>5, Zenon
    <3> QED
        BY <2>1, <3>1, <3>6, <3>7, <3>8
  <2>2. CASE jobEditor # "nvim"
    <3>1. /\ carry'[s] = Last(next) /\ captured'[s] = captured[s] \o Front(next)
          /\ captured[s] = Front(cut) /\ carry[s] = Last(cut)
        BY <1>6, <1>12, <1>16, <2>2 DEF ls
    <3>2. captured'[s] = Front(CutLines(text \o piece)) /\ carry'[s] = Last(CutLines(text \o piece))
        BY <1>10, <3>1 DEF next
    <3>3. /\ Flat(CutLines(text \o piece)) = Unbroken(text \o piece)
          /\ Unbroken(Last(CutLines(text \o piece))) = Last(CutLines(text \o piece))
        BY <1>10, CutKeepsTheText
    <3>4. CutLines(text \o piece) \in StringLists /\ CutLines(text \o piece) # <<>>
        BY <1>10, CutAppend
    <3>5. /\ Front(CutLines(text \o piece)) \in StringLists /\ Last(CutLines(text \o piece)) \in Strings
          /\ CutLines(text \o piece) = Append(Front(CutLines(text \o piece)), Last(CutLines(text \o piece)))
        BY <3>4, FrontAndLast DEF StringLists
    <3>6. Flat(captured'[s]) \o carry'[s] = Flat(CutLines(text \o piece))
      <4>1. Flat(Append(captured'[s], carry'[s])) = Flat(captured'[s]) \o carry'[s]
          BY <3>2, <3>5, FlatAppend
      <4> QED
          BY <3>2, <3>5, <4>1, Zenon
    <3> QED
        BY <2>2, <3>2, <3>3, <3>6
  <2> QED
      BY <2>1, <2>2
<1>19. Handed(s)'
  <2>1. EndsItsLines(s)' = EndsItsLines(s)
      BY <1>5 DEF EndsItsLines
  <2> QED
      BY <1>5, <1>15, <1>18, <2>1 DEF Handed
<1>20. ASSUME NEW r \in Streams, r # s PROVE Handed(r)'
  <2>1. Read(r)' = Read(r) /\ EndsItsLines(r)' = EndsItsLines(r)
      BY <1>5, <1>11, <1>20 DEF Read, EndsItsLines
  <2>2. captured'[r] = captured[r] /\ carry'[r] = carry[r] /\ taken'[r] = taken[r] /\ Handed(r)
      BY <1>11, <1>12, <1>16, <1>20 DEF OutInv
  <2> QED
      BY <1>5, <2>1, <2>2 DEF Handed
<1> QED
    BY <1>5, <1>16, <1>17, <1>19, <1>20 DEF OutInv

LEMMA OutHandOverRest ==
    ASSUME OutInv, NEW s \in Streams, HandOverRest(s)
    PROVE  OutInv'
<1> DEFINE text == Flat(Read(s))
           cut  == CutLines(text)
           ls   == <<carry[s]>>
<1>1. /\ written[s] \in Seq(Strings \ {<<>>}) /\ taken[s] \in Nat /\ taken[s] <= Len(written[s])
      /\ carry[s] \in Strings /\ captured[s] \in StringLists
    BY DEF OutInv, OutTyped
<1>2. /\ stage # "running" /\ taken[s] = Len(written[s]) /\ carry[s] # <<>> /\ Emit(s, ls)
      /\ carry' = [carry EXCEPT ![s] = <<>>]
      /\ UNCHANGED <<jobEditor, asked, written, taken, wired, gone, stage, errHidden, isFiled>>
    BY DEF HandOverRest
<1>3. text \in Strings /\ cut \in StringLists /\ cut # <<>> /\ Flat(cut) = Unbroken(text)
    BY <1>1, ReadOn, CutAppend, CutKeepsTheText DEF Read
<1>4. jobEditor # "nvim" /\ captured[s] = Front(cut) /\ carry[s] = Last(cut)
    BY <1>2 DEF OutInv, Handed
<1>5. ls \in StringLists /\ captured[s] \o ls = Append(captured[s], carry[s])
    BY <1>1 DEF StringLists
<1> HIDE DEF ls
<1>6. /\ captured' \in [Streams -> StringLists] /\ appended' \in [Streams -> StringLists]
      /\ captured'[s] = captured[s] \o ls
      /\ \A r \in Streams \ {s} : captured'[r] = captured[r]
      /\ \A r \in asked' : Shown(r)'
      /\ stage = "told" => appended' = appended
    BY <1>2, <1>5, EmitShows DEF BuffersStay
<1>7. /\ carry' \in [Streams -> Strings] /\ carry'[s] = <<>>
      /\ \A r \in Streams \ {s} : carry'[r] = carry[r]
  <2> DEFINE e == <<>>
  <2>1. e \in Strings /\ carry' = [carry EXCEPT ![s] = e]
      BY <1>2, NoText
  <2> HIDE DEF e
  <2>2. /\ carry' \in [Streams -> Strings] /\ carry'[s] = e
        /\ \A r \in Streams \ {s} : carry'[r] = carry[r]
      BY <2>1 DEF OutInv, OutTyped
  <2> QED
      BY <2>2 DEF e
<1>8. OutTyped'
    BY <1>2, <1>6, <1>7 DEF OutInv, OutTyped
<1>9. Read(s)' = Read(s)
    BY <1>2 DEF Read
<1>10. Handed(s)'
  <2>1. cut = Append(Front(cut), Last(cut))
      BY <1>3, FrontAndLast DEF StringLists
  <2> HIDE DEF cut, text
  <2>2. captured'[s] = cut
      BY <1>4, <1>5, <1>6, <2>1
  <2>3. Flat(cut) \o <<>> = Flat(cut)
    <3>1. Flat(cut) \in Strings
        BY <1>3, FlatAppend
    <3> QED
        BY <3>1, NoText, ConcatAppend DEF Strings
  <2>4. Flat(captured'[s]) \o carry'[s] = Unbroken(text)
      BY <1>3, <1>7, <2>2, <2>3, Zenon
  <2>5. text = Flat(Read(s))' /\ cut = CutLines(Flat(Read(s)))'
      BY <1>9 DEF text, cut
  <2>6. Unbroken(carry'[s]) = carry'[s]
      BY <1>7, UnbrokenAppend
  <2> QED
      BY <1>2, <1>7, <2>2, <2>4, <2>5, <2>6 DEF Handed
<1>11. ASSUME NEW r \in Streams, r # s PROVE Handed(r)'
  <2>1. Read(r)' = Read(r) /\ EndsItsLines(r)' = EndsItsLines(r)
      BY <1>2 DEF Read, EndsItsLines
  <2>2. captured'[r] = captured[r] /\ carry'[r] = carry[r] /\ Handed(r)
      BY <1>6, <1>7, <1>11 DEF OutInv
  <2> QED
      BY <1>2, <2>1, <2>2 DEF Handed
<1> QED
    BY <1>2, <1>6, <1>8, <1>10, <1>11 DEF OutInv

LEMMA OutWrites ==
    ASSUME OutInv, NEW s \in Streams, NEW piece \in Pieces, WriteOut(s, piece)
    PROVE  OutInv'
<1>1. /\ stage = "running" /\ written' = [written EXCEPT ![s] = Append(written[s], piece)]
      /\ UNCHANGED <<jobEditor, asked, taken, carry, captured, appended, wired, gone, stage, errHidden, isFiled>>
    BY DEF WriteOut
<1>2. piece \in Strings \ {<<>>}
    BY OutAssumption
<1>3. ASSUME NEW w \in Seq(Strings \ {<<>>}), NEW n \in Nat, n <= Len(w)
      PROVE  /\ Append(w, piece) \in Seq(Strings \ {<<>>}) /\ Len(Append(w, piece)) = Len(w) + 1
             /\ SubSeq(Append(w, piece), 1, n) = SubSeq(w, 1, n)
             /\ \A i \in DOMAIN w : i \in DOMAIN Append(w, piece) /\ Append(w, piece)[i] = w[i]
    BY <1>2, <1>3
<1>4. /\ written' \in [Streams -> Seq(Strings \ {<<>>})] /\ written'[s] = Append(written[s], piece)
      /\ \A r \in Streams \ {s} : written'[r] = written[r]
  <2> DEFINE A == Seq(Strings \ {<<>>})
             w == Append(written[s], piece)
  <2>1. written \in [Streams -> A] /\ w \in A /\ written' = [written EXCEPT ![s] = w]
      BY <1>1, <1>3 DEF OutInv, OutTyped
  <2> HIDE DEF A, w
  <2>2. /\ written' \in [Streams -> A] /\ written'[s] = w
        /\ \A r \in Streams \ {s} : written'[r] = written[r]
      BY <2>1
  <2> QED
      BY <2>2 DEF A, w
<1>5. OutTyped'
    BY <1>1, <1>3, <1>4 DEF OutInv, OutTyped
<1>6. ASSUME NEW r \in Streams PROVE Handed(r)'
  <2>1. written[r] \in Seq(Strings \ {<<>>}) /\ taken[r] \in Nat /\ taken[r] <= Len(written[r])
      BY DEF OutInv, OutTyped
  <2>2. Read(r)' = Read(r) /\ (EndsItsLines(r)' => EndsItsLines(r))
    <3>1. CASE r = s
        BY <1>1, <1>3, <1>4, <2>1, <3>1 DEF Read, EndsItsLines
    <3>2. CASE r # s
        BY <1>1, <1>4, <3>2 DEF Read, EndsItsLines
    <3> QED
        BY <3>1, <3>2
  <2>3. Handed(r)
      BY DEF OutInv
  <2> QED
      BY <1>1, <2>2, <2>3 DEF Handed
<1>7. \A r \in asked' : Shown(r)'
    BY <1>1 DEF OutInv, Shown
<1> QED
    BY <1>1, <1>5, <1>6, <1>7 DEF OutInv

\* Nothing comes to a stream in the other steps.
LEMMA OutQuiet ==
    ASSUME OutInv, UNCHANGED <<jobEditor, asked, written, taken, carry, captured, appended>>,
           stage' \in {stage, "exited", "told"} /\ (stage' = "running" => stage = "running")
    PROVE  \A s \in Streams : Handed(s)'
<1> SUFFICES ASSUME NEW s \in Streams PROVE Handed(s)'
    OBVIOUS
<1>1. Read(s)' = Read(s) /\ EndsItsLines(s)' = EndsItsLines(s) /\ Handed(s)
    BY DEF Read, EndsItsLines, OutInv
<1> QED
    BY <1>1 DEF Handed

LEMMA OutOther ==
    ASSUME OutInv, EndOut \/ ExitTold \/ \E b \in Streams : WipeOut(b)
    PROVE  OutInv'
<1>1. /\ UNCHANGED <<jobEditor, asked, written, taken, carry, captured, appended>>
      /\ stage' \in {stage, "exited", "told"} /\ (stage' = "running" => stage = "running")
      /\ stage = "told" => stage' = "told" /\ gone' = gone /\ isFiled' = isFiled
      /\ gone \subseteq gone' /\ gone' \subseteq asked
      /\ wired' = IF stage' = "told" \/ "out" \in gone' THEN {} ELSE asked
    BY DEF EndOut, ExitTold, WipeOut, OutInv, OutTyped
<1>2. /\ errHidden' => stage' = "told" /\ appended["err"] = <<>>
      /\ stage' = "told" /\ isFiled' => "err" \in gone'
  <2>1. CASE ExitTold
    <3>1. /\ errHidden' = ("err" \in asked \ gone /\ appended["err"] = <<>>)
          /\ isFiled' = ("err" \in gone) /\ stage' = "told" /\ gone' = gone
        BY <2>1 DEF ExitTold, HideEmptyErrors
    <3>2. (errHidden' => appended["err"] = <<>>) /\ (isFiled' => "err" \in gone')
        BY <3>1, Zenon
    <3> QED
        BY <3>1, <3>2, Zenon
  <2>2. CASE EndOut \/ \E b \in Streams : WipeOut(b)
    <3>1. errHidden' = errHidden /\ isFiled' = isFiled /\ (stage' = "told" => stage = "told") /\ stage # "told"
        BY <2>2 DEF EndOut, WipeOut
    <3> QED
        BY <3>1 DEF OutInv, OutTyped
  <2> QED
      BY <2>1, <2>2
<1>3. OutTyped'
    BY <1>1, <1>2 DEF OutInv, OutTyped
<1>4. \A s \in Streams : Handed(s)'
    BY <1>1, OutQuiet
<1>5. ASSUME NEW s \in asked PROVE Shown(s)'
  <2>1. Shown(s) /\ s \in Streams /\ appended[s] \in StringLists /\ Solid(captured[s]) \in StringLists
      BY SolidAppend DEF OutInv, OutTyped
  <2>2. appended[s] \o <<>> = appended[s] /\ <<>> \in StringLists
      BY <2>1, NoText, ConcatAppend DEF StringLists
  <2>3. \E rest \in StringLists : Solid(captured[s]) = appended[s] \o rest
      BY <2>1, <2>2 DEF Shown
  <2>4. stage' # "told" /\ gone' \cap {s, "out"} = {} => stage # "told" /\ gone \cap {s, "out"} = {}
      BY <1>1
  <2> QED
      BY <1>1, <2>1, <2>3, <2>4 DEF Shown
<1> QED
    BY <1>1, <1>2, <1>3, <1>4, <1>5 DEF OutInv

LEMMA OutSteps == OutInv /\ [OutNext]_outVars => OutInv'
<1> SUFFICES ASSUME OutInv, [OutNext]_outVars PROVE OutInv'
    OBVIOUS
<1>1. CASE UNCHANGED outVars
  <2>1. \A s \in Streams : Handed(s)'
      BY <1>1, OutQuiet DEF outVars
  <2> QED
      BY <1>1, <2>1 DEF outVars, OutInv, OutTyped, Shown
<1>2. CASE OutNext
    BY <1>2, OutWrites, OutHandOver, OutHandOverRest, OutOther DEF OutNext
<1> QED
    BY <1>1, <1>2

LEMMA OutIsKept == OutInv => LinesAreKept /\ BuffersHaveTheLines /\ FiledOnlyIfErrorsAreGone
<1> SUFFICES ASSUME OutInv PROVE LinesAreKept /\ BuffersHaveTheLines /\ FiledOnlyIfErrorsAreGone
    OBVIOUS
<1>1. LinesAreKept
    BY DEF OutInv, Handed, LinesAreKept
<1>2. ASSUME NEW s \in asked
      PROVE  IF stage # "told" /\ gone \cap {s, "out"} = {} THEN appended[s] = Solid(captured[s])
             ELSE IsPrefix(appended[s], Solid(captured[s]))
  <2>1. Shown(s) /\ appended[s] \in StringLists
      BY DEF OutInv, OutTyped
  <2>2. \A rest \in StringLists : IsPrefix(appended[s], appended[s] \o rest)
      BY <2>1 DEF IsPrefix, StringLists
  <2> QED
      BY <2>1, <2>2 DEF Shown
<1> QED
    BY <1>1, <1>2 DEF OutInv, BuffersHaveTheLines, FiledOnlyIfErrorsAreGone

\* The characters of a command are kept, and its lines as long as Neovim is not handed
\* a part of one; its buffers have the lines until the exit is told (command_runner).
THEOREM CommandOutputIsKept ==
    OutSpec => [](LinesAreKept /\ BuffersHaveTheLines /\ FiledOnlyIfErrorsAreGone)
    BY OutStarts, OutSteps, OutIsKept, PTL DEF OutSpec

------------------------------------------------------------------------------
(* Together: what the specifications beside each other require.             *)

\* What different parties put into one place stays apart: keys of their events, files of
\* their folders (shared/lib/keymap, shared/pytoy_configuration).
THEOREM OthersAreKept == KeySpec /\ ConfSpec => []OthersStay
<1>1. KeyInv /\ ConfInv => OthersStay
    BY DEF KeyInv, ConfInv, OthersStay, FolderOfTheDay
<1> QED
    BY KeysFireEvents, KeysCanBeAskedFor, ValuesAreKept, FolderIsThere, PTL DEF OthersStay

\* What is looked up and asked agrees with what was stored, for environments, tasks of the
\* language model and kernels (environment_manager, tools/llm).
THEOREM AnswersFit == EnvSpec /\ TaskSpec /\ KernelSpec => []AnswersAgree
<1> QED
    BY UvInProjects, LookupsFit, QuestionsAreOfOne, ReferencesAreRead, QuotesFit, LanguageIsFound,
       KernelsStay, KernelsAreNotNested, PTL DEF AnswersAgree

\* What was printed while a screen hears of it, and what an emulator was fed, is shown
\* or on its way there (stdout_rescuer, terminal_runner).
THEOREM OutputSeen == ProxySpec /\ ScreenSpec => []OutputIsSeen
<1> QED
    BY ProxyShowsPrinted, ScreenIsSeen, PTL DEF OutputIsSeen

\* The characters of a command and of the program of a terminal come in order and none
\* is skipped: the lines of a command stay but for parts on Neovim, and what a terminal
\* does not show is being fed or not read (command_runner, terminal_runner).
THEOREM OutputKept == OutSpec /\ ScreenSpec => []OutputIsKept
<1> QED
    BY CommandOutputIsKept, ScreenIsFed, ReadToItsEnd, PTL DEF OutputIsKept
===============================================================================
