------------------------- MODULE TerminalInputProofs -------------------------
(***************************************************************************)
(* Proofs about TerminalInput, for any sends and any operations of theirs. *)
(***************************************************************************)
EXTENDS TerminalInput, FiniteSetTheorems, WellFoundedInduction,
        SequenceTheorems, TLAPS

USE DEF job, loop

\* The thread of a send has done some of its operations, or has not begun.
AtTyped == \A s \in Sends : at[s] \in -1 .. Len(Ops[s])

\* Only Neovim has an input thread, and it is told to end only when the process
\* is gone.
OneThread ==
    /\ editor # "nvim" => thread = "ended" /\ posted = 0
    /\ running => alive

\* The first n operations have been taken from the queue: the rest is in it, as
\* long as the thread runs.
Taken(n) ==
    /\ thread # "ended" =>
          /\ alive => Len(queue) = Len(requested) - n
          /\ \A k \in 1 .. Len(queue) : queue[k] = NoText \/
                (n + k \in 1 .. Len(requested) /\ queue[k] = requested[n + k])
    /\ thread \in {"deal", "post"} => n > 0 /\ op = requested[n]
    /\ thread = "post" => payload = op /\ IsText(op)

\* Texts are among the first n operations.
Among(texts, os, n) ==
    \A i \in 1 .. Len(texts) : texts[i] = NoText \/ \E m \in 1 .. n : texts[i] = os[m]

\* The operations among the first n that the thread is done with.
Done(n) == IF thread \in {"deal", "post"} THEN n - 1 ELSE n

\* What was written or posted does not exceed the texts dealt with, and what
\* payload holds is the last of them, or none.
Counted(n) ==
    /\ Len(sent) + posted <= TextsUpTo(requested, Done(n))
    /\ Among(sent, requested, n)
    /\ payload # NoText => \E m \in 1 .. n :
          /\ IsText(payload) /\ payload = requested[m]
          /\ Len(sent) + posted <= TextsUpTo(requested, m)
          /\ Among(sent, requested, m)

\* While payload was never changed under a waiting lambda: what was written is in
\* its place, and while the process runs one lambda at most waits, none once the
\* thread holds the next text, and all texts dealt with are written but its own.
InTurn(n) == ~overtaken =>
    /\ InPlace(sent, requested)
    /\ running =>
          /\ Len(sent) + posted = TextsUpTo(requested, Done(n))
          /\ posted = 0 \/ (posted = 1 /\ thread # "post")
          /\ posted = 1 => \E m \in 1 .. n :
                /\ IsText(payload) /\ payload = requested[m]
                /\ Len(sent) + 1 = TextsUpTo(requested, m)

NvimWrites ==
    editor = "nvim" => \E n \in 0 .. Len(requested) : Taken(n) /\ Counted(n) /\ InTurn(n)

\* The threads of VSCode have written texts they are done with only, and, while
\* the process runs, all of them.
OnlyDone(texts, done) ==
    \A k \in 1 .. Len(texts) : \E s \in Sends : \E i \in 1 .. done[s] :
        texts[k] = <<s, i>> /\ IsText(<<s, i>>)

AllDone(texts, done) ==
    \A s \in Sends : \A i \in 1 .. done[s] :
        IsText(<<s, i>>) => \E k \in 1 .. Len(texts) : texts[k] = <<s, i>>

VSCodeWrites ==
    editor = "vscode" => OnlyDone(sent, at) /\ (running => AllDone(sent, at))

IInv ==
    /\ ConstantsOK
    /\ TypeOK
    /\ AtTyped
    /\ OneThread
    /\ NvimWrites
    /\ VSCodeWrites
    /\ WritesInOrder

-----------------------------------------------------------------------------
(***************************************************************************)
(* Texts.  A set of naturals that holds 0, and n + 1 whenever it holds n,  *)
(* is all of them: the least that is missing has one before it.            *)
(***************************************************************************)
LEMMA NatInduction1 ==
    ASSUME NEW S, 0 \in S, \A n \in Nat : n \in S => n + 1 \in S
    PROVE  \A n \in Nat : n \in S
<1>. SUFFICES ASSUME Nat \ S # {}  PROVE FALSE
  OBVIOUS
<1>1. PICK n \in Nat \ S : \A m \in Nat \ S : ~ (<<m, n>> \in OpToRel(<, Nat))
  BY NatLessThanWellFounded, WFMin
<1>2. n # 0
  OBVIOUS
<1>3. n - 1 \in Nat /\ n - 1 < n /\ (n - 1) + 1 = n
  BY <1>2
<1>4. n - 1 \notin S
  BY <1>3
<1>5. <<n - 1, n>> \in OpToRel(<, Nat)
  BY <1>3 DEF OpToRel
<1>. QED  BY <1>1, <1>3, <1>4, <1>5

\* One more operation: its text, if it is one, comes behind the texts so far.
With(texts, o) == IF IsText(o) THEN Append(texts, o) ELSE texts

\* The texts among the first n operations, for every n up to their number.
IsTexts(f, os, n) ==
    f = [i \in 0 .. n |-> IF i = 0 THEN <<>> ELSE With(f[i - 1], os[i])]

\* There is a function that gives them, whatever the operations are.
LEMMA TextsExist ==
    ASSUME NEW os, NEW n \in Nat
    PROVE  \E f : IsTexts(f, os, n)
<1>. DEFINE S == {k \in Nat : \E f : IsTexts(f, os, k)}
<1>1. 0 \in S
  <2>. DEFINE f == [i \in 0 .. 0 |-> <<>>]
  <2>1. f = [i \in 0 .. 0 |-> IF i = 0 THEN <<>> ELSE With(f[i - 1], os[i])]
    OBVIOUS
  <2>. QED  BY <2>1 DEF IsTexts
<1>2. ASSUME NEW k \in Nat, k \in S  PROVE k + 1 \in S
  <2>1. PICK f : IsTexts(f, os, k)
    BY <1>2
  <2>. DEFINE g == [i \in 0 .. (k + 1) |-> IF i = k + 1 THEN With(f[k], os[k + 1]) ELSE f[i]]
  <2>2. ASSUME NEW i \in 0 .. (k + 1)
        PROVE  g[i] = IF i = 0 THEN <<>> ELSE With(g[i - 1], os[i])
    <3>1. CASE i = k + 1
      <4>1. g[i] = With(f[k], os[k + 1]) /\ i # 0 /\ i - 1 = k /\ g[k] = f[k]
        BY <3>1
      <4>. QED  BY <3>1, <4>1
    <3>2. CASE i # k + 1 /\ i # 0
      <4>1. i \in 0 .. k /\ i - 1 \in 0 .. k /\ g[i] = f[i] /\ g[i - 1] = f[i - 1]
        BY <3>2
      <4>2. f[i] = With(f[i - 1], os[i])
        BY <2>1, <3>2, <4>1 DEF IsTexts
      <4>. QED  BY <3>2, <4>1, <4>2
    <3>3. CASE i = 0
      <4>1. g[0] = f[0] /\ f[0] = <<>>
        BY <2>1 DEF IsTexts
      <4>. QED  BY <3>3, <4>1
    <3>. QED  BY <3>1, <3>2, <3>3
  <2>3. g = [i \in 0 .. (k + 1) |-> g[i]]
    OBVIOUS
  <2>. HIDE DEF g
  <2>4. g = [i \in 0 .. (k + 1) |-> IF i = 0 THEN <<>> ELSE With(g[i - 1], os[i])]
    BY <2>2, <2>3
  <2>. QED  BY <2>4 DEF IsTexts
<1>. HIDE DEF S
<1>3. n \in S
  BY <1>1, <1>2, NatInduction1
<1>. QED  BY <1>3 DEF S

\* Texts takes it.
LEMMA TextsByOne ==
    ASSUME NEW os, Len(os) \in Nat
    PROVE  \E f : IsTexts(f, os, Len(os)) /\ Texts(os) = f[Len(os)]
<1>. DEFINE f == CHOOSE g : IsTexts(g, os, Len(os))
<1>1. IsTexts(f, os, Len(os))
  BY TextsExist
<1>2. Texts(os) = f[Len(os)]
  BY DEF Texts, IsTexts, With
<1>. QED  BY <1>1, <1>2

\* Texts of operations are operations.
LEMMA TextsTyped ==
    ASSUME NEW A, NEW os \in Seq(A)
    PROVE  Texts(os) \in Seq(A)
<1>1. Len(os) \in Nat /\ \A i \in 1 .. Len(os) : os[i] \in A
  OBVIOUS
<1>2. PICK f : IsTexts(f, os, Len(os)) /\ Texts(os) = f[Len(os)]
  BY <1>1, TextsByOne
<1>. DEFINE S == {k \in Nat : k <= Len(os) => f[k] \in Seq(A)}
<1>3. 0 \in S
  <2>1. f[0] = <<>>
    BY <1>1, <1>2 DEF IsTexts
  <2>2. <<>> \in Seq(A)
    OBVIOUS
  <2>3. f[0] \in Seq(A)
    BY Zenon, <2>1, <2>2
  <2>. QED  BY <2>3
<1>4. ASSUME NEW k \in Nat, k \in S  PROVE k + 1 \in S
  <2>1. ASSUME k + 1 <= Len(os)  PROVE f[k + 1] \in Seq(A)
    <3>1. f[k] \in Seq(A) /\ os[k + 1] \in A
      BY <1>1, <1>4, <2>1
    <3>2. f[k + 1] = With(f[k], os[k + 1])
      <4>1. k + 1 \in 0 .. Len(os) /\ k + 1 # 0 /\ (k + 1) - 1 = k
        BY <1>1, <2>1
      <4>. QED  BY <1>2, <4>1 DEF IsTexts
    <3>3. With(f[k], os[k + 1]) \in Seq(A)
      BY <3>1 DEF With
    <3>. QED  BY <3>2, <3>3
  <2>. QED  BY <2>1
<1>. HIDE DEF S
<1>5. Len(os) \in S
  BY <1>1, <1>3, <1>4, NatInduction1
<1>. QED  BY <1>2, <1>5 DEF S

\* The texts of operations behind one another are those of the first, and then
\* those of the second.
LEMMA TextsConcat ==
    ASSUME NEW A, NEW a \in Seq(A), NEW b \in Seq(A)
    PROVE  Texts(a \o b) = Texts(a) \o Texts(b)
<1>. DEFINE n == Len(a)
            m == Len(b)
            ab == a \o b
<1>1. /\ n \in Nat /\ m \in Nat /\ n + m \in Nat /\ Len(ab) = n + m
      /\ \A i \in 1 .. n : ab[i] = a[i]
      /\ \A i \in 1 .. m : ab[n + i] = b[i] /\ b[i] \in A
  OBVIOUS
<1>2. PICK f : IsTexts(f, a, n) /\ Texts(a) = f[n]
  BY <1>1, TextsByOne
<1>3. PICK g : IsTexts(g, b, m) /\ Texts(b) = g[m]
  BY <1>1, TextsByOne
<1>4. \E h : IsTexts(h, ab, Len(ab)) /\ Texts(ab) = h[Len(ab)]
  <2>. HIDE DEF ab, n, m
  <2>. QED  BY <1>1, TextsByOne
<1>5. PICK h : IsTexts(h, ab, n + m) /\ Texts(ab) = h[n + m]
  BY <1>1, <1>4
<1>. HIDE DEF n, m, ab
<1>6. f[0] = <<>> /\ g[0] = <<>> /\ h[0] = <<>>
  BY <1>1, <1>2, <1>3, <1>5 DEF IsTexts
<1>7. ASSUME NEW k \in Nat, k < n  PROVE f[k + 1] = With(f[k], a[k + 1])
  <2>1. k + 1 \in 0 .. n /\ k + 1 # 0 /\ (k + 1) - 1 = k
    BY <1>1, <1>7
  <2>. QED  BY <1>2, <2>1 DEF IsTexts
<1>8. ASSUME NEW k \in Nat, k < m  PROVE g[k + 1] = With(g[k], b[k + 1])
  <2>1. k + 1 \in 0 .. m /\ k + 1 # 0 /\ (k + 1) - 1 = k
    BY <1>1, <1>8
  <2>. QED  BY <1>3, <2>1 DEF IsTexts
<1>9. ASSUME NEW k \in Nat, k < n + m  PROVE h[k + 1] = With(h[k], ab[k + 1])
  <2>1. k + 1 \in 0 .. n + m /\ k + 1 # 0 /\ (k + 1) - 1 = k
    BY <1>1, <1>9
  <2>. QED  BY <1>5, <2>1 DEF IsTexts
<1>10. h[n] = f[n] /\ f[n] \in Seq(A)
  <2>. DEFINE S == {k \in Nat : k <= n => h[k] = f[k]}
  <2>1. 0 \in S
    <3>1. h[0] = f[0]
      BY <1>6, Zenon
    <3>. QED  BY <3>1
  <2>2. ASSUME NEW k \in Nat, k \in S  PROVE k + 1 \in S
    <3>1. ASSUME k + 1 <= n  PROVE h[k + 1] = f[k + 1]
      <4>1. k < n /\ k < n + m /\ h[k] = f[k] /\ ab[k + 1] = a[k + 1]
        BY <1>1, <2>2, <3>1
      <4>. QED  BY <1>7, <1>9, <4>1
    <3>. QED  BY <3>1
  <2>. HIDE DEF S
  <2>3. n \in S
    BY <1>1, <2>1, <2>2, NatInduction1
  <2>4. f[n] \in Seq(A)
    BY <1>2, TextsTyped
  <2>. QED  BY <1>1, <2>3, <2>4 DEF S
<1>. DEFINE fn == f[n]
            T == {k \in Nat : k <= m => g[k] \in Seq(A) /\ h[n + k] = fn \o g[k]}
<1>11. fn \in Seq(A) /\ h[n] = fn /\ Texts(a) = fn
  BY <1>2, <1>10
<1>. HIDE DEF fn
<1>12. 0 \in T
  <2>1. fn \o <<>> = fn /\ <<>> \in Seq(A)
    BY <1>11
  <2>2. n + 0 = n
    BY <1>1
  <2>3. g[0] \in Seq(A) /\ h[n + 0] = fn \o g[0]
    BY Zenon, <1>6, <1>11, <2>1, <2>2
  <2>. QED  BY <2>3
<1>13. ASSUME NEW k \in Nat, k \in T  PROVE k + 1 \in T
  <2>1. ASSUME k + 1 <= m  PROVE g[k + 1] \in Seq(A) /\ h[n + (k + 1)] = fn \o g[k + 1]
    <3>1. k < m /\ k + 1 \in 1 .. m /\ n + k \in Nat /\ n + k < n + m
          /\ (n + k) + 1 = n + (k + 1) /\ k <= m
      BY <1>1, <2>1
    <3>2. g[k] \in Seq(A) /\ h[n + k] = fn \o g[k]
      BY <1>13, <3>1
    <3>3. g[k + 1] = With(g[k], b[k + 1]) /\ b[k + 1] \in A
      BY <1>1, <1>8, <3>1
    <3>4. h[(n + k) + 1] = With(h[n + k], ab[(n + k) + 1])
      BY <1>9, <3>1
    <3>5. ab[(n + k) + 1] = b[k + 1]
      BY <1>1, <3>1
    <3>6. With(g[k], b[k + 1]) \in Seq(A)
          /\ With(fn \o g[k], b[k + 1]) = fn \o With(g[k], b[k + 1])
      <4>. DEFINE x == g[k]  o == b[k + 1]
      <4>1. x \in Seq(A) /\ o \in A
        BY <3>2, <3>3
      <4>. HIDE DEF x, o
      <4>2. Append(x, o) \in Seq(A) /\ Append(fn \o x, o) \in Seq(A) /\ fn \o Append(x, o) \in Seq(A)
        BY <1>11, <4>1
      <4>3. Append(fn \o x, o) = fn \o Append(x, o)
        <5>1. Len(Append(fn \o x, o)) = Len(fn \o Append(x, o))
          BY <1>11, <4>1
        <5>2. ASSUME NEW i \in 1 .. Len(Append(fn \o x, o))
              PROVE  Append(fn \o x, o)[i] = (fn \o Append(x, o))[i]
          BY <1>11, <4>1
        <5>. QED  BY <4>2, <5>1, <5>2, SeqEqual
      <4>. QED  BY <4>1, <4>2, <4>3 DEF With, x, o
    <3>7. h[n + (k + 1)] = With(h[n + k], b[k + 1])
      BY Zenon, <3>1, <3>4, <3>5
    <3>. QED  BY Zenon, <3>2, <3>3, <3>6, <3>7
  <2>. QED  BY <2>1
<1>14. m \in T
  <2>. HIDE DEF T
  <2>. QED  BY <1>1, <1>12, <1>13, NatInduction1
<1>15. h[n + m] = fn \o g[m]
  BY <1>1, <1>14
<1>. QED  BY Zenon, <1>3, <1>5, <1>11, <1>15 DEF ab

-----------------------------------------------------------------------------
(***************************************************************************)
(* Counting texts.                                                         *)
(***************************************************************************)

\* It begins with none.
LEMMA CountBegins == ASSUME NEW os PROVE TextsUpTo(os, 0) = 0
<1>1. {m \in 1 .. 0 : IsText(os[m])} = {}
  OBVIOUS
<1>. QED  BY <1>1, FS_EmptySet DEF TextsUpTo

\* The count is a number; it grows with a text, stays without, and never falls.
LEMMA CountGrows ==
    ASSUME NEW os, NEW n \in Nat
    PROVE  /\ TextsUpTo(os, n) \in Nat
           /\ TextsUpTo(os, n) <= TextsUpTo(os, n + 1)
           /\ IsText(os[n + 1]) => TextsUpTo(os, n + 1) = TextsUpTo(os, n) + 1
           /\ ~IsText(os[n + 1]) => TextsUpTo(os, n + 1) = TextsUpTo(os, n)
<1>. DEFINE T(k) == {m \in 1 .. k : IsText(os[m])}
<1>1. IsFiniteSet(1 .. n) /\ IsFiniteSet(1 .. (n + 1))
  BY FS_Interval
<1>2. IsFiniteSet(T(n)) /\ IsFiniteSet(T(n + 1))
  BY <1>1, FS_Subset
<1>3. Cardinality(T(n)) \in Nat /\ Cardinality(T(n)) <= Cardinality(T(n + 1))
  <2>1. T(n) \subseteq T(n + 1)
    OBVIOUS
  <2>. HIDE DEF T
  <2>. QED  BY <1>2, <2>1, FS_CardinalityType, FS_Subset
<1>4. ASSUME IsText(os[n + 1])  PROVE Cardinality(T(n + 1)) = Cardinality(T(n)) + 1
  <2>1. T(n + 1) = T(n) \cup {n + 1} /\ n + 1 \notin T(n)
    BY <1>4
  <2>. HIDE DEF T
  <2>. QED  BY <1>2, <2>1, FS_AddElement
<1>5. ASSUME ~IsText(os[n + 1])  PROVE Cardinality(T(n + 1)) = Cardinality(T(n))
  <2>1. T(n + 1) = T(n)
    BY <1>5
  <2>. QED  BY Zenon, <2>1
<1>. QED  BY <1>3, <1>4, <1>5 DEF TextsUpTo

LEMMA CountIsMonotonic ==
    ASSUME NEW os, NEW n \in Nat, NEW m \in 0 .. n
    PROVE  TextsUpTo(os, m) <= TextsUpTo(os, n)
<1>. DEFINE T(k) == {i \in 1 .. k : IsText(os[i])}
<1>1. IsFiniteSet(T(n))
  <2>1. IsFiniteSet(1 .. n)
    BY FS_Interval
  <2>. QED  BY <2>1, FS_Subset
<1>2. T(m) \subseteq T(n)
  OBVIOUS
<1>. HIDE DEF T
<1>3. Cardinality(T(m)) <= Cardinality(T(n))
  BY <1>1, <1>2, FS_Subset
<1>. QED  BY <1>3 DEF TextsUpTo, T

\* It depends on those operations only.
LEMMA CountIsLocal ==
    ASSUME NEW os, NEW ps, NEW n \in Nat, \A i \in 1 .. n : os[i] = ps[i]
    PROVE  TextsUpTo(os, n) = TextsUpTo(ps, n)
<1>1. {i \in 1 .. n : IsText(os[i])} = {i \in 1 .. n : IsText(ps[i])}
  OBVIOUS
<1>. QED  BY <1>1 DEF TextsUpTo

-----------------------------------------------------------------------------
(***************************************************************************)
(* Types, and what is left of the threads that are not there.              *)
(***************************************************************************)
LEMMA OperationsTyped ==
    ASSUME ConstantsOK, NEW s \in Sends
    PROVE  /\ Len(Ops[s]) \in Nat /\ \A i \in 1 .. Len(Ops[s]) : <<s, i>> \in AllOperations
           /\ Operations(s) \in Seq(AllOperations) /\ Len(Operations(s)) = Len(Ops[s])
           /\ \A i \in 1 .. Len(Ops[s]) : Operations(s)[i] = <<s, i>>
<1>1. Len(Ops[s]) \in Nat
  BY DEF ConstantsOK
<1>2. \A i \in 1 .. Len(Ops[s]) : <<s, i>> \in AllOperations
  BY DEF AllOperations
<1>. DEFINE n == Len(Ops[s])
<1>. HIDE DEF n
<1>3. [i \in 1 .. n |-> <<s, i>>] \in Seq(AllOperations)
      /\ Len([i \in 1 .. n |-> <<s, i>>]) = n
  BY <1>1, <1>2 DEF n
<1>. QED  BY <1>1, <1>2, <1>3 DEF Operations, n

LEMMA InitHolds == ConstantsOK /\ Init => IInv
<1>. SUFFICES ASSUME ConstantsOK, Init  PROVE IInv
  OBVIOUS
<1>. USE DEF Init
<1>1. TypeOK /\ OneThread
  <2>1. overtaken \in BOOLEAN
    OBVIOUS
  <2>. QED  BY <2>1 DEF TypeOK, OneThread, NoText
<1>2. AtTyped
  <2>1. \A s \in Sends : Len(Ops[s]) \in Nat
    BY DEF ConstantsOK
  <2>. QED  BY <2>1 DEF AtTyped
<1>3. VimWrites
  <2>1. Len(<<>>) = 0
    OBVIOUS
  <2>2. Texts(<<>>) = <<>>
    <3>1. PICK f : IsTexts(f, <<>>, Len(<<>>)) /\ Texts(<<>>) = f[Len(<<>>)]
      BY <2>1, TextsByOne
    <3>. QED  BY <2>1, <3>1 DEF IsTexts
  <2>. QED  BY <2>2 DEF VimWrites
<1>4. NvimWrites
  <2>1. Len(requested) = 0 /\ Len(queue) = 0 /\ Len(sent) = 0
    OBVIOUS
  <2>2. TextsUpTo(requested, 0) \in Nat
    BY CountGrows
  <2>3. Taken(0)
    BY <2>1 DEF Taken
  <2>4. editor = "nvim" => Counted(0)
    BY <2>1, <2>2 DEF Counted, Among, Done
  <2>5. TextsUpTo(requested, 0) = 0
    BY CountBegins
  <2>6. editor = "nvim" => InTurn(0)
    BY <2>1, <2>5 DEF InTurn, InPlace, Done
  <2>. QED  BY <2>1, <2>3, <2>4, <2>6 DEF NvimWrites
<1>5. VSCodeWrites
  <2>1. \A s \in Sends : 1 .. at[s] = {}
    OBVIOUS
  <2>. QED  BY <2>1 DEF VSCodeWrites, OnlyDone, AllDone
<1>6. WritesInOrder
  <2>1. Len(requested) = 0 /\ Len(sent) = 0
    OBVIOUS
  <2>2. TextsUpTo(requested, Len(requested)) \in Nat
    BY <2>1, CountGrows
  <2>. QED  BY <1>3, <2>1, <2>2 DEF WritesInOrder, NeverSendsOlder, EachSendInOrder,
       InPlaceUnlessOvertaken, InPlace, NoneOlder, InTheirOrder
<1>. QED  BY <1>1, <1>2, <1>3, <1>4, <1>5, <1>6 DEF IInv

LEMMA TypeKeeps ==
    ASSUME ConstantsOK, TypeOK, AtTyped, OneThread, Next
    PROVE  TypeOK' /\ AtTyped' /\ OneThread'
<1>1. ASSUME NEW s \in Sends, Send(s)  PROVE TypeOK' /\ AtTyped' /\ OneThread'
  <2>. USE <1>1 DEF Send
  <2>1. Operations(s) \in Seq(AllOperations) /\ Len(Ops[s]) \in Nat
    BY OperationsTyped
  <2>2. Texts(Operations(s)) \in Seq(AllOperations)
    BY <2>1, TextsTyped
  <2>3. requested' \in Seq(AllOperations)
    BY <2>1 DEF TypeOK
  <2>. DEFINE All == AllOperations \cup {NoText}
  <2>4. Operations(s) \in Seq(All) /\ Texts(Operations(s)) \in Seq(All)
    BY <2>1, <2>2, SeqMonotonic
  <2>5. queue \in Seq(All) /\ sent \in Seq(All)
    BY DEF TypeOK
  <2>. HIDE DEF All
  <2>6. queue' \in Seq(All) /\ sent' \in Seq(All)
    BY <2>4, <2>5
  <2>. QED  BY <2>1, <2>3, <2>6 DEF TypeOK, AtTyped, OneThread, All
<1>2. ASSUME NEW s \in Sends, SendStep(s)  PROVE TypeOK' /\ AtTyped' /\ OneThread'
  <2>. USE <1>2 DEF SendStep
  <2>1. at[s] \in 0 .. (Len(Ops[s]) - 1) /\ Len(Ops[s]) \in Nat
    BY OperationsTyped
  <2>2. at' \in [Sends -> Int] /\ at'[s] = at[s] + 1 /\ at'[s] \in 1 .. Len(Ops[s])
        /\ \A r \in Sends \ {s} : at'[r] = at[r]
    BY <2>1 DEF TypeOK
  <2>3. <<s, at'[s]>> \in AllOperations
    BY <2>2, OperationsTyped
  <2>4. sent' \in Seq(AllOperations \cup {NoText})
    BY <2>3 DEF TypeOK
  <2>. QED  BY <2>1, <2>2, <2>4 DEF TypeOK, AtTyped, OneThread
<1>3. ASSUME RunPosted  PROVE TypeOK' /\ AtTyped' /\ OneThread'
  <2>1. sent' \in Seq(AllOperations \cup {NoText})
    BY <1>3 DEF RunPosted, TypeOK
  <2>. QED  BY <1>3, <2>1 DEF RunPosted, TypeOK, AtTyped, OneThread
<1>4. ASSUME Terminate \/ Dies  PROVE TypeOK' /\ AtTyped' /\ OneThread'
  <2>1. handle' \in BOOLEAN
    BY <1>4 DEF Terminate, Dies, TypeOK
  <2>2. running' \in BOOLEAN /\ (running' => running)
    BY <1>4 DEF Terminate, Dies, TypeOK
  <2>3. UNCHANGED <<editor, loop, posted, at, requested, sent, overtaken>>
    BY <1>4 DEF Terminate, Dies
  <2>. QED  BY <2>1, <2>2, <2>3 DEF TypeOK, AtTyped, OneThread
<1>8. ASSUME Dispose  PROVE TypeOK' /\ AtTyped' /\ OneThread'
  <2>1. queue' \in Seq(AllOperations \cup {NoText})
    BY <1>8 DEF Dispose, TypeOK
  <2>. QED  BY <1>8, <2>1 DEF Dispose, TypeOK, AtTyped, OneThread
<1>5. ASSUME Check \/ PostPayload  PROVE TypeOK' /\ AtTyped' /\ OneThread'
  BY <1>5 DEF Check, PostPayload, TypeOK, AtTyped, OneThread
<1>6. ASSUME Get  PROVE TypeOK' /\ AtTyped' /\ OneThread'
  <2>. USE <1>6 DEF Get
  <2>. DEFINE All == AllOperations \cup {NoText}
  <2>1. queue \in Seq(All) /\ op \in All
    BY DEF TypeOK
  <2>. HIDE DEF All
  <2>2. CASE queue = <<>>
    BY <2>2 DEF TypeOK, AtTyped, OneThread
  <2>3. CASE queue # <<>>
    <3>1. Head(queue) \in All /\ Tail(queue) \in Seq(All)
      BY <2>1, <2>3
    <3>2. queue' \in Seq(All) /\ op' \in All /\ thread' \in {"ended", "deal"}
          /\ (thread' = "deal" => op' # NoText)
      BY <2>3, <3>1
    <3>. QED  BY <3>2 DEF TypeOK, AtTyped, OneThread, All
  <2>. QED  BY <2>2, <2>3
<1>7. ASSUME Deal  PROVE TypeOK' /\ AtTyped' /\ OneThread'
  <2>1. payload' \in {op, NoText, payload} /\ thread' \in {"post", "check"}
    BY <1>7 DEF Deal
  <2>. QED  BY <1>7, <2>1 DEF Deal, TypeOK, AtTyped, OneThread
<1>. QED  BY <1>1, <1>2, <1>3, <1>4, <1>5, <1>6, <1>7, <1>8 DEF Next, LoopStep

-----------------------------------------------------------------------------
(***************************************************************************)
(* Vim.                                                                    *)
(***************************************************************************)
LEMMA VimKeeps ==
    ASSUME IInv, Next
    PROVE  VimWrites'
<1>. SUFFICES ASSUME editor' = "vim"  PROVE sent' = Texts(requested')
  BY DEF VimWrites
<1>1. editor' = editor
  BY DEF Next, LoopStep, Send, SendStep, RunPosted, Terminate, Dies, Dispose, Check, Get, Deal,
     PostPayload
<1>2. sent = Texts(requested) /\ posted = 0
  BY <1>1 DEF IInv, WritesInOrder, VimWrites, OneThread
<1>3. ASSUME NEW s \in Sends, Send(s)  PROVE sent' = Texts(requested')
  <2>1. requested \in Seq(AllOperations) /\ Operations(s) \in Seq(AllOperations)
    BY OperationsTyped DEF IInv, TypeOK
  <2>2. Texts(requested \o Operations(s)) = Texts(requested) \o Texts(Operations(s))
    BY <2>1, TextsConcat
  <2>. QED  BY <1>1, <1>2, <1>3, <2>2 DEF Send
<1>4. ASSUME UNCHANGED <<requested, sent>>  PROVE sent' = Texts(requested')
  BY <1>2, <1>4
<1>5. ~RunPosted /\ \A s \in Sends : ~SendStep(s)
  BY <1>1, <1>2 DEF RunPosted, SendStep
<1>6. Terminate \/ Dies \/ Dispose \/ LoopStep => UNCHANGED <<requested, sent>>
  BY DEF LoopStep, Terminate, Dies, Dispose, Check, Get, Deal, PostPayload
<1>. QED  BY <1>3, <1>4, <1>5, <1>6 DEF Next

-----------------------------------------------------------------------------
(***************************************************************************)
(* VSCode.                                                                 *)
(***************************************************************************)

\* What writes nothing and takes nothing up keeps the order of VSCode's threads.
LEMMA VSCodeStays ==
    ASSUME VSCodeWrites, EachSendInOrder, sent' = sent, editor' = editor, running' => running,
           \A s \in Sends : 1 .. at'[s] = 1 .. at[s]
    PROVE  VSCodeWrites' /\ EachSendInOrder'
<1>1. EachSendInOrder'
  BY DEF EachSendInOrder
<1>2. OnlyDone(sent, at) => OnlyDone(sent, at')
  BY DEF OnlyDone
<1>3. AllDone(sent, at) => AllDone(sent, at')
  BY DEF AllDone
<1>. QED  BY <1>1, <1>2, <1>3 DEF VSCodeWrites

\* The next text of a send is written: it is new, and behind those before it.
LEMMA AppendInOrder ==
    ASSUME ConstantsOK, NEW texts \in Seq(AllOperations \cup {NoText}),
           NEW done \in [Sends -> Int], NEW s \in Sends, done[s] \in 0 .. (Len(Ops[s]) - 1),
           OnlyDone(texts, done), AllDone(texts, done), InTheirOrder(texts),
           NEW next, next = [done EXCEPT ![s] = @ + 1],
           NEW new, new = IF IsText(<<s, next[s]>>) THEN Append(texts, <<s, next[s]>>) ELSE texts
    PROVE  OnlyDone(new, next) /\ AllDone(new, next) /\ InTheirOrder(new)
<1>. DEFINE n == done[s] + 1
            o == <<s, next[s]>>
            k == Len(texts)
<1>1. /\ n \in Nat \ {0} /\ k \in Nat /\ done[s] = n - 1
      /\ next[s] = n /\ \A r \in Sends \ {s} : next[r] = done[r]
      /\ \A r \in Sends : done[r] \in Int
      /\ o = <<s, n>>
  BY OperationsTyped
<1>2. \A r \in Sends : 1 .. done[r] \subseteq 1 .. next[r]
  BY <1>1
<1>. HIDE DEF n, k
<1>3. OnlyDone(texts, next)
  <2>1. ASSUME NEW i \in 1 .. Len(texts)
        PROVE  \E r \in Sends : \E m \in 1 .. next[r] : texts[i] = <<r, m>> /\ IsText(<<r, m>>)
    <3>1. PICK r \in Sends : \E m \in 1 .. done[r] : texts[i] = <<r, m>> /\ IsText(<<r, m>>)
      BY DEF OnlyDone
    <3>. QED  BY <1>2, <3>1
  <2>. QED  BY <2>1 DEF OnlyDone
<1>4. ASSUME NEW r \in Sends, NEW m \in 1 .. next[r], <<r, m>> # <<s, n>>
      PROVE  m \in 1 .. done[r]
  BY <1>1, <1>4
<1>5. CASE ~IsText(o)
  <2>1. ASSUME NEW r \in Sends, NEW m \in 1 .. next[r], IsText(<<r, m>>)
        PROVE  \E i \in 1 .. Len(texts) : texts[i] = <<r, m>>
    <3>1. <<r, m>> # <<s, n>>
      BY <1>1, <1>5, <2>1
    <3>2. m \in 1 .. done[r]
      BY <1>4, <3>1
    <3>. QED  BY <2>1, <3>2 DEF AllDone
  <2>2. AllDone(texts, next)
    BY <2>1 DEF AllDone
  <2>3. new = texts
    BY <1>5
  <2>. QED  BY Zenon, <1>3, <2>2, <2>3
<1>6. CASE IsText(o)
  <2>1. /\ Len(new) = k + 1 /\ new[k + 1] = o
        /\ \A i \in 1 .. k : new[i] = texts[i]
    <3>1. new = Append(texts, o)
      BY Zenon, <1>6
    <3>. HIDE DEF o
    <3>2. /\ Len(Append(texts, o)) = k + 1 /\ Append(texts, o)[k + 1] = o
          /\ \A i \in 1 .. k : Append(texts, o)[i] = texts[i]
      BY DEF k
    <3>. QED  BY Zenon, <3>1, <3>2
  <2>2. /\ \A i \in 1 .. (k + 1) : i \in 1 .. k \/ i = k + 1
        /\ 1 .. k \subseteq 1 .. (k + 1) /\ k + 1 \in 1 .. (k + 1)
    BY <1>1
  <2>3. ASSUME NEW i \in 1 .. Len(new)
        PROVE  \E r \in Sends : \E m \in 1 .. next[r] : new[i] = <<r, m>> /\ IsText(<<r, m>>)
    <3>1. CASE i \in 1 .. k
      <4>1. \E r \in Sends : \E m \in 1 .. next[r] : texts[i] = <<r, m>> /\ IsText(<<r, m>>)
        BY <1>3, <3>1 DEF OnlyDone, k
      <4>2. new[i] = texts[i]
        BY <2>1, <3>1
      <4>. QED  BY Zenon, <4>1, <4>2
    <3>2. CASE i = k + 1
      <4>1. n \in 1 .. next[s] /\ new[i] = <<s, n>> /\ IsText(<<s, n>>)
        BY <1>1, <1>6, <2>1, <3>2
      <4>. QED  BY <4>1
    <3>. QED  BY <2>1, <2>2, <3>1, <3>2
  <2>4. ASSUME NEW r \in Sends, NEW m \in 1 .. next[r], IsText(<<r, m>>)
        PROVE  \E i \in 1 .. Len(new) : new[i] = <<r, m>>
    <3>1. CASE <<r, m>> = <<s, n>>
      BY <1>1, <2>1, <2>2, <3>1
    <3>2. CASE <<r, m>> # <<s, n>>
      <4>1. m \in 1 .. done[r]
        BY <1>4, <3>2
      <4>2. PICK i \in 1 .. k : texts[i] = <<r, m>>
        BY <2>4, <4>1 DEF AllDone, k
      <4>. QED  BY <2>1, <2>2, <4>2
    <3>. QED  BY <3>1, <3>2
  <2>5. \A i \in 1 .. k : texts[i] # o
    <3>1. ASSUME NEW i \in 1 .. k, texts[i] = o  PROVE FALSE
      <4>1. PICK r \in Sends : \E m \in 1 .. done[r] : texts[i] = <<r, m>>
        BY DEF OnlyDone, k
      <4>2. PICK m \in 1 .. done[r] : texts[i] = <<r, m>>
        BY <4>1
      <4>3. r = s /\ m = n
        BY <1>1, <3>1, <4>2
      <4>. QED  BY <1>1, <4>2, <4>3
    <3>. QED  BY <3>1
  <2>6. ASSUME NEW h \in 1 .. Len(new)
        PROVE  /\ IsText(new[h])
               /\ \A i \in 1 .. (h - 1) : new[i] # new[h]
               /\ \A m \in 1 .. (new[h][2] - 1) : IsText(<<new[h][1], m>>) =>
                      \E i \in 1 .. (h - 1) : new[i] = <<new[h][1], m>>
    <3>1. CASE h \in 1 .. k
      <4>. DEFINE t == texts[h]
      <4>1. /\ IsText(t)
            /\ \A i \in 1 .. (h - 1) : texts[i] # t
            /\ \A m \in 1 .. (t[2] - 1) : IsText(<<t[1], m>>) =>
                   \E i \in 1 .. (h - 1) : texts[i] = <<t[1], m>>
        BY <3>1 DEF InTheirOrder, k
      <4>2. \A i \in 1 .. (h - 1) : i \in 1 .. k
        BY <1>1, <3>1
      <4>3. new[h] = t /\ \A i \in 1 .. (h - 1) : new[i] = texts[i]
        BY <2>1, <3>1, <4>2
      <4>. HIDE DEF t
      <4>4. IsText(new[h]) /\ \A i \in 1 .. (h - 1) : new[i] # new[h]
        BY Zenon, <4>1, <4>3
      <4>5. ASSUME NEW m \in 1 .. (new[h][2] - 1), IsText(<<new[h][1], m>>)
            PROVE  \E i \in 1 .. (h - 1) : new[i] = <<new[h][1], m>>
        <5>1. m \in 1 .. (t[2] - 1) /\ IsText(<<t[1], m>>)
          BY Zenon, <4>3, <4>5
        <5>2. \E i \in 1 .. (h - 1) : texts[i] = <<t[1], m>>
          BY Zenon, <4>1, <5>1
        <5>. QED  BY Zenon, <4>3, <5>2
      <4>. QED  BY Zenon, <4>4, <4>5
    <3>2. CASE h = k + 1
      <4>1. \A i \in 1 .. (h - 1) : i \in 1 .. k /\ new[i] = texts[i]
        BY <1>1, <2>1, <3>2
      <4>2. new[h] = o /\ o[1] = s /\ o[2] = n
        BY <1>1, <2>1, <3>2
      <4>3. ASSUME NEW m \in 1 .. (n - 1), IsText(<<s, m>>)
            PROVE  \E i \in 1 .. (h - 1) : new[i] = <<s, m>>
        <5>1. m \in 1 .. done[s]
          BY <1>1
        <5>2. PICK i \in 1 .. k : texts[i] = <<s, m>>
          BY <4>3, <5>1 DEF AllDone, k
        <5>3. i \in 1 .. (h - 1)
          BY <1>1, <3>2
        <5>. QED  BY <4>1, <5>2, <5>3
      <4>. HIDE DEF o
      <4>4. \A i \in 1 .. (h - 1) : new[i] # o
        BY Zenon, <2>5, <4>1
      <4>5. IsText(new[h]) /\ \A i \in 1 .. (h - 1) : new[i] # new[h]
        BY Zenon, <1>6, <4>2, <4>4 DEF o
      <4>6. new[h][1] = s /\ new[h][2] = n
        BY Zenon, <4>2
      <4>7. \A m \in 1 .. (new[h][2] - 1) : IsText(<<new[h][1], m>>) =>
                \E i \in 1 .. (h - 1) : new[i] = <<new[h][1], m>>
        <5>1. \A m \in 1 .. (n - 1) : IsText(<<s, m>>) =>
                  \E i \in 1 .. (h - 1) : new[i] = <<s, m>>
          BY Zenon, <4>3
        <5>. QED  BY Zenon, <4>6, <5>1
      <4>. QED  BY Zenon, <4>5, <4>7
    <3>. QED  BY <2>1, <2>2, <3>1, <3>2
  <2>7. OnlyDone(new, next) /\ AllDone(new, next)
    BY <2>3, <2>4 DEF OnlyDone, AllDone
  <2>8. InTheirOrder(new)
    BY <2>6 DEF InTheirOrder
  <2>. QED  BY <2>7, <2>8
<1>. QED  BY <1>5, <1>6

LEMMA VSCodeKeeps ==
    ASSUME IInv, Next
    PROVE  VSCodeWrites' /\ EachSendInOrder'
<1>1. CASE editor = "vscode"
  <2>1. posted = 0 /\ thread = "ended"
    BY <1>1 DEF IInv, OneThread
  <2>2. ASSUME NEW s \in Sends, Send(s)  PROVE VSCodeWrites' /\ EachSendInOrder'
    <3>1. /\ sent' = sent /\ editor' = editor /\ running' = running /\ at[s] = -1
          /\ at'[s] = 0 /\ \A r \in Sends \ {s} : at'[r] = at[r]
      BY <1>1, <2>2 DEF Send, IInv, TypeOK
    <3>2. \A r \in Sends : 1 .. at'[r] = 1 .. at[r]
      BY <3>1
    <3>. QED  BY <3>1, <3>2, VSCodeStays DEF IInv, WritesInOrder
  <2>3. ~RunPosted /\ ~LoopStep
    BY <2>1 DEF RunPosted, LoopStep, Check, Get, Deal, PostPayload
  <2>4. ASSUME Terminate \/ Dies \/ Dispose  PROVE VSCodeWrites' /\ EachSendInOrder'
    <3>1. sent' = sent /\ editor' = editor /\ (running' => running) /\ at' = at
      BY <2>4 DEF Terminate, Dies, Dispose
    <3>. QED  BY <3>1, VSCodeStays DEF IInv, WritesInOrder
  <2>5. ASSUME NEW s \in Sends, SendStep(s)  PROVE VSCodeWrites' /\ EachSendInOrder'
    <3>. USE <2>5 DEF SendStep
    <3>1. /\ ConstantsOK /\ sent \in Seq(AllOperations \cup {NoText}) /\ at \in [Sends -> Int]
          /\ OnlyDone(sent, at) /\ (running => AllDone(sent, at)) /\ InTheirOrder(sent)
      BY <1>1 DEF IInv, TypeOK, VSCodeWrites, WritesInOrder, EachSendInOrder
    <3>2. at' = [at EXCEPT ![s] = @ + 1] /\ running' = running /\ at[s] \in 0 .. (Len(Ops[s]) - 1)
      OBVIOUS
    <3>3. CASE running
      <4>1. sent' = IF IsText(<<s, at'[s]>>) THEN Append(sent, <<s, at'[s]>>) ELSE sent
        BY <3>3
      <4>2. OnlyDone(sent', at') /\ AllDone(sent', at') /\ InTheirOrder(sent')
        BY <3>1, <3>2, <3>3, <4>1, AppendInOrder
      <4>. QED  BY <4>2 DEF VSCodeWrites, EachSendInOrder
    <3>4. CASE ~running
      <4>1. sent' = sent
        BY <3>4
      <4>2. \A r \in Sends : 1 .. at[r] \subseteq 1 .. at'[r]
        BY <3>1, <3>2
      <4>3. OnlyDone(sent, at')
        <5>1. ASSUME NEW i \in 1 .. Len(sent)
              PROVE  \E r \in Sends : \E m \in 1 .. at'[r] :
                         sent[i] = <<r, m>> /\ IsText(<<r, m>>)
          <6>1. PICK r \in Sends : \E m \in 1 .. at[r] : sent[i] = <<r, m>> /\ IsText(<<r, m>>)
            BY <3>1 DEF OnlyDone
          <6>. QED  BY <4>2, <6>1
        <5>. QED  BY <5>1 DEF OnlyDone
      <4>. QED  BY <3>1, <3>2, <3>4, <4>1, <4>3 DEF VSCodeWrites, EachSendInOrder
    <3>. QED  BY <3>3, <3>4
  <2>. QED  BY <2>2, <2>3, <2>4, <2>5 DEF Next
<1>2. CASE editor # "vscode"
  <2>1. editor' = editor
    BY DEF Next, LoopStep, Send, SendStep, RunPosted, Terminate, Dies, Dispose, Check, Get, Deal,
       PostPayload
  <2>. QED  BY <1>2, <2>1 DEF VSCodeWrites, EachSendInOrder
<1>. QED  BY <1>1, <1>2

-----------------------------------------------------------------------------
(***************************************************************************)
(* Neovim.                                                                 *)
(***************************************************************************)

\* More operations asked for leave what was written where it is.
LEMMA MoreOperations ==
    ASSUME NEW A, NEW os \in Seq(A), NEW more \in Seq(A), NEW texts, Len(texts) \in Nat
    PROVE  /\ Len(os \o more) = Len(os) + Len(more)
           /\ \A n \in 0 .. Len(os) : TextsUpTo(os \o more, n) = TextsUpTo(os, n)
           /\ \A n \in 0 .. Len(os) : Among(texts, os, n) => Among(texts, os \o more, n)
           /\ NoneOlder(texts, os) => NoneOlder(texts, os \o more)
           /\ InPlace(texts, os) => InPlace(texts, os \o more)
<1>. DEFINE ps == os \o more
<1>1. /\ Len(os) \in Nat /\ Len(ps) \in Nat /\ Len(os) <= Len(ps)
      /\ Len(ps) = Len(os) + Len(more)
      /\ \A i \in 1 .. Len(os) : ps[i] = os[i]
  OBVIOUS
<1>. HIDE DEF ps
<1>2. ASSUME NEW n \in 0 .. Len(os)  PROVE TextsUpTo(ps, n) = TextsUpTo(os, n)
  BY <1>1, CountIsLocal
<1>3. ASSUME NEW n \in 0 .. Len(os), Among(texts, os, n)  PROVE Among(texts, ps, n)
  BY <1>1, <1>3 DEF Among
<1>4. ASSUME NoneOlder(texts, os)  PROVE NoneOlder(texts, ps)
  <2>1. TextsUpTo(ps, Len(os)) <= TextsUpTo(ps, Len(ps)) /\ TextsUpTo(ps, Len(os)) \in Nat
        /\ TextsUpTo(ps, Len(ps)) \in Nat
    BY <1>1, CountIsMonotonic, CountGrows
  <2>2. Len(texts) <= TextsUpTo(ps, Len(ps))
    BY <1>1, <1>2, <1>4, <2>1 DEF NoneOlder
  <2>3. ASSUME NEW i \in 1 .. Len(texts), texts[i] # NoText
        PROVE  \E n \in 1 .. Len(ps) :
                  /\ IsText(ps[n]) /\ texts[i] = ps[n]
                  /\ i <= TextsUpTo(ps, n)
                  /\ \A k \in 1 .. i : texts[k] = NoText \/ \E m \in 1 .. n : texts[k] = ps[m]
    <3>1. PICK n \in 1 .. Len(os) :
                  /\ IsText(os[n]) /\ texts[i] = os[n]
                  /\ i <= TextsUpTo(os, n)
                  /\ \A k \in 1 .. i : texts[k] = NoText \/ \E m \in 1 .. n : texts[k] = os[m]
      BY <1>4, <2>3 DEF NoneOlder
    <3>2. n \in 1 .. Len(ps) /\ n \in 0 .. Len(os) /\ \A m \in 1 .. n : ps[m] = os[m]
      BY <1>1
    <3>3. ps[n] = os[n] /\ TextsUpTo(ps, n) = TextsUpTo(os, n)
      BY <1>1, <1>2, <3>2
    <3>. QED  BY <3>1, <3>2, <3>3
  <2>. QED  BY <2>2, <2>3 DEF NoneOlder
<1>5. ASSUME InPlace(texts, os)  PROVE InPlace(texts, ps)
  <2>1. ASSUME NEW i \in 1 .. Len(texts)
        PROVE  \E n \in 1 .. Len(ps) : IsText(ps[n]) /\ texts[i] = ps[n] /\ i = TextsUpTo(ps, n)
    <3>1. PICK n \in 1 .. Len(os) : IsText(os[n]) /\ texts[i] = os[n] /\ i = TextsUpTo(os, n)
      BY <1>5 DEF InPlace
    <3>2. n \in 1 .. Len(ps) /\ n \in 0 .. Len(os) /\ ps[n] = os[n]
      BY <1>1
    <3>. QED  BY <1>2, <3>1, <3>2
  <2>. QED  BY <2>1 DEF InPlace
<1>. QED  BY <1>1, <1>2, <1>3, <1>4, <1>5 DEF ps

\* One more is written: None, or the text of an operation that no text written
\* is behind.
LEMMA AppendOlder ==
    ASSUME NEW A, NEW texts \in Seq(A), NEW os, Len(os) \in Nat, NoneOlder(texts, os),
           NEW m \in 1 .. Len(os), NEW o \in A,
           Len(texts) + 1 <= TextsUpTo(os, m),
           o # NoText => IsText(o) /\ o = os[m] /\ Among(texts, os, m)
    PROVE  NoneOlder(Append(texts, o), os)
<1>. DEFINE new == Append(texts, o)
            k == Len(texts) + 1
<1>1. /\ Len(new) = k /\ k \in Nat \ {0} /\ new[k] = o
      /\ \A i \in 1 .. k : i = k \/ i \in 1 .. Len(texts)
      /\ \A i \in 1 .. Len(texts) : new[i] = texts[i]
  OBVIOUS
<1>. HIDE DEF new, k
<1>2. k <= TextsUpTo(os, m) /\ k <= TextsUpTo(os, Len(os))
  <2>1. /\ TextsUpTo(os, m) \in Nat /\ TextsUpTo(os, Len(os)) \in Nat
        /\ TextsUpTo(os, m) <= TextsUpTo(os, Len(os))
    <3>1. m \in Nat /\ m \in 0 .. Len(os)
      OBVIOUS
    <3>. QED  BY <3>1, CountGrows, CountIsMonotonic
  <2>. QED  BY <1>1, <2>1 DEF k
<1>3. ASSUME NEW i \in 1 .. k, new[i] # NoText
      PROVE  \E n \in 1 .. Len(os) :
                /\ IsText(os[n]) /\ new[i] = os[n]
                /\ i <= TextsUpTo(os, n)
                /\ \A h \in 1 .. i : new[h] = NoText \/ \E l \in 1 .. n : new[h] = os[l]
  <2>1. CASE i = k
    <3>1. IsText(os[m]) /\ new[i] = os[m] /\ Among(texts, os, m)
      BY <1>1, <1>3, <2>1
    <3>2. ASSUME NEW h \in 1 .. k  PROVE new[h] = NoText \/ \E l \in 1 .. m : new[h] = os[l]
      <4>1. CASE h = k
        BY <2>1, <3>1, <4>1
      <4>2. CASE h \in 1 .. Len(texts)
        BY <1>1, <3>1, <4>2 DEF Among
      <4>. QED  BY <1>1, <4>1, <4>2
    <3>. QED  BY <1>2, <2>1, <3>1, <3>2
  <2>2. CASE i \in 1 .. Len(texts)
    <3>1. PICK n \in 1 .. Len(os) :
                  /\ IsText(os[n]) /\ texts[i] = os[n]
                  /\ i <= TextsUpTo(os, n)
                  /\ \A h \in 1 .. i : texts[h] = NoText \/ \E l \in 1 .. n : texts[h] = os[l]
      BY <1>1, <1>3, <2>2 DEF NoneOlder
    <3>2. \A h \in 1 .. i : h \in 1 .. Len(texts) /\ new[h] = texts[h]
      BY <1>1, <2>2
    <3>3. new[i] = texts[i]
      BY <1>1, <2>2
    <3>4. \A h \in 1 .. i : new[h] = NoText \/ \E l \in 1 .. n : new[h] = os[l]
      BY Zenon, <3>1, <3>2
    <3>. QED  BY Zenon, <3>1, <3>3, <3>4
  <2>. QED  BY <1>1, <2>1, <2>2
<1>. QED  BY <1>1, <1>2, <1>3 DEF NoneOlder, new

\* What every step of Neovim starts from.
LEMMA NvimState ==
    ASSUME IInv, editor = "nvim"
    PROVE  /\ requested \in Seq(AllOperations) /\ Len(requested) \in Nat
           /\ sent \in Seq(AllOperations \cup {NoText}) /\ Len(sent) \in Nat
           /\ queue \in Seq(AllOperations \cup {NoText}) /\ Len(queue) \in Nat
           /\ posted \in Nat /\ overtaken \in BOOLEAN
           /\ \A n \in Nat : TextsUpTo(requested, n) \in Nat
           /\ NoneOlder(sent, requested)
           /\ \E n \in 0 .. Len(requested) : Taken(n) /\ Counted(n) /\ InTurn(n)
<1>1. requested \in Seq(AllOperations) /\ sent \in Seq(AllOperations \cup {NoText})
      /\ queue \in Seq(AllOperations \cup {NoText}) /\ posted \in Nat
      /\ overtaken \in BOOLEAN
  BY DEF IInv, TypeOK
<1>2. \A n \in Nat : TextsUpTo(requested, n) \in Nat
  BY CountGrows
<1>3. Len(requested) \in Nat /\ Len(sent) \in Nat /\ Len(queue) \in Nat
  BY <1>1
<1>. QED  BY <1>1, <1>2, <1>3 DEF IInv, NvimWrites, WritesInOrder, NeverSendsOlder

\* The operations of a send come behind those in the queue.
LEMMA NvimSend ==
    ASSUME IInv, editor = "nvim", NEW s \in Sends, Send(s)
    PROVE  NvimWrites' /\ NeverSendsOlder'
<1>. USE DEF Send
<1>. DEFINE more == Operations(s)
            ps == requested \o more
<1>1. PICK n \in 0 .. Len(requested) : Taken(n) /\ Counted(n) /\ InTurn(n)
  BY NvimState
<1>2. more \in Seq(AllOperations) /\ Len(more) \in Nat
  BY OperationsTyped DEF IInv
<1>3. /\ requested \in Seq(AllOperations) /\ Len(requested) \in Nat
      /\ Len(queue) \in Nat /\ Len(sent) \in Nat /\ running /\ alive
  BY NvimState DEF IInv, OneThread
<1>4. /\ requested' = ps /\ queue' = queue \o more /\ sent' = sent
      /\ UNCHANGED <<editor, thread, alive, op, payload, posted>>
  OBVIOUS
<1>. HIDE DEF more
<1>5. /\ Len(ps) = Len(requested) + Len(more)
      /\ \A m \in 0 .. Len(requested) : TextsUpTo(ps, m) = TextsUpTo(requested, m)
      /\ \A m \in 0 .. Len(requested) : Among(sent, requested, m) => Among(sent, ps, m)
      /\ NoneOlder(sent, requested) => NoneOlder(sent, ps)
      /\ InPlace(sent, requested) => InPlace(sent, ps)
  BY <1>2, <1>3, MoreOperations
<1>6. /\ \A i \in 1 .. Len(requested) : ps[i] = requested[i]
      /\ \A i \in 1 .. Len(more) : ps[Len(requested) + i] = more[i]
  BY <1>2, <1>3
<1>7. /\ Len(queue') = Len(queue) + Len(more)
      /\ \A i \in 1 .. Len(queue) : queue'[i] = queue[i]
      /\ \A i \in 1 .. Len(more) : queue'[Len(queue) + i] = more[i]
  <2>. DEFINE All == AllOperations \cup {NoText}
  <2>1. queue \in Seq(All) /\ more \in Seq(All)
    BY <1>2, NvimState, SeqMonotonic
  <2>. HIDE DEF All
  <2>2. /\ Len(queue \o more) = Len(queue) + Len(more)
        /\ \A i \in 1 .. Len(queue) : (queue \o more)[i] = queue[i]
        /\ \A i \in 1 .. Len(more) : (queue \o more)[Len(queue) + i] = more[i]
    BY <2>1
  <2>. QED  BY <1>4, <2>2
<1>. HIDE DEF ps
<1>8. n \in 0 .. Len(ps)
  BY <1>2, <1>3, <1>5
<1>9. Taken(n)'
  <2>1. ASSUME thread # "ended"
        PROVE  /\ Len(queue') = Len(ps) - n
               /\ \A k \in 1 .. Len(queue') : queue'[k] = NoText \/
                     (n + k \in 1 .. Len(ps) /\ queue'[k] = ps[n + k])
    <3>1. /\ Len(queue) = Len(requested) - n
          /\ \A k \in 1 .. Len(queue) : queue[k] = NoText \/
                (n + k \in 1 .. Len(requested) /\ queue[k] = requested[n + k])
      BY <1>1, <1>3, <2>1 DEF Taken
    <3>2. Len(queue') = Len(ps) - n
      BY <1>2, <1>3, <1>5, <1>7, <3>1
    <3>3. ASSUME NEW k \in 1 .. Len(queue')
          PROVE  queue'[k] = NoText \/ (n + k \in 1 .. Len(ps) /\ queue'[k] = ps[n + k])
      <4>1. CASE k <= Len(queue)
        <5>1. k \in 1 .. Len(queue) /\ queue'[k] = queue[k]
          BY <1>3, <1>7, <4>1
        <5>2. n + k \in 1 .. Len(requested) => n + k \in 1 .. Len(ps) /\ ps[n + k] = requested[n + k]
          BY <1>2, <1>3, <1>5, <1>6
        <5>. QED  BY <3>1, <5>1, <5>2
      <4>2. CASE k > Len(queue)
        <5>. DEFINE i == k - Len(queue)
        <5>1. i \in 1 .. Len(more) /\ k = Len(queue) + i /\ n + k = Len(requested) + i
          BY <1>2, <1>3, <1>7, <3>1, <4>2
        <5>. HIDE DEF i
        <5>2. queue'[k] = more[i]
          BY <1>7, <5>1
        <5>3. ps[n + k] = more[i]
          BY <1>6, <5>1
        <5>4. n + k \in 1 .. Len(ps)
          BY <1>2, <1>3, <1>5, <5>1
        <5>. QED  BY Zenon, <5>2, <5>3, <5>4
      <4>. QED  BY <1>3, <4>1, <4>2
    <3>. QED  BY <3>2, <3>3
  <2>2. thread \in {"deal", "post"} => n > 0 /\ op = ps[n]
    <3>1. n > 0 => ps[n] = requested[n]
      BY <1>3, <1>6
    <3>. QED  BY <1>1, <3>1 DEF Taken
  <2>. QED  BY <1>1, <1>4, <2>1, <2>2 DEF Taken
<1>10. Counted(n)'
  <2>1. Done(n) \in 0 .. Len(requested) /\ Done(n)' = Done(n)
    BY <1>1, <1>3, <1>4 DEF Done, Taken
  <2>2. Len(sent) + posted <= TextsUpTo(ps, Done(n)) /\ Among(sent, ps, n)
    BY <1>1, <1>5, <2>1 DEF Counted
  <2>3. ASSUME payload # NoText
        PROVE  \E m \in 1 .. n : /\ IsText(payload) /\ payload = ps[m]
                                 /\ Len(sent) + posted <= TextsUpTo(ps, m)
                                 /\ Among(sent, ps, m)
    <3>1. PICK m \in 1 .. n : /\ IsText(payload) /\ payload = requested[m]
                              /\ Len(sent) + posted <= TextsUpTo(requested, m)
                              /\ Among(sent, requested, m)
      BY <1>1, <2>3 DEF Counted
    <3>2. m \in 1 .. Len(requested) /\ m \in 0 .. Len(requested)
      BY <1>3
    <3>. QED  BY <1>5, <1>6, <3>1, <3>2
  <2>. QED  BY <1>4, <2>1, <2>2, <2>3 DEF Counted
<1>11. NoneOlder(sent', requested')
  BY <1>4, <1>5, NvimState
<1>12. InTurn(n)'
  <2>1. Done(n) \in 0 .. Len(requested) /\ Done(n)' = Done(n)
    BY <1>1, <1>3, <1>4 DEF Done, Taken
  <2>2. UNCHANGED <<overtaken, running>>
    OBVIOUS
  <2>3. ASSUME ~overtaken
        PROVE  /\ InPlace(sent, ps)
               /\ Len(sent) + posted = TextsUpTo(ps, Done(n))
               /\ posted = 0 \/ (posted = 1 /\ thread # "post")
               /\ posted = 1 => \E m \in 1 .. n :
                     /\ IsText(payload) /\ payload = ps[m]
                     /\ Len(sent) + 1 = TextsUpTo(ps, m)
    <3>1. /\ InPlace(sent, requested)
          /\ Len(sent) + posted = TextsUpTo(requested, Done(n))
          /\ posted = 0 \/ (posted = 1 /\ thread # "post")
          /\ posted = 1 => \E m \in 1 .. n :
                /\ IsText(payload) /\ payload = requested[m]
                /\ Len(sent) + 1 = TextsUpTo(requested, m)
      BY <1>1, <1>3, <2>3 DEF InTurn
    <3>2. \A m \in 1 .. n : m \in 0 .. Len(requested) /\ ps[m] = requested[m]
      BY <1>3, <1>6
    <3>. QED  BY <1>5, <2>1, <3>1, <3>2
  <2>. QED  BY <1>4, <2>1, <2>2, <2>3 DEF InTurn
<1>. QED  BY <1>4, <1>8, <1>9, <1>10, <1>11, <1>12 DEF NvimWrites, NeverSendsOlder

\* The main thread writes what payload holds by then.
LEMMA NvimRunPosted ==
    ASSUME IInv, editor = "nvim", RunPosted
    PROVE  NvimWrites' /\ NeverSendsOlder'
<1>. USE DEF RunPosted
<1>1. PICK n \in 0 .. Len(requested) : Taken(n) /\ Counted(n) /\ InTurn(n)
  BY NvimState
<1>2. /\ Len(sent) \in Nat /\ posted \in Nat /\ posted > 0 /\ posted' = posted - 1
      /\ Len(requested) \in Nat
      /\ UNCHANGED <<editor, thread, alive, queue, op, payload, requested>>
      /\ NoneOlder(sent, requested) /\ \A m \in Nat : TextsUpTo(requested, m) \in Nat
      /\ sent \in Seq(AllOperations \cup {NoText})
  BY NvimState
<1>3. Taken(n)' /\ Done(n)' = Done(n)
  BY <1>1, <1>2 DEF Taken, Done
<1>4. Done(n) \in 0 .. n
  BY <1>1 DEF Done, Taken
<1>. DEFINE c == TextsUpTo(requested, Done(n))
<1>5. c \in Nat /\ Len(sent) + posted <= c /\ Among(sent, requested, n)
  BY <1>1, <1>2, <1>4 DEF Counted
<1>. HIDE DEF c
<1>8. InTurn(n)'
  <2>1. UNCHANGED <<overtaken, running>>
    OBVIOUS
  <2>2. CASE ~running
    BY <1>1, <1>2, <2>1, <2>2 DEF InTurn
  <2>3. CASE running /\ ~overtaken
    <3>. DEFINE All == AllOperations \cup {NoText}
                new == Append(sent, payload)
    <3>1. /\ InPlace(sent, requested)
          /\ Len(sent) + posted = TextsUpTo(requested, Done(n))
          /\ posted = 1
          /\ \E m \in 1 .. n :
                /\ IsText(payload) /\ payload = requested[m]
                /\ Len(sent) + 1 = TextsUpTo(requested, m)
      BY <1>1, <1>2, <2>3 DEF InTurn
    <3>2. sent' = new /\ payload \in All /\ sent \in Seq(All)
      BY <1>2, <2>3 DEF IInv, TypeOK
    <3>. HIDE DEF All
    <3>3. /\ Len(new) = Len(sent) + 1 /\ new[Len(sent) + 1] = payload
          /\ \A i \in 1 .. Len(sent) : new[i] = sent[i]
          /\ \A i \in 1 .. Len(new) : i = Len(sent) + 1 \/ i \in 1 .. Len(sent)
      BY <3>2
    <3>. HIDE DEF new
    <3>4. \A m \in 1 .. n : m \in 1 .. Len(requested)
      BY <1>2
    <3>5. InPlace(new, requested)
      BY <3>1, <3>3, <3>4 DEF InPlace
    <3>6. posted' = 0 /\ Len(new) + posted' = TextsUpTo(requested, Done(n))
      BY <1>2, <3>1, <3>3
    <3>7. requested' = requested
      BY <1>2
    <3>8. /\ InPlace(sent', requested')
          /\ Len(sent') + posted' = TextsUpTo(requested', Done(n)')
          /\ posted' = 0 /\ ~(posted' = 1)
      <4>1. posted' = 0 /\ ~(posted' = 1)
        BY <1>2, <3>1
      <4>. QED  BY Zenon, <1>3, <3>2, <3>5, <3>6, <3>7, <4>1
    <3>. QED  BY Zenon, <3>8 DEF InTurn
  <2>. QED  BY <2>1, <2>2, <2>3 DEF InTurn
<1>6. CASE ~running
  <2>1. sent' = sent /\ Len(sent') + posted' <= Len(sent) + posted
    BY <1>2, <1>6
  <2>2. Len(sent') + posted' <= c /\ Among(sent', requested, n)
    <3>1. Len(sent) + posted' <= c
      BY <1>2, <1>5
    <3>2. Among(sent', requested, n)
      BY <1>5, <2>1, Zenon
    <3>. QED  BY <2>1, <3>1, <3>2, Zenon
  <2>3. ASSUME payload # NoText
        PROVE  \E m \in 1 .. n : /\ IsText(payload) /\ payload = requested[m]
                                 /\ Len(sent') + posted' <= TextsUpTo(requested, m)
                                 /\ Among(sent', requested, m)
    <3>1. PICK m \in 1 .. n : /\ IsText(payload) /\ payload = requested[m]
                              /\ Len(sent) + posted <= TextsUpTo(requested, m)
                              /\ Among(sent, requested, m)
      BY <1>1, <2>3 DEF Counted
    <3>2. Len(sent') + posted' <= TextsUpTo(requested, m)
      BY <1>2, <2>1, <3>1
    <3>. QED  BY <2>1, <3>1, <3>2
  <2>4. Counted(n)'
    BY <1>2, <1>3, <2>2, <2>3 DEF Counted, c
  <2>. QED  BY <1>1, <1>2, <1>3, <1>8, <2>1, <2>4 DEF NvimWrites, NeverSendsOlder
<1>7. CASE running
  <2>. DEFINE All == AllOperations \cup {NoText}
              new == Append(sent, payload)
              k == Len(sent) + 1
  <2>1. sent' = new /\ payload \in All /\ sent \in Seq(All)
    BY <1>2, <1>7 DEF IInv, TypeOK
  <2>. HIDE DEF All
  <2>2. /\ Len(new) = k /\ new[k] = payload
        /\ \A i \in 1 .. Len(sent) : new[i] = sent[i]
        /\ \A i \in 1 .. Len(new) : i = k \/ i \in 1 .. Len(sent)
    BY <2>1
  <2>3. Len(new) + posted' = Len(sent) + posted
    BY <1>2, <2>2
  <2>. HIDE DEF k
  <2>4. ASSUME NEW m \in 0 .. n, Among(sent, requested, m),
               payload = NoText \/ \E l \in 1 .. m : payload = requested[l]
        PROVE  Among(new, requested, m)
    <3>. HIDE DEF new
    <3>. QED  BY <2>2, <2>4 DEF Among
  <2>5. CASE payload = NoText
    <3>1. Among(new, requested, n)
      BY <1>1, <1>5, <2>4, <2>5
    <3>2. Counted(n)'
      <4>. HIDE DEF new
      <4>. QED  BY <1>2, <1>3, <1>5, <2>1, <2>3, <2>5, <3>1 DEF Counted, c
    <3>. DEFINE d == TextsUpTo(requested, Len(requested))
    <3>3. Len(requested) \in 1 .. Len(requested) /\ k <= d
      <4>1. k <= c
        BY <1>2, <1>5 DEF k
      <4>2. c <= d /\ d \in Nat
        <5>1. Done(n) \in 0 .. Len(requested)
          BY <1>2, <1>4
        <5>. QED  BY <1>2, <5>1, CountIsMonotonic, CountGrows DEF c
      <4>3. TextsUpTo(requested, 0) = 0
        BY CountBegins
      <4>. HIDE DEF d
      <4>4. c # 0
        BY <1>2, <4>1 DEF k
      <4>5. Len(requested) # 0
        BY <1>2, <1>4, <4>3, <4>4 DEF c
      <4>6. k \in Nat
        BY <1>2 DEF k
      <4>7. Len(requested) \in 1 .. Len(requested)
        BY <1>2, <4>5
      <4>8. k <= d
        BY <1>5, <4>1, <4>2, <4>6
      <4>. QED  BY <4>7, <4>8
    <3>4. NoneOlder(new, requested)
      BY <1>2, <2>1, <2>5, <3>3, AppendOlder DEF k
    <3>. HIDE DEF new
    <3>. QED  BY <1>1, <1>2, <1>3, <1>8, <2>1, <3>2, <3>4 DEF NvimWrites, NeverSendsOlder
  <2>6. CASE payload # NoText
    <3>1. PICK m \in 1 .. n : /\ IsText(payload) /\ payload = requested[m]
                              /\ Len(sent) + posted <= TextsUpTo(requested, m)
                              /\ Among(sent, requested, m)
      BY <1>1, <2>6 DEF Counted
    <3>2. Among(new, requested, m) /\ Among(new, requested, n)
      <4>1. m \in 0 .. n /\ n \in 0 .. n /\ m \in 1 .. m
        OBVIOUS
      <4>. QED  BY <1>5, <2>4, <3>1, <4>1
    <3>3. Counted(n)'
      <4>. HIDE DEF new
      <4>1. Len(sent') + posted' <= TextsUpTo(requested, m)
        BY <2>1, <2>3, <3>1
      <4>. QED  BY <1>2, <1>3, <1>5, <2>1, <2>3, <3>1, <3>2, <4>1 DEF Counted, c
    <3>4. m \in 1 .. Len(requested) /\ Len(sent) + 1 <= TextsUpTo(requested, m)
      <4>1. m \in Nat /\ m \in 1 .. Len(requested)
        BY <1>2
      <4>. DEFINE e == TextsUpTo(requested, m)
      <4>2. e \in Nat
        BY <1>2, <4>1
      <4>3. Len(sent) + posted <= e
        BY <3>1
      <4>. HIDE DEF e
      <4>4. Len(sent) + 1 <= e
        BY <1>2, <4>2, <4>3
      <4>. QED  BY <4>1, <4>4 DEF e
    <3>5. NoneOlder(new, requested)
      BY <1>2, <2>1, <3>1, <3>4, AppendOlder
    <3>. HIDE DEF new
    <3>. QED  BY <1>1, <1>2, <1>3, <1>8, <2>1, <3>3, <3>5 DEF NvimWrites, NeverSendsOlder
  <2>. QED  BY <2>5, <2>6
<1>. QED  BY <1>6, <1>7

\* The operation in hand: the texts before it bound what was written or posted,
\* with one to spare when it is a text.
LEMMA NvimInHand ==
    ASSUME IInv, editor = "nvim", NEW n \in 0 .. Len(requested), Taken(n), Counted(n),
           thread \in {"deal", "post"}
    PROVE  /\ n > 0 /\ n \in 1 .. Len(requested) /\ op = requested[n] /\ op # NoText
           /\ Len(sent) + posted <= TextsUpTo(requested, n)
           /\ IsText(op) => Len(sent) + (posted + 1) <= TextsUpTo(requested, n)
<1>1. n > 0 /\ op = requested[n] /\ op # NoText
  BY DEF Taken, IInv, TypeOK
<1>2. Len(requested) \in Nat /\ Len(sent) \in Nat /\ posted \in Nat
  BY NvimState
<1>3. n \in 1 .. Len(requested) /\ n - 1 \in Nat /\ (n - 1) + 1 = n
  BY <1>1, <1>2
<1>. DEFINE a == TextsUpTo(requested, n - 1)
            b == TextsUpTo(requested, n)
<1>4. a \in Nat /\ b \in Nat /\ a <= b /\ (IsText(op) => b = a + 1)
  <2>1. /\ TextsUpTo(requested, n - 1) \in Nat
        /\ TextsUpTo(requested, n - 1) <= TextsUpTo(requested, (n - 1) + 1)
        /\ IsText(requested[(n - 1) + 1]) =>
              TextsUpTo(requested, (n - 1) + 1) = TextsUpTo(requested, n - 1) + 1
    BY <1>3, CountGrows
  <2>2. TextsUpTo(requested, n) \in Nat
    BY <1>3, CountGrows
  <2>. QED  BY <1>1, <1>3, <2>1, <2>2
<1>5. Len(sent) + posted <= a
  BY DEF Counted, Done
<1>. HIDE DEF a, b
<1>6. Len(sent) + posted <= b /\ (IsText(op) => Len(sent) + (posted + 1) <= b)
  BY <1>2, <1>4, <1>5
<1>. QED  BY <1>1, <1>3, <1>6 DEF b

\* The thread takes an operation, the end, or finds nothing.
LEMMA NvimGet ==
    ASSUME IInv, editor = "nvim", Get
    PROVE  NvimWrites' /\ NeverSendsOlder'
<1>. USE DEF Get
<1>1. PICK n \in 0 .. Len(requested) : Taken(n) /\ Counted(n) /\ InTurn(n)
  BY NvimState
<1>2. /\ Len(requested) \in Nat /\ Len(queue) \in Nat /\ NoneOlder(sent, requested)
      /\ queue \in Seq(AllOperations \cup {NoText})
      /\ UNCHANGED <<editor, running, alive, payload, posted, requested, sent, overtaken>>
  BY NvimState
<1>3. Done(n) = n
  BY DEF Done
<1>4. CASE queue = <<>> \/ op' = NoText
  <2>1. thread' \in {"check", "ended"} /\ (thread' # "ended" => queue' = queue)
    BY <1>4
  <2>2. Taken(n)' /\ Done(n)' = n
    BY <1>1, <1>2, <2>1 DEF Taken, Done
  <2>3. Counted(n)'
    BY <1>1, <1>2, <1>3, <2>2 DEF Counted
  <2>4. InTurn(n)'
    BY <1>1, <1>2, <1>3, <2>1, <2>2 DEF InTurn
  <2>. QED  BY <1>1, <1>2, <2>2, <2>3, <2>4 DEF NvimWrites, NeverSendsOlder
<1>5. CASE queue # <<>> /\ op' # NoText
  <2>1. /\ thread' = "deal" /\ op' = queue[1]
        /\ Len(queue) > 0 /\ Len(queue') = Len(queue) - 1
        /\ \A k \in 1 .. Len(queue') : queue'[k] = queue[k + 1] /\ k + 1 \in 1 .. Len(queue)
    <3>. DEFINE All == AllOperations \cup {NoText}
    <3>1. queue \in Seq(All)
      BY <1>2
    <3>. HIDE DEF All
    <3>. QED  BY <1>2, <1>5, <3>1
  <2>2. /\ alive => Len(queue) = Len(requested) - n
        /\ \A k \in 1 .. Len(queue) : queue[k] = NoText \/
              (n + k \in 1 .. Len(requested) /\ queue[k] = requested[n + k])
    BY <1>1 DEF Taken
  <2>3. n + 1 \in 0 .. Len(requested) /\ op' = requested[n + 1]
    <3>1. 1 \in 1 .. Len(queue)
      BY <1>2, <2>1
    <3>. QED  BY <1>5, <2>1, <2>2, <3>1
  <2>4. Taken(n + 1)'
    <3>1. alive => Len(queue') = Len(requested) - (n + 1)
      BY <1>2, <2>1, <2>2
    <3>2. ASSUME NEW k \in 1 .. Len(queue')
          PROVE  queue'[k] = NoText \/
                    (n + 1 + k \in 1 .. Len(requested) /\ queue'[k] = requested[n + 1 + k])
      <4>1. queue'[k] = queue[k + 1] /\ k + 1 \in 1 .. Len(queue) /\ n + (k + 1) = n + 1 + k
        BY <1>2, <2>1
      <4>. QED  BY <2>2, <4>1
    <3>. QED  BY <1>2, <2>1, <2>3, <3>1, <3>2 DEF Taken
  <2>5. Counted(n + 1)'
    <3>1. Done(n + 1)' = n
      BY <2>1 DEF Done
    <3>2. Among(sent, requested, n + 1)
      BY <1>1 DEF Counted, Among
    <3>3. 1 .. n \subseteq 1 .. (n + 1)
      OBVIOUS
    <3>4. Len(sent) + posted <= TextsUpTo(requested, n)
      BY <1>1, <1>3 DEF Counted
    <3>5. ASSUME payload # NoText
          PROVE  \E m \in 1 .. (n + 1) : /\ IsText(payload) /\ payload = requested[m]
                                         /\ Len(sent) + posted <= TextsUpTo(requested, m)
                                         /\ Among(sent, requested, m)
      BY <1>1, <3>3, <3>5 DEF Counted
    <3>. QED  BY <1>2, <3>1, <3>2, <3>4, <3>5 DEF Counted
  <2>6. InTurn(n + 1)'
    <3>1. Done(n + 1)' = n /\ 1 .. n \subseteq 1 .. (n + 1)
      BY <2>1 DEF Done
    <3>. QED  BY <1>1, <1>2, <1>3, <2>1, <3>1 DEF InTurn
  <2>. QED  BY <1>2, <2>3, <2>4, <2>5, <2>6 DEF NvimWrites, NeverSendsOlder
<1>. QED  BY <1>4, <1>5

\* The thread deals with the operation it took.
LEMMA NvimDeal ==
    ASSUME IInv, editor = "nvim", Deal
    PROVE  NvimWrites' /\ NeverSendsOlder'
<1>. USE DEF Deal
<1>1. PICK n \in 0 .. Len(requested) : Taken(n) /\ Counted(n) /\ InTurn(n)
  BY NvimState
<1>2. /\ NoneOlder(sent, requested)
      /\ UNCHANGED <<editor, running, alive, queue, op, posted, requested, sent>>
      /\ posted \in Nat /\ Len(requested) \in Nat /\ overtaken \in BOOLEAN
  BY NvimState
<1>3. /\ n > 0 /\ n \in 1 .. Len(requested) /\ op = requested[n] /\ op # NoText
      /\ Len(sent) + posted <= TextsUpTo(requested, n)
  BY <1>1, NvimInHand
<1>4. Among(sent, requested, n)
  BY <1>1 DEF Counted
<1>5. CASE IsText(op)
  <2>1. payload' = op /\ thread' = "post"
    BY <1>5 DEF IsText
  <2>2. Taken(n)' /\ Done(n)' = Done(n)
    BY <1>1, <1>2, <1>3, <1>5, <2>1 DEF Taken, Done
  <2>3. Len(sent) + posted <= TextsUpTo(requested, Done(n))
    BY <1>1 DEF Counted
  <2>4. \E m \in 1 .. n : /\ IsText(op) /\ op = requested[m]
                          /\ Len(sent) + posted <= TextsUpTo(requested, m)
                          /\ Among(sent, requested, m)
    <3>1. n \in 1 .. n
      BY <1>3
    <3>. QED  BY <1>3, <1>4, <1>5, <3>1
  <2>5. Counted(n)'
    BY <1>2, <1>4, <2>1, <2>2, <2>3, <2>4 DEF Counted
  <2>6. InTurn(n)'
    <3>1. overtaken' = (overtaken \/ posted > 0)
      BY <1>5 DEF IsText
    <3>2. ~overtaken' => ~overtaken /\ posted = 0
      <4>. DEFINE waiting == posted > 0
      <4>1. ~waiting => posted = 0
        BY <1>2
      <4>. HIDE DEF waiting
      <4>. QED  BY Zenon, <3>1, <4>1 DEF waiting
    <3>. QED  BY <1>1, <1>2, <2>2, <3>2 DEF InTurn
  <2>. QED  BY <1>1, <1>2, <2>2, <2>5, <2>6 DEF NvimWrites, NeverSendsOlder
<1>6. CASE ~ IsText(op)
  <2>1. payload' \in {payload, NoText} /\ thread' = "check"
    BY <1>3, <1>6 DEF IsText
  <2>2. Taken(n)' /\ Done(n)' = n
    BY <1>1, <1>2, <2>1 DEF Taken, Done
  <2>3. payload' # NoText => payload' = payload /\
            \E m \in 1 .. n : /\ IsText(payload) /\ payload = requested[m]
                              /\ Len(sent) + posted <= TextsUpTo(requested, m)
                              /\ Among(sent, requested, m)
    BY <1>1, <2>1 DEF Counted
  <2>4. Counted(n)'
    BY <1>2, <1>3, <1>4, <2>2, <2>3 DEF Counted
  <2>5. InTurn(n)'
    <3>1. TextsUpTo(requested, n) = TextsUpTo(requested, n - 1) /\ Done(n) = n - 1
      <4>1. n - 1 \in Nat /\ (n - 1) + 1 = n
        BY <1>2, <1>3
      <4>2. ~IsText(requested[(n - 1) + 1])
        BY <1>3, <1>6, <4>1
      <4>3. TextsUpTo(requested, (n - 1) + 1) = TextsUpTo(requested, n - 1)
        BY <4>1, <4>2, CountGrows
      <4>. QED  BY <4>1, <4>3 DEF Done
    <3>2. ~overtaken' => ~overtaken /\ (posted = 0 \/ payload' = payload)
      <4>. DEFINE kind == Ops[op[1]][op[2]]
      <4>1. overtaken' = (overtaken \/ (posted > 0 /\ kind # "until"))
        OBVIOUS
      <4>2. kind # "text"
        BY <1>3, <1>6 DEF IsText
      <4>3. kind = "until" => payload' = payload
        BY <4>2
      <4>. DEFINE waiting == posted > 0
      <4>4. ~waiting => posted = 0
        BY <1>2
      <4>. HIDE DEF kind, waiting
      <4>. QED  BY Zenon, <4>1, <4>3, <4>4 DEF waiting
    <3>. QED  BY <1>1, <1>2, <2>1, <2>2, <3>1, <3>2 DEF InTurn
  <2>. QED  BY <1>1, <1>2, <2>2, <2>4, <2>5 DEF NvimWrites, NeverSendsOlder
<1>. QED  BY <1>5, <1>6

\* The thread posts the writing of its text.
LEMMA NvimPostPayload ==
    ASSUME IInv, editor = "nvim", PostPayload
    PROVE  NvimWrites' /\ NeverSendsOlder'
<1>. USE DEF PostPayload
<1>1. PICK n \in 0 .. Len(requested) : Taken(n) /\ Counted(n) /\ InTurn(n)
  BY NvimState
<1>2. /\ NoneOlder(sent, requested) /\ posted' = posted + 1 /\ thread' = "check"
      /\ UNCHANGED <<editor, running, alive, queue, op, payload, requested, sent, overtaken>>
      /\ Len(requested) \in Nat /\ Len(sent) \in Nat
  BY NvimState
<1>3. payload = op /\ IsText(op)
  BY <1>1 DEF Taken
<1>4. /\ n > 0 /\ n \in 1 .. Len(requested) /\ op = requested[n] /\ op # NoText
      /\ Len(sent) + (posted + 1) <= TextsUpTo(requested, n)
  BY <1>1, <1>3, NvimInHand
<1>5. Among(sent, requested, n)
  BY <1>1 DEF Counted
<1>6. Taken(n)' /\ Done(n)' = n
  BY <1>1, <1>2 DEF Taken, Done
<1>7. \E m \in 1 .. n : /\ IsText(payload) /\ payload = requested[m]
                        /\ Len(sent) + (posted + 1) <= TextsUpTo(requested, m)
                        /\ Among(sent, requested, m)
  <2>1. n \in 1 .. n
    BY <1>4
  <2>. QED  BY <1>3, <1>4, <1>5, <2>1
<1>8. Counted(n)'
  BY <1>2, <1>4, <1>5, <1>6, <1>7 DEF Counted
<1>9. InTurn(n)'
  <2>1. ASSUME ~overtaken, running
        PROVE  posted = 0 /\ Len(sent) + 1 = TextsUpTo(requested, n)
    <3>1. posted = 0 /\ Len(sent) + posted = TextsUpTo(requested, Done(n)) /\ Done(n) = n - 1
      BY <1>1, <2>1 DEF InTurn, Done
    <3>2. n - 1 \in Nat /\ (n - 1) + 1 = n
      BY <1>2, <1>4
    <3>3. IsText(requested[(n - 1) + 1])
      BY <1>3, <1>4, <3>2
    <3>4. TextsUpTo(requested, (n - 1) + 1) = TextsUpTo(requested, n - 1) + 1
      BY <3>2, <3>3, CountGrows
    <3>. QED  BY <1>2, <3>1, <3>2, <3>4
  <2>2. n \in 1 .. n
    BY <1>4
  <2>3. ~overtaken => InPlace(sent, requested)
    BY <1>1 DEF InTurn
  <2>. QED  BY <1>2, <1>3, <1>4, <1>6, <2>1, <2>2, <2>3 DEF InTurn
<1>. QED  BY <1>1, <1>2, <1>6, <1>8, <1>9 DEF NvimWrites, NeverSendsOlder

\* The steps that neither ask for, take nor write anything; disposing puts the
\* end into the queue.
LEMMA NvimRest ==
    ASSUME IInv, editor = "nvim", Check \/ Terminate \/ Dies \/ Dispose
    PROVE  NvimWrites' /\ NeverSendsOlder'
<1>1. PICK n \in 0 .. Len(requested) : Taken(n) /\ Counted(n) /\ InTurn(n)
  BY NvimState
<1>2. NoneOlder(sent, requested) /\ Len(queue) \in Nat
      /\ queue \in Seq(AllOperations \cup {NoText})
  BY NvimState
<1>3. UNCHANGED <<editor, op, payload, posted, requested, sent, overtaken>>
      /\ (running' => running) /\ (thread' = "post" => thread = "post")
  BY DEF Check, Terminate, Dies, Dispose
<1>4. Done(n)' = Done(n) /\ Counted(n)' /\ InTurn(n)'
  <2>1. Done(n)' = Done(n)
    BY DEF Done, Check, Terminate, Dies, Dispose
  <2>. QED  BY <1>1, <1>3, <2>1 DEF Counted, InTurn
<1>5. Taken(n)'
  <2>1. CASE Check \/ Terminate \/ Dies
    <3>1. UNCHANGED <<alive, queue>> /\ (thread' # "ended" => thread # "ended")
          /\ (thread' \in {"deal", "post"} => thread' = thread)
      BY <2>1 DEF Check, Terminate, Dies
    <3>. QED  BY <1>1, <1>3, <3>1 DEF Taken
  <2>2. CASE Dispose
    <3>1. /\ ~ alive' /\ thread' = thread /\ Len(queue') = Len(queue) + 1
          /\ queue'[Len(queue) + 1] = NoText
          /\ \A k \in 1 .. Len(queue) : queue'[k] = queue[k]
          /\ \A k \in 1 .. Len(queue') : k = Len(queue) + 1 \/ k \in 1 .. Len(queue)
      <4>. DEFINE All == AllOperations \cup {NoText}
      <4>1. queue \in Seq(All) /\ NoText \in All /\ queue' = Append(queue, NoText)
        BY <1>2, <2>2 DEF Dispose
      <4>. HIDE DEF All
      <4>. QED  BY <1>2, <2>2, <4>1 DEF Dispose
    <3>2. ASSUME NEW k \in 1 .. Len(queue'), thread # "ended"
          PROVE  queue'[k] = NoText \/
                    (n + k \in 1 .. Len(requested) /\ queue'[k] = requested[n + k])
      <4>1. \A i \in 1 .. Len(queue) : queue[i] = NoText \/
                (n + i \in 1 .. Len(requested) /\ queue[i] = requested[n + i])
        BY <1>1, <3>2 DEF Taken
      <4>. QED  BY <3>1, <4>1
    <3>. QED  BY <1>1, <1>3, <3>1, <3>2 DEF Taken
  <2>. QED  BY <2>1, <2>2
<1>. QED  BY <1>1, <1>2, <1>3, <1>4, <1>5 DEF NvimWrites, NeverSendsOlder

\* Every step.
LEMMA NvimKeeps ==
    ASSUME IInv, Next
    PROVE  NvimWrites' /\ NeverSendsOlder' /\ InPlaceUnlessOvertaken'
<1>. SUFFICES NvimWrites' /\ NeverSendsOlder'
  BY DEF NvimWrites, InPlaceUnlessOvertaken, InTurn
<1>1. editor' = editor
  BY DEF Next, LoopStep, Send, SendStep, RunPosted, Terminate, Dies, Dispose, Check, Get, Deal,
     PostPayload
<1>2. CASE editor = "nvim"
  <2>1. \A s \in Sends : ~ SendStep(s)
    BY <1>2 DEF SendStep
  <2>. QED
    BY <1>2, <2>1, NvimSend, NvimRunPosted, NvimGet, NvimDeal, NvimPostPayload, NvimRest
       DEF Next, LoopStep
<1>3. CASE editor # "nvim"
  BY <1>1, <1>3 DEF NvimWrites, NeverSendsOlder
<1>. QED  BY <1>2, <1>3

-----------------------------------------------------------------------------
(***************************************************************************)
(* The theorems.                                                           *)
(***************************************************************************)

\* Every step keeps the invariant.
LEMMA StepKeeps == IInv /\ [Next]_vars => IInv'
<1>. SUFFICES ASSUME IInv, [Next]_vars  PROVE IInv'
  OBVIOUS
<1>1. ConstantsOK'
  BY DEF IInv, ConstantsOK
<1>2. CASE Next
  <2>1. TypeOK' /\ AtTyped' /\ OneThread'
    BY <1>2, TypeKeeps DEF IInv
  <2>. QED
    BY <1>1, <1>2, <2>1, VimKeeps, NvimKeeps, VSCodeKeeps DEF IInv, WritesInOrder
<1>3. CASE UNCHANGED vars
  BY <1>1, <1>3 DEF vars, IInv, TypeOK, AtTyped, OneThread, VimWrites, NvimWrites, Taken, Counted,
     InTurn, Done, VSCodeWrites, WritesInOrder, NeverSendsOlder, InPlaceUnlessOvertaken, EachSendInOrder
<1>. QED  BY <1>2, <1>3

\* What the input has in common on all editors: Neovim's thread has taken a
\* first part of the operations asked for, and what is written and posted comes
\* from the texts of that part; VSCode's threads have written what they are
\* done with; Vim writes in send (_InputSolverTask, _send_thread, send).
THEOREM Invariance == ConstantsOK /\ Spec => []IInv
<1>1. ConstantsOK /\ Init => IInv
  BY InitHolds
<1>2. IInv /\ [Next]_vars => IInv'
  BY StepKeeps
<1>. QED  BY <1>1, <1>2, PTL DEF Spec

\* The state is well formed, and the input thread deals with an operation only,
\* never with the end or with nothing (loop, deal_operation).
THEOREM TypeCorrect == ConstantsOK /\ Spec => []TypeOK
<1>1. IInv => TypeOK
  BY DEF IInv
<1>. QED  BY <1>1, Invariance, PTL

\* However sends, the input thread, the posted lambdas and the end of the process
\* interleave: Neovim never writes behind what was asked for, and writes just what
\* was asked for as long as payload was not changed under a waiting lambda; VSCode
\* writes the texts of each send in their order, none twice; Vim writes all of
\* them in send (loop, threadsafe_call, _send_thread, send).
THEOREM Ordered == ConstantsOK /\ Spec => []WritesInOrder
<1>1. IInv => WritesInOrder
  BY DEF IInv
<1>. QED  BY <1>1, Invariance, PTL
===============================================================================
