--------------------------- MODULE ManuscriptProofs ---------------------------
(***************************************************************************)
(* Proofs about Manuscript, for any questions, pieces and number of edits. *)
(* The argument is about which token comes before which: what is typed,    *)
(* deleted or answered brings no two tokens of before into another order.  *)
(***************************************************************************)
EXTENDS Manuscript, FiniteSetTheorems, SequenceTheorems, WellFoundedInduction, TLAPS

Piece(p) == Token("text", p)
Pair(q)  == {Begin(q), End(q)}

\* Somewhere in the text, a token comes before another.
Before(d, s, t) == \E i, j \in 1 .. Len(d) : i < j /\ d[i] = s /\ d[j] = t

\* The edits that wait for an answer, and the questions that have no markers in
\* the manuscript: they are new, or about all of it.
Editing(q)  == phase[q] = "waiting" /\ kind[q] = "edit"
Unmarked(q) == phase[q] = "new" \/ (phase[q] = "waiting" /\ kind[q] # "edit")

\* A question has markers only from when it is asked for an edit.
Marked(q) ==
    /\ Unmarked(q) => Pair(q) \cap ToSet(doc) = {}
    /\ phase[q] = "waiting" /\ kind[q] # "edit" => Pair(q) \cap ToSet(sent[q]) = {}

\* While its answer is awaited, its beginning and its end occur once at most, and
\* in their order.
InOrder(q) ==
    Editing(q) => /\ ~ Before(doc, Begin(q), Begin(q)) /\ ~ Before(doc, End(q), End(q))
                  /\ ~ Before(doc, End(q), Begin(q))

\* What lies between its markers is of its scope, and an evolving question is
\* about everything that is there.
ScopeHolds(q) ==
    \A p \in Pieces :
        /\ Editing(q) /\ Before(doc, Begin(q), Piece(p)) /\ Before(doc, Piece(p), End(q))
              => Piece(p) \in scope[q]
        /\ phase[q] = "waiting" /\ kind[q] = "evolve" /\ Piece(p) \in ToSet(doc)
              => Piece(p) \in scope[q]

Sound(q) == Marked(q) /\ InOrder(q) /\ ScopeHolds(q)

\* A piece of the manuscript occurs once.
PiecesOnce == \A p \in Pieces : ~ Before(doc, Piece(p), Piece(p))

\* A beginning and its end are there together, and are gone when the question ends.
Paired ==
    \A q \in Questions :
        /\ Begin(q) \in ToSet(doc) <=> End(q) \in ToSet(doc)
        /\ phase[q] = "ended" => Pair(q) \cap ToSet(doc) = {}

\* No two pairs cross.
Crossing(d, q, r) ==
    Before(d, Begin(q), Begin(r)) /\ Before(d, Begin(r), End(q)) /\ Before(d, End(q), End(r))

Nested == \A q, r \in Questions : q # r => ~ Crossing(doc, q, r)

\* As long as the model puts back no marker of another question; and as long as
\* nothing happens that leaves markers behind.
Keeping ==
    "kept" \notin strayed =>
        PiecesOnce /\ (\A q \in Questions : Sound(q)) /\ LostOnlyInScope

Pairing == strayed = {} /\ ~gone => Paired /\ Nested

IInv ==
    /\ TypeOK
    /\ PolicyIsTheUsers
    /\ Keeping
    /\ Pairing

-----------------------------------------------------------------------------
(***************************************************************************)
(* Tokens and texts.                                                       *)
(***************************************************************************)

\* Tokens differ when their kinds or what they are of differ.
LEMMA TokensDiffer ==
    ASSUME NEW q, NEW r, NEW p, NEW n
    PROVE  /\ Begin(q) = Begin(r) => q = r
           /\ End(q) = End(r) => q = r
           /\ Piece(q) = Piece(r) => q = r
           /\ Begin(q) # End(r) /\ Begin(q) # Piece(p) /\ End(q) # Piece(p)
           /\ Answer(n) \notin {Begin(q), End(q), Piece(p)}
           /\ Token("typed", n) \notin {Begin(q), End(q), Piece(p)}
BY DEF Begin, End, Answer, Piece, Token

\* A set of naturals that is not empty has a least member.
LEMMA MinIsLeast ==
    ASSUME NEW S, S \subseteq Nat, S # {}
    PROVE  Min(S) \in S /\ \A n \in S : Min(S) <= n
<1>1. PICK n \in S : \A m \in S : ~ (<<m, n>> \in OpToRel(<, Nat))
  BY NatLessThanWellFounded, WFMin
<1>2. ASSUME NEW m \in S  PROVE n <= m
  <2>1. ~ (<<m, n>> \in OpToRel(<, Nat))
    BY <1>1
  <2>2. ~ (m < n)
    BY <2>1 DEF OpToRel
  <2>. QED  BY <2>2
<1>. QED  BY <1>2 DEF Min

\* A text behind another, and a part of one.
Behind(c, a, b) ==
    /\ Len(c) = Len(a) + Len(b)
    /\ \A k \in 1 .. Len(a) : c[k] = a[k]
    /\ \A k \in 1 .. Len(b) : c[Len(a) + k] = b[k]

LEMMA ConcatPlaces ==
    ASSUME NEW A, NEW a \in Seq(A), NEW b \in Seq(A)
    PROVE  a \o b \in Seq(A) /\ Behind(a \o b, a, b)
<1>1. a \o b \in Seq(A) /\ Len(a \o b) = Len(a) + Len(b)
  OBVIOUS
<1>2. \A k \in 1 .. Len(a) : (a \o b)[k] = a[k]
  OBVIOUS
<1>3. \A k \in 1 .. Len(b) : (a \o b)[Len(a) + k] = b[k]
  OBVIOUS
<1>. QED  BY <1>1, <1>2, <1>3, Zenon DEF Behind

Part(p, d, i, j) ==
    /\ Len(p) = (j - i) + 1
    /\ \A k \in i .. j : p[(k - i) + 1] = d[k]

LEMMA PartPlaces ==
    ASSUME NEW A, NEW d \in Seq(A), NEW i \in 1 .. (Len(d) + 1), NEW j \in (i - 1) .. Len(d)
    PROVE  SubSeq(d, i, j) \in Seq(A) /\ Part(SubSeq(d, i, j), d, i, j)
<1>1. i \in Int /\ j \in Int /\ i - 1 <= j
  OBVIOUS
<1>2. \A k \in i .. j : d[k] \in A
  OBVIOUS
<1>3. /\ SubSeq(d, i, j) \in Seq(A)
      /\ Len(SubSeq(d, i, j)) = IF i <= j THEN j - i + 1 ELSE 0
      /\ \A k \in 1 .. j - i + 1 : SubSeq(d, i, j)[k] = d[i + k - 1]
  BY ONLY <1>1, <1>2, SubSeqProperties
<1>. DEFINE p == SubSeq(d, i, j)
<1>. HIDE DEF p
<1>4. Len(p) = (j - i) + 1
  <2>1. Len(p) = IF i <= j THEN j - i + 1 ELSE 0
    BY <1>3, Zenon DEF p
  <2>. QED  BY ONLY <1>1, <2>1
<1>5. ASSUME NEW k \in i .. j  PROVE p[(k - i) + 1] = d[k]
  <2>1. (k - i) + 1 \in 1 .. j - i + 1 /\ i + ((k - i) + 1) - 1 = k
    BY ONLY <1>1, k \in i .. j
  <2>2. p[(k - i) + 1] = d[i + ((k - i) + 1) - 1]
    BY <1>3, <2>1, Zenon DEF p
  <2>. QED  BY ONLY <2>1, <2>2, Zenon
<1>. QED  BY <1>3, <1>4, <1>5, Zenon DEF Part, p

\* The end of a text behind another one, and the same with the beginning before
\* it: some places are replaced.
Joined(new, a, d, j) ==
    /\ Len(new) = Len(a) + (Len(d) - j)
    /\ \A k \in 1 .. Len(a) : new[k] = a[k]
    /\ \A k \in 1 .. (Len(d) - j) : new[Len(a) + k] = d[j + k]

Replaced(new, d, i, j, mid) ==
    /\ Len(new) = i + Len(mid) + (Len(d) - j)
    /\ \A k \in 1 .. i : new[k] = d[k]
    /\ \A k \in 1 .. Len(mid) : new[i + k] = mid[k]
    /\ \A k \in 1 .. (Len(d) - j) : new[i + Len(mid) + k] = d[j + k]

Splice(d, i, j, mid) == SubSeq(d, 1, i) \o mid \o SubSeq(d, j + 1, Len(d))

LEMMA EndPlaces ==
    ASSUME NEW A, NEW a \in Seq(A), NEW d \in Seq(A), NEW j \in 0 .. Len(d)
    PROVE  /\ a \o SubSeq(d, j + 1, Len(d)) \in Seq(A)
           /\ Joined(a \o SubSeq(d, j + 1, Len(d)), a, d, j)
<1>. DEFINE p == SubSeq(d, j + 1, Len(d))
            n == Len(d)
<1>1. n \in Nat /\ j \in 0 .. n /\ j + 1 \in 1 .. (n + 1) /\ n \in ((j + 1) - 1) .. n
  OBVIOUS
<1>2. p \in Seq(A) /\ Part(p, d, j + 1, n)
  BY <1>1, PartPlaces, Zenon
<1>3. a \o p \in Seq(A) /\ Behind(a \o p, a, p)
  BY <1>2, ConcatPlaces, Zenon
<1>. DEFINE c == a \o p
<1>. HIDE DEF p, n, c
<1>4. Len(p) = n - j
  <2>1. Len(p) = (n - (j + 1)) + 1
    BY <1>2, Zenon DEF Part
  <2>. QED  BY ONLY <1>1, <2>1
<1>5. Len(c) = Len(a) + (n - j) /\ \A k \in 1 .. Len(a) : c[k] = a[k]
  BY <1>3, <1>4, Zenon DEF Behind, c
<1>6. ASSUME NEW k \in 1 .. (n - j)  PROVE c[Len(a) + k] = d[j + k]
  <2>1. j + k \in (j + 1) .. n /\ ((j + k) - (j + 1)) + 1 = k
    BY ONLY <1>1, k \in 1 .. (n - j)
  <2>2. p[((j + k) - (j + 1)) + 1] = d[j + k]
    BY <1>2, <2>1, Zenon DEF Part
  <2>3. c[Len(a) + k] = p[k]
    BY <1>3, <1>4, Zenon DEF Behind, c
  <2>. QED  BY <2>1, <2>2, <2>3, Zenon
<1>. QED  BY <1>3, <1>5, <1>6, Zenon DEF Joined, p, n, c

LEMMA SplicePlaces ==
    ASSUME NEW A, NEW d \in Seq(A), NEW mid \in Seq(A),
           NEW i \in 0 .. Len(d), NEW j \in i .. Len(d),
           NEW new, new = Splice(d, i, j, mid)
    PROVE  new \in Seq(A) /\ Replaced(new, d, i, j, mid)
<1>1. PICK a : a = SubSeq(d, 1, i) \o mid
  OBVIOUS
<1>2. new = a \o SubSeq(d, j + 1, Len(d))
  BY <1>1, Zenon DEF Splice
<1>. DEFINE n == Len(mid)
<1>3. /\ a \in Seq(A) /\ Len(a) = i + n
      /\ \A k \in 1 .. i : a[k] = d[k]
      /\ \A k \in 1 .. n : a[i + k] = mid[k]
  <2>1. SubSeq(d, 1, i) \o mid \in Seq(A) /\ Len(SubSeq(d, 1, i) \o mid) = i + Len(mid)
    OBVIOUS
  <2>2. \A k \in 1 .. i : (SubSeq(d, 1, i) \o mid)[k] = d[k]
    OBVIOUS
  <2>3. \A k \in 1 .. Len(mid) : (SubSeq(d, 1, i) \o mid)[i + k] = mid[k]
    OBVIOUS
  <2>. QED  BY ONLY <1>1, <2>1, <2>2, <2>3, Zenon
<1>4. j \in 0 .. Len(d) /\ n \in Nat
  OBVIOUS
<1>. HIDE DEF n
<1>5. new \in Seq(A) /\ Joined(new, a, d, j)
  <2>1. a \in Seq(A) /\ j \in 0 .. Len(d)
    BY <1>3, <1>4
  <2>2. /\ a \o SubSeq(d, j + 1, Len(d)) \in Seq(A)
        /\ Joined(a \o SubSeq(d, j + 1, Len(d)), a, d, j)
    BY ONLY d \in Seq(A), <2>1, EndPlaces, Zenon
  <2>. QED  BY ONLY <1>2, <2>2, Zenon
<1>6. \A k \in 1 .. i : k \in 1 .. Len(a)
  BY ONLY <1>3, <1>4, i \in 0 .. Len(d), Len(d) \in Nat
<1>7. \A k \in 1 .. n : i + k \in 1 .. Len(a)
  BY ONLY <1>3, <1>4, i \in 0 .. Len(d), Len(d) \in Nat
<1>8. ASSUME NEW k \in 1 .. i  PROVE new[k] = d[k]
  <2>1. k \in 1 .. Len(a) /\ a[k] = d[k]
    BY <1>3, <1>6, Zenon
  <2>. QED  BY <1>5, <2>1, Zenon DEF Joined
<1>9. ASSUME NEW k \in 1 .. n  PROVE new[i + k] = mid[k]
  <2>1. i + k \in 1 .. Len(a) /\ a[i + k] = mid[k]
    BY <1>3, <1>7, Zenon
  <2>. QED  BY <1>5, <2>1, Zenon DEF Joined
<1>10. Len(new) = i + n + (Len(d) - j)
  BY <1>3, <1>5, Zenon DEF Joined
<1>11. \A k \in 1 .. (Len(d) - j) : new[i + n + k] = d[j + k]
  BY <1>3, <1>5, Zenon DEF Joined
<1>. QED  BY <1>5, <1>8, <1>9, <1>10, <1>11, Zenon DEF Replaced, n

\* Places i + 1 .. j of a text are replaced by some tokens: what else was there
\* stays in its order, and nothing else comes in.
Spliced(d, new, i, j, tokens) ==
    /\ \A s, t : s \notin tokens /\ t \notin tokens /\ Before(new, s, t) => Before(d, s, t)
    /\ \A t \in ToSet(new) :
          t \in tokens \/ \E k \in 1 .. Len(d) : d[k] = t /\ ~ (i < k /\ k <= j)
    /\ \A k \in 1 .. Len(d) : d[k] \in ToSet(new) \/ (i < k /\ k <= j)

LEMMA SpliceKeepsOrder ==
    ASSUME NEW A, NEW d \in Seq(A), NEW mid \in Seq(A),
           NEW i \in 0 .. Len(d), NEW j \in i .. Len(d),
           NEW new, new = Splice(d, i, j, mid)
    PROVE  new \in Seq(A) /\ Spliced(d, new, i, j, ToSet(mid))
<1>. DEFINE n == Len(mid)
            Old(k) == IF k <= i THEN k ELSE (k - (i + n)) + j
<1>1. /\ new \in Seq(A) /\ Len(new) = i + n + (Len(d) - j)
      /\ \A k \in 1 .. i : new[k] = d[k]
      /\ \A k \in 1 .. n : new[i + k] = mid[k]
      /\ \A k \in 1 .. (Len(d) - j) : new[i + n + k] = d[j + k]
      /\ n \in Nat /\ Len(d) \in Nat
  <2>1. n = Len(mid)
    OBVIOUS
  <2>2. n \in Nat /\ Len(d) \in Nat
    OBVIOUS
  <2>. HIDE DEF n
  <2>3. new \in Seq(A) /\ Replaced(new, d, i, j, mid)
    BY SplicePlaces, Zenon
  <2>. QED  BY <2>1, <2>2, <2>3, Zenon DEF Replaced
<1>. HIDE DEF n
<1>2. ASSUME NEW k \in 1 .. Len(new), new[k] \notin ToSet(mid)
      PROVE  Old(k) \in 1 .. Len(d) /\ new[k] = d[Old(k)] /\ ~ (i < Old(k) /\ Old(k) <= j)
             /\ (k <= i \/ k > i + n)
  <2>1. CASE k <= i
    BY <1>1, <2>1
  <2>2. CASE k > i /\ k <= i + n
    <3>1. k - i \in 1 .. n /\ i + (k - i) = k
      BY <1>1, <2>2
    <3>2. new[k] = mid[k - i]
      BY <1>1, <3>1
    <3>3. mid[k - i] \in ToSet(mid)
      BY <3>1 DEF ToSet, n
    <3>. QED  BY <1>2, <3>2, <3>3
  <2>3. CASE k > i + n
    <3>. DEFINE m == k - (i + n)
    <3>1. m \in 1 .. (Len(d) - j) /\ k = i + n + m /\ j + m \in 1 .. Len(d) /\ Old(k) = j + m
      BY <1>1, <2>3
    <3>2. new[k] = d[j + m]
      BY <1>1, <3>1
    <3>3. j + m > j
      BY <3>1
    <3>. QED  BY <2>3, <3>1, <3>2, <3>3
  <2>. QED  BY <1>1, <2>1, <2>2, <2>3
<1>3. ASSUME NEW s, NEW t, s \notin ToSet(mid), t \notin ToSet(mid), Before(new, s, t)
      PROVE  Before(d, s, t)
  <2>1. PICK k, l \in 1 .. Len(new) : k < l /\ new[k] = s /\ new[l] = t
    BY <1>3 DEF Before
  <2>2. /\ Old(k) \in 1 .. Len(d) /\ d[Old(k)] = s /\ (k <= i \/ k > i + n)
        /\ Old(l) \in 1 .. Len(d) /\ d[Old(l)] = t /\ (l <= i \/ l > i + n)
    BY <1>2, <1>3, <2>1
  <2>3. Old(k) < Old(l)
    BY <1>1, <2>1, <2>2
  <2>. QED  BY <2>2, <2>3 DEF Before
<1>4. ASSUME NEW t \in ToSet(new), t \notin ToSet(mid)
      PROVE  \E k \in 1 .. Len(d) : d[k] = t /\ ~ (i < k /\ k <= j)
  <2>1. PICK k \in 1 .. Len(new) : new[k] = t
    BY <1>1 DEF ToSet
  <2>. QED  BY <1>2, <1>4, <2>1
<1>5. ASSUME NEW k \in 1 .. Len(d), ~ (i < k /\ k <= j)  PROVE d[k] \in ToSet(new)
  <2>1. DOMAIN new = 1 .. Len(new)
    BY <1>1
  <2>2. CASE k <= i
    <3>1. k \in 1 .. i /\ k \in 1 .. Len(new)
      BY <1>1, <2>2
    <3>. QED  BY <1>1, <2>1, <3>1 DEF ToSet
  <2>3. CASE k > j
    <3>. DEFINE m == k - j
    <3>1. m \in 1 .. (Len(d) - j) /\ j + m = k /\ i + n + m \in 1 .. Len(new)
      BY <1>1, <2>3
    <3>. HIDE DEF m
    <3>2. new[i + n + m] = d[k]
      BY <1>1, <3>1
    <3>. QED  BY <2>1, <3>1, <3>2 DEF ToSet
  <2>. QED  BY <1>1, <1>5, <2>2, <2>3
<1>. QED  BY <1>1, <1>3, <1>4, <1>5, Zenon DEF Spliced

\* Nothing comes in beside some tokens, and those come in no other order.
Orderly(old, new, others) ==
    /\ \A s, t : s \notin others /\ t \notin others /\ Before(new, s, t) => Before(old, s, t)
    /\ ToSet(new) \subseteq ToSet(old) \cup others

LEMMA TokensOf ==
    ASSUME NEW A, NEW d \in Seq(A)
    PROVE  \A t : t \in ToSet(d) <=> \E k \in 1 .. Len(d) : d[k] = t
BY DEF ToSet

LEMMA TokensIn ==
    ASSUME NEW A, NEW d \in Seq(A)
    PROVE  ToSet(d) \subseteq A
BY DEF ToSet

LEMMA SplicedIsOrderly ==
    ASSUME NEW A, NEW d \in Seq(A), NEW new, NEW i, NEW j, NEW tokens,
           Spliced(d, new, i, j, tokens)
    PROVE  Orderly(d, new, tokens)
<1>1. ASSUME NEW t \in ToSet(new)  PROVE t \in ToSet(d) \/ t \in tokens
  BY TokensOf, Zenon DEF Spliced
<1>. QED  BY <1>1, Zenon DEF Spliced, Orderly

LEMMA InsertKeeps ==
    ASSUME NEW A, NEW d \in Seq(A), NEW k \in 0 .. Len(d), NEW t \in A,
           NEW new, new = InsertAt(d, k + 1, t)
    PROVE  /\ new \in Seq(A) /\ Orderly(d, new, {t})
           /\ ToSet(d) \subseteq ToSet(new)
<1>1. new = Splice(d, k, k, <<t>>)
  <2>1. (k + 1) - 1 = k
    OBVIOUS
  <2>. QED  BY <2>1, Zenon DEF InsertAt, Splice
<1>2. <<t>> \in Seq(A) /\ ToSet(<<t>>) = {t}
  BY DEF ToSet
<1>3. k \in k .. Len(d)
  OBVIOUS
<1>4. new \in Seq(A) /\ Spliced(d, new, k, k, {t})
  <2>1. new \in Seq(A) /\ Spliced(d, new, k, k, ToSet(<<t>>))
    BY <1>1, <1>2, <1>3, SpliceKeepsOrder, Zenon
  <2>. QED  BY <1>2, <2>1, Zenon
<1>5. ToSet(d) \subseteq ToSet(new)
  <2>1. ASSUME NEW m \in 1 .. Len(d)  PROVE d[m] \in ToSet(new)
    <3>1. ~ (k < m /\ m <= k)
      OBVIOUS
    <3>. QED  BY <1>4, <3>1, Zenon DEF Spliced
  <2>. QED  BY <2>1, TokensOf
<1>6. Orderly(d, new, {t})
  BY <1>4, SplicedIsOrderly
<1>. QED  BY <1>4, <1>5, <1>6, Zenon

LEMMA RemoveKeeps ==
    ASSUME NEW A, NEW d \in Seq(A), NEW k \in 1 .. Len(d), NEW new, new = RemoveAt(d, k)
    PROVE  /\ new \in Seq(A) /\ Orderly(d, new, {})
           /\ \A t \in ToSet(d) : t \in ToSet(new) \/ t = d[k]
           /\ d[k] \in ToSet(new) => Before(d, d[k], d[k])
<1>1. new = Splice(d, k - 1, k, <<>>)
  <2>1. SubSeq(d, 1, k - 1) \in Seq(A)
    OBVIOUS
  <2>2. SubSeq(d, 1, k - 1) \o <<>> = SubSeq(d, 1, k - 1)
    BY <2>1, ConcatEmptySeq
  <2>. QED  BY <2>2, Zenon DEF RemoveAt, Splice
<1>2. <<>> \in Seq(A) /\ ToSet(<<>>) = {}
  BY DEF ToSet
<1>3. k - 1 \in 0 .. Len(d) /\ k \in (k - 1) .. Len(d)
  OBVIOUS
<1>4. new \in Seq(A) /\ Spliced(d, new, k - 1, k, {})
  <2>1. new \in Seq(A) /\ Spliced(d, new, k - 1, k, ToSet(<<>>))
    BY <1>1, <1>2, <1>3, SpliceKeepsOrder, Zenon
  <2>. QED  BY <1>2, <2>1, Zenon
<1>5. \A t \in ToSet(d) : t \in ToSet(new) \/ t = d[k]
  <2>1. ASSUME NEW m \in 1 .. Len(d)  PROVE d[m] \in ToSet(new) \/ d[m] = d[k]
    <3>1. k - 1 < m /\ m <= k => m = k
      OBVIOUS
    <3>. QED  BY <1>4, <3>1, Zenon DEF Spliced
  <2>. QED  BY <2>1, TokensOf
<1>6. Orderly(d, new, {})
  BY <1>4, SplicedIsOrderly
<1>7. ASSUME d[k] \in ToSet(new)  PROVE Before(d, d[k], d[k])
  <2>1. PICK m \in 1 .. Len(d) : d[m] = d[k] /\ ~ (k - 1 < m /\ m <= k)
    BY <1>4, <1>7, Zenon DEF Spliced
  <2>2. m < k \/ k < m
    BY <2>1
  <2>. QED  BY <2>1, <2>2 DEF Before
<1>. QED  BY <1>4, <1>5, <1>6, <1>7, Zenon

\* The first of a token is taken out, if it is there.
LEMMA RemoveFirstKeeps ==
    ASSUME NEW A, NEW d \in Seq(A), NEW e, NEW new, new = RemoveFirst(d, e)
    PROVE  /\ new \in Seq(A) /\ Orderly(d, new, {})
           /\ \A t \in ToSet(d) : t \in ToSet(new) \/ t = e
           /\ e \in ToSet(new) => Before(d, e, e)
<1>1. CASE ~ \E i \in 1 .. Len(d) : d[i] = e
  <2>1. new = d
    BY <1>1 DEF RemoveFirst
  <2>2. e \notin ToSet(d)
    BY <1>1, TokensOf
  <2>. QED  BY <2>1, <2>2 DEF Orderly
<1>2. CASE \E i \in 1 .. Len(d) : d[i] = e
  <2>. DEFINE I == {i \in 1 .. Len(d) : d[i] = e}
  <2>1. I \subseteq Nat /\ I # {}
    BY <1>2
  <2>2. SelectInSeq(d, LAMBDA v : v = e) = Min(I)
    BY <1>2 DEF SelectInSeq
  <2>3. new = RemoveAt(d, Min(I))
    BY <1>2, <2>2 DEF RemoveFirst
  <2>4. \A i \in I : i \in 1 .. Len(d) /\ d[i] = e
    OBVIOUS
  <2>. HIDE DEF I
  <2>5. Min(I) \in I
    BY <2>1, MinIsLeast
  <2>6. Min(I) \in 1 .. Len(d) /\ d[Min(I)] = e
    BY <2>4, <2>5, Zenon
  <2>. QED  BY <2>3, <2>6, RemoveKeeps
<1>. QED  BY <1>1, <1>2

-----------------------------------------------------------------------------
(***************************************************************************)
(* Induction over the numbers, and the tokens of a text that are in a set. *)
(***************************************************************************)

\* A set that has 0, and with each number the next one, has all of them.
LEMMA NatInduction1 ==
    ASSUME NEW S, 0 \in S, \A n \in Nat : n \in S => n + 1 \in S
    PROVE  \A n \in Nat : n \in S
<1>1. SUFFICES ASSUME NEW m \in Nat, m \notin S  PROVE FALSE
  OBVIOUS
<1>. DEFINE T == {n \in Nat : n \notin S}
<1>2. m \in T /\ T \subseteq Nat
  BY <1>1
<1>. HIDE DEF T
<1>3. PICK x \in T : \A y \in T : ~ (<<y, x>> \in OpToRel(<, Nat))
  BY <1>2, NatLessThanWellFounded, WFMin
<1>4. x \in Nat /\ x \notin S
  BY <1>3 DEF T
<1>5. x # 0 /\ x - 1 \in Nat
  BY <1>4
<1>6. <<x - 1, x>> \in OpToRel(<, Nat)
  BY <1>4, <1>5 DEF OpToRel
<1>7. x - 1 \in S
  BY <1>3, <1>5, <1>6 DEF T
<1>8. (x - 1) + 1 \in S
  BY <1>5, <1>7
<1>. QED  BY <1>4, <1>5, <1>8

One(text, t, S) == IF t \in S THEN Append(text, t) ELSE text

IsUpTo(f, d, S, n) ==
    f = [i \in 0 .. n |-> IF i = 0 THEN <<>> ELSE One(f[i - 1], d[i], S)]

LEMMA UpToExists ==
    ASSUME NEW d, NEW S, NEW n \in Nat
    PROVE  \E f : IsUpTo(f, d, S, n)
<1>. DEFINE N == {k \in Nat : \E f : IsUpTo(f, d, S, k)}
<1>1. 0 \in N
  <2>. DEFINE f == [i \in 0 .. 0 |-> <<>>]
  <2>1. f = [i \in 0 .. 0 |-> IF i = 0 THEN <<>> ELSE One(f[i - 1], d[i], S)]
    OBVIOUS
  <2>. QED  BY <2>1 DEF IsUpTo
<1>2. ASSUME NEW k \in Nat, k \in N  PROVE k + 1 \in N
  <2>1. PICK f : IsUpTo(f, d, S, k)
    BY <1>2
  <2>. DEFINE g == [i \in 0 .. (k + 1) |-> IF i = k + 1 THEN One(f[k], d[k + 1], S) ELSE f[i]]
  <2>2. ASSUME NEW i \in 0 .. (k + 1)
        PROVE  g[i] = IF i = 0 THEN <<>> ELSE One(g[i - 1], d[i], S)
    <3>1. CASE i = k + 1
      <4>1. g[i] = One(f[k], d[k + 1], S) /\ i # 0 /\ i - 1 = k /\ g[k] = f[k]
        BY <3>1
      <4>. QED  BY <3>1, <4>1
    <3>2. CASE i # k + 1 /\ i # 0
      <4>1. i \in 0 .. k /\ i - 1 \in 0 .. k /\ g[i] = f[i] /\ g[i - 1] = f[i - 1]
        BY <3>2
      <4>2. f[i] = One(f[i - 1], d[i], S)
        BY <2>1, <3>2, <4>1 DEF IsUpTo
      <4>. QED  BY <3>2, <4>1, <4>2
    <3>3. CASE i = 0
      <4>1. g[0] = f[0] /\ f[0] = <<>>
        BY <2>1 DEF IsUpTo
      <4>. QED  BY <3>3, <4>1
    <3>. QED  BY <3>1, <3>2, <3>3
  <2>3. g = [i \in 0 .. (k + 1) |-> g[i]]
    OBVIOUS
  <2>. HIDE DEF g
  <2>4. g = [i \in 0 .. (k + 1) |-> IF i = 0 THEN <<>> ELSE One(g[i - 1], d[i], S)]
    BY <2>2, <2>3
  <2>. QED  BY <2>4 DEF IsUpTo
<1>. HIDE DEF N
<1>3. n \in N
  BY <1>1, <1>2, NatInduction1
<1>. QED  BY <1>3 DEF N

\* They are tokens of the text, and of the set.
LEMMA ThoseOfText ==
    ASSUME NEW A, NEW d \in Seq(A), NEW S
    PROVE  Those(d, S) \in Seq({t \in A : t \in S})
<1>. DEFINE B == {t \in A : t \in S}
<1>1. Len(d) \in Nat /\ \A i \in 1 .. Len(d) : d[i] \in A
  OBVIOUS
<1>2. PICK f : IsUpTo(f, d, S, Len(d)) /\ Those(d, S) = f[Len(d)]
  <2>. DEFINE f == CHOOSE g : IsUpTo(g, d, S, Len(d))
  <2>1. IsUpTo(f, d, S, Len(d))
    BY <1>1, UpToExists
  <2>2. Those(d, S) = f[Len(d)]
    BY DEF Those, IsUpTo, One
  <2>. QED  BY <2>1, <2>2
<1>. DEFINE N == {k \in Nat : k <= Len(d) => f[k] \in Seq(B)}
<1>3. 0 \in N
  <2>1. f[0] = <<>>
    BY <1>1, <1>2 DEF IsUpTo
  <2>2. <<>> \in Seq(B)
    OBVIOUS
  <2>3. f[0] \in Seq(B)
    BY Zenon, <2>1, <2>2
  <2>. QED  BY <2>3
<1>4. ASSUME NEW k \in Nat, k \in N  PROVE k + 1 \in N
  <2>1. ASSUME k + 1 <= Len(d)  PROVE f[k + 1] \in Seq(B)
    <3>1. f[k] \in Seq(B) /\ d[k + 1] \in A
      BY <1>1, <1>4, <2>1
    <3>2. f[k + 1] = One(f[k], d[k + 1], S)
      <4>1. k + 1 \in 0 .. Len(d) /\ k + 1 # 0 /\ (k + 1) - 1 = k
        BY <1>1, <2>1
      <4>. QED  BY <1>2, <4>1 DEF IsUpTo
    <3>3. CASE d[k + 1] \in S
      <4>1. d[k + 1] \in B
        BY <3>1, <3>3
      <4>. HIDE DEF B
      <4>2. Append(f[k], d[k + 1]) \in Seq(B)
        BY <3>1, <4>1
      <4>. QED  BY <3>2, <3>3, <4>2, Zenon DEF One
    <3>4. CASE d[k + 1] \notin S
      BY <3>1, <3>2, <3>4, Zenon DEF One
    <3>. QED  BY <3>3, <3>4
  <2>. QED  BY <2>1
<1>. HIDE DEF N
<1>5. Len(d) \in N
  BY <1>1, <1>3, <1>4, NatInduction1
<1>6. f[Len(d)] \in Seq(B)
  BY <1>1, <1>5 DEF N
<1>. QED  BY <1>2, <1>6, Zenon

-----------------------------------------------------------------------------
(***************************************************************************)
(* What the operators of the model do.                                     *)
(***************************************************************************)

\* A finite set as a text: each of its members, once.
LEMMA SetAsText ==
    ASSUME NEW S, IsFiniteSet(S), NEW d, d = SetToSeq(S)
    PROVE  /\ d \in Seq(S)
           /\ \A t \in S : t \in ToSet(d)
           /\ \A s, t : ~ (s = t /\ Before(d, s, t))
<1>. DEFINE n == Cardinality(S)
<1>1. n \in Nat /\ IsFiniteSet(1 .. n) /\ Cardinality(1 .. n) = n
  BY FS_CardinalityType, FS_Interval
<1>2. ExistsBijection(1 .. n, S)
  BY <1>1, FS_SameCardinalityBij
<1>3. \E f \in [1 .. n -> S] : IsInjective(f)
  BY <1>2 DEF ExistsBijection, Bijection, Injection
<1>4. d \in [1 .. n -> S] /\ IsInjective(d)
  BY <1>3 DEF SetToSeq
<1>5. d \in Injection(1 .. n, S)
  BY <1>4 DEF Injection
<1>6. d \in Surjection(1 .. n, S)
  BY <1>1, <1>5, FS_Injection
<1>. HIDE DEF n
<1>7. d \in Seq(S) /\ Len(d) = n
  BY <1>1, <1>4
<1>8. \A t \in S : t \in ToSet(d)
  BY <1>6 DEF Surjection, ToSet
<1>9. ASSUME NEW s, NEW t, s = t, Before(d, s, t)  PROVE FALSE
  BY <1>1, <1>4, <1>7, <1>9 DEF Before, IsInjective
<1>. QED  BY <1>7, <1>8, <1>9

\* Enclosing some tokens: the markers come in around them.
Encloses(d, new, selected, q) ==
    /\ Orderly(d, new, Pair(q))
    /\ ToSet(d) \cup Pair(q) \subseteq ToSet(new)
    /\ Pair(q) \cap ToSet(d) = {} =>
          /\ ~ Before(new, Begin(q), Begin(q)) /\ ~ Before(new, End(q), End(q))
          /\ ~ Before(new, End(q), Begin(q))
          /\ \A t : t \notin Pair(q) =>
                /\ Before(new, Begin(q), t) /\ Before(new, t, End(q))
                      => t \in selected \/ Before(d, t, t)
                /\ t \in selected /\ (Before(new, t, Begin(q)) \/ Before(new, End(q), t))
                      => Before(d, t, t)

EnclosedPlaces(d, new, from, to, b, e) ==
    /\ Len(new) = Len(d) + 2
    /\ \A k \in 1 .. (from - 1) : new[k] = d[k]
    /\ new[from] = b
    /\ \A k \in from .. to : new[k + 1] = d[k]
    /\ new[to + 2] = e
    /\ \A k \in (to + 1) .. Len(d) : new[k + 2] = d[k]

LEMMA EnclosePlaces ==
    ASSUME NEW A, NEW d \in Seq(A), NEW b \in A, NEW e \in A,
           NEW from \in 1 .. Len(d), NEW to \in from .. Len(d), NEW new,
           new = SubSeq(d, 1, from - 1) \o <<b>> \o SubSeq(d, from, to) \o <<e>>
                    \o SubSeq(d, to + 1, Len(d))
    PROVE  new \in Seq(A) /\ EnclosedPlaces(d, new, from, to, b, e)
<1>1. PICK x : x = SubSeq(d, 1, from - 1) \o <<b>>
  OBVIOUS
<1>2. PICK y : y = x \o SubSeq(d, from, to)
  OBVIOUS
<1>3. PICK z : z = y \o <<e>>
  OBVIOUS
<1>4. new = z \o SubSeq(d, to + 1, Len(d))
  BY <1>1, <1>2, <1>3, Zenon
<1>. DEFINE n == Len(d)
<1>0. n \in Nat /\ from \in 1 .. n /\ to \in from .. n
  OBVIOUS
<1>. HIDE DEF n
<1>5. /\ x \in Seq(A) /\ Len(x) = from /\ x[from] = b
      /\ \A k \in 1 .. (from - 1) : x[k] = d[k]
  <2>. DEFINE l == SubSeq(d, 1, from - 1)
  <2>1. l \in Seq(A) /\ Len(l) = from - 1 /\ \A k \in 1 .. (from - 1) : l[k] = d[k]
    <3>1. d \in Seq(A) /\ from - 1 \in 0 .. Len(d)
      BY <1>0 DEF n
    <3>2. SubSeq(d, 1, from - 1) \in Seq(A) /\ Len(SubSeq(d, 1, from - 1)) = from - 1
      BY ONLY <3>1, <1>0
    <3>3. \A k \in 1 .. (from - 1) : SubSeq(d, 1, from - 1)[k] = d[k]
      BY ONLY <3>1, <1>0
    <3>. QED  BY ONLY <3>2, <3>3, Zenon
  <2>2. <<b>> \in Seq(A) /\ Len(<<b>>) = 1 /\ <<b>>[1] = b
    OBVIOUS
  <2>. HIDE DEF l
  <2>3. x \in Seq(A) /\ Behind(x, l, <<b>>)
    <3>1. l \o <<b>> \in Seq(A) /\ Behind(l \o <<b>>, l, <<b>>)
      BY ONLY <2>1, <2>2, ConcatPlaces, Zenon
    <3>. QED  BY ONLY <1>1, <3>1, Zenon DEF l
  <2>4. Len(x) = from
    <3>1. Len(x) = Len(l) + Len(<<b>>)
      BY <2>3, Zenon DEF Behind
    <3>. QED  BY ONLY <2>1, <2>2, <3>1, <1>0
  <2>5. x[from] = b
    <3>1. x[Len(l) + 1] = b
      <4>1. 1 \in 1 .. Len(<<b>>)
        BY ONLY <2>2
      <4>. QED  BY <2>2, <2>3, <4>1, Zenon DEF Behind
    <3>2. Len(l) + 1 = from
      BY ONLY <2>1, <1>0
    <3>. QED  BY ONLY <3>1, <3>2, Zenon
  <2>6. \A k \in 1 .. (from - 1) : x[k] = d[k]
    BY ONLY <2>1, <2>3, Zenon DEF Behind
  <2>. QED  BY ONLY <2>3, <2>4, <2>5, <2>6
<1>6. /\ y \in Seq(A) /\ Len(y) = to + 1
      /\ \A k \in 1 .. from : y[k] = x[k]
      /\ \A k \in from .. to : y[k + 1] = d[k]
  <2>. DEFINE m == SubSeq(d, from, to)
  <2>1. /\ m \in Seq(A) /\ Len(m) = (to - from) + 1
        /\ \A k \in from .. to : m[(k - from) + 1] = d[k]
    <3>1. from \in 1 .. (Len(d) + 1) /\ to \in (from - 1) .. Len(d)
      OBVIOUS
    <3>. QED  BY <3>1, PartPlaces, Zenon DEF Part
  <2>. HIDE DEF m
  <2>2. y \in Seq(A) /\ Behind(y, x, m)
    <3>1. x \o m \in Seq(A) /\ Behind(x \o m, x, m)
      BY ONLY <1>5, <2>1, ConcatPlaces, Zenon
    <3>. QED  BY ONLY <1>2, <3>1, Zenon DEF m
  <2>3. Len(y) = to + 1
    <3>1. Len(y) = from + ((to - from) + 1)
      BY ONLY <1>5, <2>1, <2>2, Zenon DEF Behind
    <3>. QED  BY ONLY <3>1, <1>0
  <2>4. \A k \in 1 .. from : y[k] = x[k]
    BY ONLY <1>5, <2>2, Zenon DEF Behind
  <2>5. ASSUME NEW k \in from .. to  PROVE y[k + 1] = d[k]
    <3>1. (k - from) + 1 \in 1 .. Len(m) /\ from + ((k - from) + 1) = k + 1
      BY ONLY <2>1, <1>0, k \in from .. to
    <3>2. y[from + ((k - from) + 1)] = m[(k - from) + 1]
      BY ONLY <1>5, <2>2, <3>1, Zenon DEF Behind
    <3>3. m[(k - from) + 1] = d[k]
      BY <2>1
    <3>. QED  BY ONLY <3>1, <3>2, <3>3, Zenon
  <2>. QED  BY ONLY <2>2, <2>3, <2>4, <2>5
<1>7. /\ z \in Seq(A) /\ Len(z) = to + 2 /\ z[to + 2] = e
      /\ \A k \in 1 .. (to + 1) : z[k] = y[k]
  <2>1. <<e>> \in Seq(A) /\ Len(<<e>>) = 1 /\ <<e>>[1] = e
    OBVIOUS
  <2>2. z \in Seq(A) /\ Behind(z, y, <<e>>)
    <3>1. y \o <<e>> \in Seq(A) /\ Behind(y \o <<e>>, y, <<e>>)
      BY ONLY <1>6, <2>1, ConcatPlaces, Zenon
    <3>. QED  BY ONLY <1>3, <3>1, Zenon
  <2>3. Len(z) = to + 2
    <3>1. Len(z) = (to + 1) + Len(<<e>>)
      BY ONLY <1>6, <2>2, Zenon DEF Behind
    <3>. QED  BY ONLY <2>1, <3>1, <1>0
  <2>4. z[to + 2] = e
    <3>1. 1 \in 1 .. Len(<<e>>) /\ (to + 1) + 1 = to + 2
      BY ONLY <2>1, <1>0
    <3>2. z[(to + 1) + 1] = e
      BY ONLY <1>6, <2>1, <2>2, <3>1, Zenon DEF Behind
    <3>. QED  BY ONLY <3>1, <3>2, Zenon
  <2>5. \A k \in 1 .. (to + 1) : z[k] = y[k]
    BY ONLY <1>6, <2>2, Zenon DEF Behind
  <2>. QED  BY ONLY <2>2, <2>3, <2>4, <2>5
<1>8. new \in Seq(A) /\ Joined(new, z, d, to)
  <2>1. z \in Seq(A) /\ to \in 0 .. Len(d)
    BY <1>7
  <2>2. /\ z \o SubSeq(d, to + 1, Len(d)) \in Seq(A)
        /\ Joined(z \o SubSeq(d, to + 1, Len(d)), z, d, to)
    BY ONLY d \in Seq(A), <2>1, EndPlaces, Zenon
  <2>. QED  BY ONLY <1>4, <2>2, Zenon
<1>9. Len(new) = Len(d) + 2
  <2>1. Len(new) = Len(z) + (Len(d) - to) /\ Len(z) = to + 2
    BY <1>7, <1>8, Zenon DEF Joined
  <2>. QED  BY ONLY <2>1, to \in 1 .. Len(d), Len(d) \in Nat
<1>10. \A k \in 1 .. (to + 2) : new[k] = z[k]
  BY <1>7, <1>8, Zenon DEF Joined
<1>11. \A k \in (to + 1) .. Len(d) : new[k + 2] = d[k]
  <2>1. ASSUME NEW k \in (to + 1) .. Len(d)  PROVE new[k + 2] = d[k]
    <3>1. k - to \in 1 .. (Len(d) - to) /\ (to + 2) + (k - to) = k + 2 /\ to + (k - to) = k
      OBVIOUS
    <3>2. new[(to + 2) + (k - to)] = d[to + (k - to)]
      BY <1>7, <1>8, <3>1, Zenon DEF Joined
    <3>. QED  BY <3>1, <3>2, Zenon
  <2>. QED  BY <2>1
<1>12. \A k \in 1 .. (from - 1) : new[k] = d[k]
  <2>1. ASSUME NEW k \in 1 .. (from - 1)  PROVE new[k] = d[k]
    <3>1. k \in 1 .. from /\ k \in 1 .. (to + 1) /\ k \in 1 .. (to + 2)
      OBVIOUS
    <3>2. new[k] = z[k] /\ z[k] = y[k]
      BY <1>7, <1>10, <3>1, Zenon
    <3>3. y[k] = x[k] /\ x[k] = d[k]
      BY <1>5, <1>6, <3>1, Zenon
    <3>. QED  BY ONLY <3>2, <3>3, Zenon
  <2>. QED  BY <2>1
<1>13. new[from] = b /\ new[to + 2] = e
  <2>1. from \in 1 .. from /\ from \in 1 .. (to + 1) /\ from \in 1 .. (to + 2)
    OBVIOUS
  <2>2. to + 2 \in 1 .. (to + 2)
    OBVIOUS
  <2>. QED  BY <1>5, <1>6, <1>7, <1>10, <2>1, <2>2, Zenon
<1>14. \A k \in from .. to : new[k + 1] = d[k]
  <2>1. ASSUME NEW k \in from .. to  PROVE new[k + 1] = d[k]
    <3>1. k + 1 \in 1 .. (to + 1) /\ k + 1 \in 1 .. (to + 2)
      OBVIOUS
    <3>. QED  BY <1>6, <1>7, <1>10, <3>1, Zenon
  <2>. QED  BY <2>1
<1>. QED  BY <1>8, <1>9, <1>11, <1>12, <1>13, <1>14, Zenon DEF EnclosedPlaces

LEMMA EncloseKeeps ==
    ASSUME NEW A, NEW d \in Seq(A), NEW q, Begin(q) \in A, End(q) \in A,
           NEW from \in 1 .. Len(d), NEW to \in from .. Len(d), NEW new \in Seq(A),
           EnclosedPlaces(d, new, from, to, Begin(q), End(q)),
           NEW selected, selected = ToSet(SubSeq(d, from, to))
    PROVE  Encloses(d, new, selected, q)
<1>. DEFINE n == Len(d)
<1>0. n \in Nat /\ from \in 1 .. n /\ to \in from .. n
  OBVIOUS
<1>15. n = Len(d)
  OBVIOUS
<1>1. new \in Seq(A) /\ EnclosedPlaces(d, new, from, to, Begin(q), End(q))
  OBVIOUS
<1>2. \A t : t \in selected <=> \E m \in from .. to : d[m] = t
  <2>. DEFINE x == SubSeq(d, from, to)
  <2>1. /\ x \in Seq(A) /\ Len(x) = to - from + 1
        /\ \A k \in from .. to : x[k - from + 1] = d[k]
        /\ \A k \in 1 .. Len(x) : x[k] = d[k + from - 1]
    OBVIOUS
  <2>. HIDE DEF x
  <2>2. \A t : t \in selected <=> \E k \in 1 .. Len(x) : x[k] = t
    <3>1. selected = ToSet(x)
      BY DEF x
    <3>. QED  BY <2>1, <3>1, TokensOf, Zenon
  <2>3. \A k \in from .. to : k - from + 1 \in 1 .. Len(x)
    BY ONLY <2>1, <1>0
  <2>4. \A k \in 1 .. Len(x) : k + from - 1 \in from .. to
    BY ONLY <2>1, <1>0
  <2>5. ASSUME NEW t \in selected  PROVE \E m \in from .. to : d[m] = t
    <3>1. PICK k \in 1 .. Len(x) : x[k] = t
      BY <2>2, Zenon
    <3>. QED  BY <2>1, <2>4, <3>1, Zenon
  <2>6. ASSUME NEW t, NEW m \in from .. to, d[m] = t  PROVE t \in selected
    BY <2>1, <2>2, <2>3, <2>6, Zenon
  <2>. QED  BY <2>5, <2>6, Zenon
<1>. DEFINE Old(k) == IF k < from THEN k ELSE IF k < to + 2 THEN k - 1 ELSE k - 2
<1>. HIDE DEF n
<1>3. Len(new) = n + 2
  BY <1>1, <1>15, Zenon DEF EnclosedPlaces
<1>16. new[from] = Begin(q) /\ new[to + 2] = End(q)
  BY <1>1, Zenon DEF EnclosedPlaces
<1>4. ASSUME NEW k \in 1 .. Len(new), k # from, k # to + 2
      PROVE  Old(k) \in 1 .. n /\ new[k] = d[Old(k)]
  <2>1. CASE k < from
    <3>1. k \in 1 .. (from - 1) /\ k \in 1 .. n /\ Old(k) = k
      BY <1>0, <1>3, <2>1
    <3>2. new[k] = d[k]
      BY <1>1, <3>1, Zenon DEF EnclosedPlaces
    <3>. QED  BY <3>1, <3>2, Zenon
  <2>2. CASE k > from /\ k < to + 2
    <3>1. k - 1 \in from .. to /\ k - 1 \in 1 .. n /\ Old(k) = k - 1 /\ (k - 1) + 1 = k
      BY <1>0, <1>3, <2>2
    <3>2. new[(k - 1) + 1] = d[k - 1]
      BY <1>1, <3>1, Zenon DEF EnclosedPlaces
    <3>. QED  BY <3>1, <3>2, Zenon
  <2>3. CASE k > to + 2
    <3>1. k - 2 \in (to + 1) .. n /\ k - 2 \in 1 .. n /\ Old(k) = k - 2 /\ (k - 2) + 2 = k
      BY <1>0, <1>3, <2>3
    <3>2. new[(k - 2) + 2] = d[k - 2]
      BY <1>1, <1>15, <3>1, Zenon DEF EnclosedPlaces
    <3>. QED  BY <3>1, <3>2, Zenon
  <2>. QED  BY <1>0, <1>3, <1>4, <2>1, <2>2, <2>3
<1>5. \A k, l \in 1 .. Len(new) : k < l /\ k \notin {from, to + 2} /\ l \notin {from, to + 2}
          => Old(k) < Old(l)
  BY <1>0, <1>3
<1>6. ASSUME NEW k \in 1 .. n
      PROVE  \E l \in 1 .. Len(new) : new[l] = d[k]
  <2>1. CASE k < from
    <3>1. k \in 1 .. (from - 1) /\ k \in 1 .. Len(new)
      BY <1>0, <1>3, <2>1
    <3>. QED  BY <1>1, <3>1, Zenon DEF EnclosedPlaces
  <2>2. CASE k >= from /\ k <= to
    <3>1. k \in from .. to /\ k + 1 \in 1 .. Len(new)
      BY <1>0, <1>3, <2>2
    <3>. QED  BY <1>1, <3>1, Zenon DEF EnclosedPlaces
  <2>3. CASE k > to
    <3>1. k \in (to + 1) .. n /\ k + 2 \in 1 .. Len(new)
      BY <1>0, <1>3, <2>3
    <3>. QED  BY <1>1, <1>15, <3>1, Zenon DEF EnclosedPlaces
  <2>. QED  BY <1>0, <2>1, <2>2, <2>3
<1>. HIDE DEF Old
<1>7. \A k \in 1 .. Len(new) : new[k] \notin Pair(q) => k \notin {from, to + 2}
  BY <1>16 DEF Pair
<1>8. Orderly(d, new, Pair(q))
  <2>1. ASSUME NEW s, NEW t, s \notin Pair(q), t \notin Pair(q), Before(new, s, t)
        PROVE  Before(d, s, t)
    <3>1. PICK k, l \in 1 .. Len(new) : k < l /\ new[k] = s /\ new[l] = t
      BY <2>1 DEF Before
    <3>2. k \notin {from, to + 2} /\ l \notin {from, to + 2}
      BY <1>7, <2>1, <3>1
    <3>3. /\ Old(k) \in 1 .. n /\ d[Old(k)] = s
          /\ Old(l) \in 1 .. n /\ d[Old(l)] = t /\ Old(k) < Old(l)
      BY <1>4, <1>5, <3>1, <3>2
    <3>. QED  BY <1>15, <3>3, Zenon DEF Before
  <2>2. ASSUME NEW t \in ToSet(new), t \notin Pair(q)  PROVE t \in ToSet(d)
    <3>1. PICK k \in 1 .. Len(new) : new[k] = t
      BY <1>1, TokensOf
    <3>2. Old(k) \in 1 .. n /\ d[Old(k)] = t
      BY <1>4, <1>7, <2>2, <3>1
    <3>. QED  BY <1>15, <3>2, TokensOf
  <2>. QED  BY <2>1, <2>2, Zenon DEF Orderly
<1>9. ToSet(d) \cup Pair(q) \subseteq ToSet(new)
  <2>1. ASSUME NEW t \in ToSet(d)  PROVE t \in ToSet(new)
    <3>1. PICK k \in 1 .. n : d[k] = t
      BY <1>15, TokensOf
    <3>. QED  BY <1>1, <1>6, <3>1, TokensOf
  <2>2. from \in 1 .. Len(new) /\ to + 2 \in 1 .. Len(new)
    BY <1>0, <1>3
  <2>3. Begin(q) \in ToSet(new) /\ End(q) \in ToSet(new)
    BY <1>1, <1>16, <2>2, TokensOf, Zenon
  <2>. QED  BY <2>1, <2>3 DEF Pair
<1>10. ASSUME Pair(q) \cap ToSet(d) = {}
       PROVE  \A k \in 1 .. Len(new) : /\ new[k] = Begin(q) => k = from
                                       /\ new[k] = End(q) => k = to + 2
  <2>1. ASSUME NEW k \in 1 .. Len(new), new[k] \in Pair(q)  PROVE k \in {from, to + 2}
    <3>1. SUFFICES ASSUME k \notin {from, to + 2}  PROVE FALSE
      OBVIOUS
    <3>2. Old(k) \in 1 .. n /\ new[k] = d[Old(k)]
      BY <1>4, <3>1
    <3>3. new[k] \in ToSet(d)
      BY <1>15, <3>2, TokensOf
    <3>. QED  BY <1>10, <2>1, <3>3
  <2>2. Begin(q) # End(q)
    BY TokensDiffer
  <2>. QED  BY <1>16, <2>1, <2>2 DEF Pair
<1>11. ASSUME Pair(q) \cap ToSet(d) = {}, NEW t, t \notin Pair(q)
       PROVE  /\ Before(new, Begin(q), t) /\ Before(new, t, End(q))
                    => t \in selected \/ Before(d, t, t)
              /\ t \in selected /\ (Before(new, t, Begin(q)) \/ Before(new, End(q), t))
                    => Before(d, t, t)
  <2>1. ASSUME NEW k \in 1 .. Len(new), new[k] = t
        PROVE  k \notin {from, to + 2} /\ Old(k) \in 1 .. n /\ d[Old(k)] = t
    BY <1>4, <1>7, <1>11, <2>1
  <2>2. ASSUME Before(new, Begin(q), t), Before(new, t, End(q)), ~ Before(d, t, t)
        PROVE  t \in selected
    <3>1. PICK b, k \in 1 .. Len(new) : b < k /\ new[b] = Begin(q) /\ new[k] = t
      BY <2>2 DEF Before
    <3>2. PICK l, e \in 1 .. Len(new) : l < e /\ new[l] = t /\ new[e] = End(q)
      BY <2>2 DEF Before
    <3>3. k > from /\ l < to + 2
      BY <1>10, <1>11, <3>1, <3>2
    <3>4. ~ (Old(l) < Old(k))
      BY <1>15, <2>1, <2>2, <3>1, <3>2, Zenon DEF Before
    <3>5. ~ (l < k)
      BY <1>5, <2>1, <3>1, <3>2, <3>4
    <3>6. k < to + 2
      BY <3>3, <3>5, <1>0, <1>3
    <3>7. Old(k) \in from .. to
      BY <3>3, <3>6, <1>0, <1>3 DEF Old
    <3>. QED  BY <1>2, <2>1, <3>1, <3>7, Zenon
  <2>3. ASSUME t \in selected, Before(new, t, Begin(q)) \/ Before(new, End(q), t)
        PROVE  Before(d, t, t)
    <3>1. PICK m \in from .. to : d[m] = t
      BY <1>2, <2>3
    <3>2. m \in 1 .. n
      BY <1>0
    <3>3. CASE Before(new, t, Begin(q))
      <4>1. PICK k, b \in 1 .. Len(new) : k < b /\ new[k] = t /\ new[b] = Begin(q)
        BY <3>3 DEF Before
      <4>2. k < from
        BY <1>10, <1>11, <4>1
      <4>3. Old(k) < m
        BY <4>2, <1>0, <1>3 DEF Old
      <4>. QED  BY <1>15, <2>1, <3>1, <3>2, <4>1, <4>3, Zenon DEF Before
    <3>4. CASE Before(new, End(q), t)
      <4>1. PICK e, k \in 1 .. Len(new) : e < k /\ new[e] = End(q) /\ new[k] = t
        BY <3>4 DEF Before
      <4>2. k > to + 2
        BY <1>10, <1>11, <4>1
      <4>3. m < Old(k)
        BY <4>2, <1>0, <1>3 DEF Old
      <4>. QED  BY <1>15, <2>1, <3>1, <3>2, <4>1, <4>3, Zenon DEF Before
    <3>. QED  BY <2>3, <3>3, <3>4
  <2>. QED  BY <2>2, <2>3
<1>12. ASSUME Pair(q) \cap ToSet(d) = {}
       PROVE  /\ ~ Before(new, Begin(q), Begin(q)) /\ ~ Before(new, End(q), End(q))
              /\ ~ Before(new, End(q), Begin(q))
  <2>0. from <= to + 2 /\ from \in Int /\ to + 2 \in Int
    BY <1>0
  <2>1. ASSUME NEW k \in 1 .. Len(new), NEW l \in 1 .. Len(new),
               new[k] \in Pair(q), new[l] = Begin(q), k < l
        PROVE  FALSE
    <3>1. k \in {from, to + 2} /\ l = from
      BY <1>10, <1>12, <2>1, Zenon DEF Pair
    <3>. QED  BY <2>0, <2>1, <3>1
  <2>2. ASSUME NEW k \in 1 .. Len(new), NEW l \in 1 .. Len(new),
               new[k] = End(q), new[l] = End(q), k < l
        PROVE  FALSE
    <3>1. k = to + 2 /\ l = to + 2
      BY <1>10, <1>12, <2>2, Zenon
    <3>. QED  BY <2>0, <2>2, <3>1
  <2>. QED  BY <2>1, <2>2, Zenon DEF Before, Pair
<1>. QED  BY <1>1, <1>8, <1>9, <1>11, <1>12 DEF Encloses

\* One token before another before a third: when the second occurs once.
LEMMA BeforeTransitive ==
    ASSUME NEW A, NEW d \in Seq(A), NEW s, NEW t, NEW u,
           Before(d, s, t), Before(d, t, u), ~ Before(d, t, t)
    PROVE  Before(d, s, u)
<1>1. PICK i, j \in 1 .. Len(d) : i < j /\ d[i] = s /\ d[j] = t
  BY DEF Before
<1>2. PICK k, l \in 1 .. Len(d) : k < l /\ d[k] = t /\ d[l] = u
  BY DEF Before
<1>3. ~ (j < k) /\ ~ (k < j)
  BY <1>1, <1>2, Zenon DEF Before
<1>4. i < l
  BY <1>1, <1>2, <1>3
<1>. QED  BY <1>1, <1>2, <1>4, Zenon DEF Before

LEMMA PlacesAreNaturals ==
    ASSUME NEW A, NEW d \in Seq(A), NEW t
    PROVE  /\ Places(d, t) \subseteq Nat
           /\ Places(d, t) # {} <=> t \in ToSet(d)
           /\ Places(d, t) # {} =>
                 /\ Min(Places(d, t)) \in 1 .. Len(d) /\ d[Min(Places(d, t))] = t
                 /\ Max(Places(d, t)) \in 1 .. Len(d) /\ d[Max(Places(d, t))] = t
<1>. DEFINE P == Places(d, t)
            n == Len(d)
<1>1. P \subseteq 1 .. n /\ P \subseteq Nat /\ n \in Nat
  BY DEF Places
<1>2. P # {} <=> t \in ToSet(d)
  BY TokensOf DEF Places
<1>3. \A k \in P : k \in 1 .. n /\ d[k] = t
  BY DEF Places
<1>. HIDE DEF P, n
<1>4. ASSUME P # {}  PROVE Min(P) \in P /\ Max(P) \in P
  <2>1. Min(P) \in P
    BY <1>1, <1>4, MinIsLeast
  <2>. DEFINE R == {n - k : k \in P}
  <2>2. R \subseteq Nat /\ R # {}
    BY <1>1, <1>4
  <2>3. \A k \in P : n - k \in R
    OBVIOUS
  <2>4. \A m \in R : \E k \in P : m = n - k
    OBVIOUS
  <2>. HIDE DEF R
  <2>5. Min(R) \in R /\ \A m \in R : Min(R) <= m
    BY <2>2, MinIsLeast
  <2>6. PICK x \in P : Min(R) = n - x
    BY <2>4, <2>5
  <2>7. \A k \in P : x >= k
    BY <1>1, <2>3, <2>5, <2>6
  <2>8. Max(P) \in P
    BY <2>6, <2>7 DEF Max
  <2>. QED  BY <2>1, <2>8
<1>. QED  BY <1>1, <1>2, <1>3, <1>4, Zenon DEF P, n

\* What is recovered from an answer is some of it.
LEMMA RecoveredOf ==
    ASSUME NEW A, NEW output \in Seq(A), NEW q
    PROVE  Recover(q, output) \in Seq(A) /\ ToSet(Recover(q, output)) \subseteq ToSet(output)
<1>. DEFINE b == Min(Places(output, Begin(q)))
            e == Max(Places(output, End(q)))
<1>1. CASE Recover(q, output) = output
  BY <1>1
<1>2. CASE Recover(q, output) # output
  <2>1. /\ Places(output, Begin(q)) # {} /\ Places(output, End(q)) # {}
        /\ b < e /\ Recover(q, output) = SubSeq(output, b + 1, e - 1)
    BY <1>2 DEF Recover
  <2>2. b \in 1 .. Len(output) /\ e \in 1 .. Len(output)
    BY <2>1, PlacesAreNaturals, Zenon
  <2>. HIDE DEF b, e
  <2>. DEFINE x == SubSeq(output, b + 1, e - 1)
  <2>3. x \in Seq(A) /\ Len(x) = e - b - 1 /\ \A k \in 1 .. Len(x) : x[k] = output[b + k]
    BY <2>1, <2>2
  <2>. HIDE DEF x
  <2>4. ASSUME NEW t \in ToSet(x)  PROVE t \in ToSet(output)
    <3>1. PICK k \in 1 .. Len(x) : x[k] = t
      BY <2>3, TokensOf
    <3>2. b + k \in 1 .. Len(output) /\ output[b + k] = t
      BY <2>1, <2>2, <2>3, <3>1
    <3>. QED  BY <3>2, TokensOf
  <2>5. Recover(q, output) = x
    BY <2>1, Zenon DEF x
  <2>. QED  BY <2>3, <2>4, <2>5
<1>. QED  BY <1>1, <1>2

\* What an edit puts into the manuscript.
LEMMA OutputsOf ==
    ASSUME NEW q \in Questions, sent[q] \in Seq(Tokens), NEW output \in EditOutputs(q)
    PROVE  /\ Recover(q, output) \in Seq(Tokens)
           /\ "kept" \notin Stray(q, output)
                 => ToSet(Recover(q, output)) \subseteq Pair(q) \cup {Answer(q)}
           /\ Stray(q, output) = {} => ToSet(Recover(q, output)) \subseteq {Answer(q)}
<1>. DEFINE a == Answer(q)
            b == Begin(q)
            e == End(q)
            foreign == Those(sent[q], Markers \ {Begin(q), End(q)})
<1>1. a \in Tokens /\ b \in Tokens /\ e \in Tokens
  BY DEF Tokens, Markers
<1>2. a # b /\ a # e /\ b # e
  BY TokensDiffer
<1>3. foreign \in Seq({t \in Tokens : t \in Markers \ {b, e}})
  BY ThoseOfText
<1>4. \/ output = <<a>> \/ output = <<a, b, a, e, a>> \/ output = <<b, a>>
      \/ output = <<a>> \o foreign
  BY Zenon DEF EditOutputs
<1>5. /\ "kept" \notin Stray(q, output) => \A t \in ToSet(output) : t \notin Markers \ {b, e}
      /\ Stray(q, output) = {} => output # <<b, a>>
  BY Zenon DEF Stray
<1>. HIDE DEF a, b, e, foreign
<1>6. CASE output = <<a>>
  <2>1. output \in Seq(Tokens) /\ Len(output) = 1 /\ output[1] = a
    BY <1>1, <1>6
  <2>2. \A t \in ToSet(output) : t = a
    BY <2>1, TokensOf
  <2>3. ToSet(Recover(q, output)) \subseteq {a} /\ Recover(q, output) \in Seq(Tokens)
    BY <2>1, <2>2, RecoveredOf
  <2>. QED  BY <2>3 DEF a
<1>7. CASE output = <<a, b, a, e, a>>
  <2>1. /\ output \in Seq(Tokens) /\ Len(output) = 5
        /\ output[1] = a /\ output[2] = b /\ output[3] = a /\ output[4] = e /\ output[5] = a
    BY <1>1, <1>7
  <2>2. Places(output, b) = {2} /\ Places(output, e) = {4}
    <3>1. \A k \in 1 .. 5 : (output[k] = b <=> k = 2) /\ (output[k] = e <=> k = 4)
      BY <1>2, <2>1
    <3>. QED  BY <2>1, <3>1 DEF Places
  <2>3. Min({2}) = 2 /\ Max({4}) = 4
    BY DEF Min, Max
  <2>4. Recover(q, output) = SubSeq(output, 2 + 1, 4 - 1)
    BY <2>2, <2>3 DEF Recover, b, e
  <2>. DEFINE x == SubSeq(output, 2 + 1, 4 - 1)
  <2>5. x \in Seq(Tokens) /\ Len(x) = 1 /\ x[1] = a
    <3>1. output \in Seq(Tokens) /\ Len(output) = 5 /\ output[3] = a
      BY <2>1
    <3>2. 3 \in 1 .. (Len(output) + 1) /\ 3 \in (3 - 1) .. Len(output) /\ 3 \in 3 .. 3
          /\ 2 + 1 = 3 /\ 4 - 1 = 3 /\ (3 - 3) + 1 = 1
      BY ONLY <3>1
    <3>3. x = SubSeq(output, 3, 3)
      BY <3>2, Zenon
    <3>4. x \in Seq(Tokens) /\ Part(x, output, 3, 3)
      BY <3>1, <3>2, <3>3, PartPlaces, Zenon
    <3>5. Len(x) = (3 - 3) + 1 /\ x[(3 - 3) + 1] = output[3]
      BY <3>2, <3>4, Zenon DEF Part
    <3>. QED  BY <3>1, <3>2, <3>4, <3>5, Zenon
  <2>. HIDE DEF x
  <2>6. \A t \in ToSet(x) : t = a
    BY <2>5, TokensOf
  <2>7. Recover(q, output) = x
    BY <2>4, Zenon DEF x
  <2>. QED  BY <2>5, <2>6, <2>7 DEF a
<1>8. CASE output = <<b, a>>
  <2>1. output \in Seq(Tokens) /\ Len(output) = 2 /\ output[1] = b /\ output[2] = a
    BY <1>1, <1>8
  <2>2. \A t \in ToSet(output) : t = a \/ t = b
    BY <2>1, TokensOf
  <2>3. ToSet(Recover(q, output)) \subseteq {a, b} /\ Recover(q, output) \in Seq(Tokens)
    BY <2>1, <2>2, RecoveredOf
  <2>. QED  BY <1>5, <1>8, <2>3 DEF a, b, Pair
<1>9. CASE output = <<a>> \o foreign
  <2>. DEFINE x == <<a>>
              B == Markers \ {b, e}
  <2>1. x \in Seq(Tokens) /\ Len(x) = 1 /\ x[1] = a
    BY <1>1
  <2>2. foreign \in Seq(Tokens) /\ \A k \in 1 .. Len(foreign) : foreign[k] \in B
    BY <1>3
  <2>. HIDE DEF x, B
  <2>3. x \o foreign \in Seq(Tokens) /\ Behind(x \o foreign, x, foreign)
    BY <2>1, <2>2, ConcatPlaces, Zenon
  <2>4. output = x \o foreign
    BY <1>9, Zenon DEF x
  <2>5. output \in Seq(Tokens) /\ Behind(output, x, foreign)
    BY <2>3, <2>4, Zenon
  <2>6. /\ Len(output) = 1 + Len(foreign) /\ output[1] = a
        /\ \A k \in 1 .. Len(foreign) : output[1 + k] = foreign[k]
    <3>1. 1 \in 1 .. Len(x)
      BY <2>1
    <3>. QED  BY <2>1, <2>5, <3>1, Zenon DEF Behind
  <2>7. ASSUME NEW t \in ToSet(output)  PROVE t = a \/ t \in B
    <3>1. PICK k \in 1 .. Len(output) : output[k] = t
      BY <2>5, TokensOf
    <3>2. CASE k = 1
      BY <2>6, <3>1, <3>2
    <3>3. CASE k # 1
      <4>1. k - 1 \in 1 .. Len(foreign) /\ 1 + (k - 1) = k
        BY <2>2, <2>6, <3>3
      <4>. QED  BY <2>2, <2>6, <3>1, <4>1, Zenon
    <3>. QED  BY <3>2, <3>3
  <2>8. "kept" \notin Stray(q, output) => \A t \in ToSet(output) : t = a
    BY <1>5, <2>7, Zenon DEF B
  <2>9. /\ Recover(q, output) \in Seq(Tokens)
        /\ ToSet(Recover(q, output)) \subseteq ToSet(output)
    BY <2>5, RecoveredOf
  <2>. QED  BY <2>8, <2>9 DEF a
<1>. QED  BY <1>4, <1>6, <1>7, <1>8, <1>9

\* What overriding does: nothing when a marker is missing; else what is between
\* the markers is replaced, and they with it.
Overridden(d, new, tokens, q) ==
    /\ Orderly(d, new, tokens)
    /\ Begin(q) \notin ToSet(d) \/ End(q) \notin ToSet(d) => new = d
    /\ /\ Begin(q) \in ToSet(d) /\ End(q) \in ToSet(d)
       /\ ~ Before(d, Begin(q), Begin(q)) /\ ~ Before(d, End(q), End(q))
       /\ ~ Before(d, End(q), Begin(q))
       => /\ tokens \cap Pair(q) = {} => Pair(q) \cap ToSet(new) = {}
          /\ \A t \in ToSet(d) : \/ t \in ToSet(new) \cup Pair(q)
                                 \/ Before(d, Begin(q), t) /\ Before(d, t, End(q))
          /\ \A t \in ToSet(new) : \/ t \in tokens
                                   \/ Before(d, t, Begin(q)) \/ Before(d, End(q), t)

LEMMA OverridePlaces ==
    ASSUME NEW A, doc \in Seq(A), NEW q, NEW output, NEW new, new = Override(q, output),
           Begin(q) \in ToSet(doc), End(q) \in ToSet(doc)
    PROVE  \E i \in 0 .. Len(doc) : \E j \in i .. Len(doc) :
              /\ new = Splice(doc, i, j, Recover(q, output))
              /\ j \in 1 .. Len(doc) /\ doc[j] = End(q)
              /\ \/ i + 1 \in 1 .. Len(doc) /\ doc[i + 1] = Begin(q) /\ i + 1 < j
                 \/ Before(doc, End(q), Begin(q))
<1>. DEFINE b == Min(Places(doc, Begin(q)))
            e == Min(Places(doc, End(q)))
            from == Min({b, e + 1})
            n == Len(doc)
<1>1. Places(doc, Begin(q)) # {} /\ Places(doc, End(q)) # {}
  BY PlacesAreNaturals
<1>2. b \in 1 .. n /\ doc[b] = Begin(q) /\ e \in 1 .. n /\ doc[e] = End(q)
  BY <1>1, PlacesAreNaturals, Zenon
<1>3. new = SubSeq(doc, 1, from - 1) \o Recover(q, output) \o SubSeq(doc, e + 1, n)
  BY <1>1, Zenon DEF Override
<1>4. n \in Nat
  OBVIOUS
<1>. HIDE DEF b, e, n
<1>5. from \in {b, e + 1} /\ from <= b /\ from <= e + 1
  <2>. DEFINE S == {b, e + 1}
  <2>1. S \subseteq Nat /\ S # {} /\ b \in S /\ e + 1 \in S
    BY <1>2, <1>4
  <2>. HIDE DEF S
  <2>2. Min(S) \in S /\ Min(S) <= b /\ Min(S) <= e + 1
    BY <2>1, MinIsLeast
  <2>. QED  BY <2>2, Zenon DEF S
<1>. HIDE DEF from
<1>6. b # e
  BY <1>2, TokensDiffer
<1>7. from - 1 \in 0 .. n /\ e \in (from - 1) .. n
  BY <1>2, <1>4, <1>5
<1>8. new = Splice(doc, from - 1, e, Recover(q, output))
  BY <1>3, Zenon DEF Splice, n
<1>9. \/ (from - 1) + 1 \in 1 .. n /\ doc[(from - 1) + 1] = Begin(q) /\ (from - 1) + 1 < e
      \/ Before(doc, End(q), Begin(q))
  <2>1. CASE b < e
    <3>1. from = b /\ (from - 1) + 1 = b
      BY <1>2, <1>4, <1>5, <2>1
    <3>. QED  BY <1>2, <2>1, <3>1, Zenon
  <2>2. CASE e < b
    BY <1>2, <2>2, Zenon DEF Before, n
  <2>. QED  BY <1>2, <1>4, <1>6, <2>1, <2>2
<1>. QED  BY <1>2, <1>7, <1>8, <1>9, Zenon DEF n

LEMMA OverrideKeeps ==
    ASSUME NEW A, doc \in Seq(A), NEW q, NEW output, Recover(q, output) \in Seq(A),
           NEW new, new = Override(q, output)
    PROVE  new \in Seq(A) /\ Overridden(doc, new, ToSet(Recover(q, output)), q)
<1>. DEFINE x == Recover(q, output)
            tokens == ToSet(x)
<1>1. CASE Begin(q) \notin ToSet(doc) \/ End(q) \notin ToSet(doc)
  <2>1. Places(doc, Begin(q)) = {} \/ Places(doc, End(q)) = {}
    BY <1>1, PlacesAreNaturals
  <2>2. new = doc
    BY <2>1, Zenon DEF Override
  <2>. QED  BY <1>1, <2>2 DEF Overridden, Orderly
<1>2. CASE Begin(q) \in ToSet(doc) /\ End(q) \in ToSet(doc)
  <2>1. PICK i \in 0 .. Len(doc) : \E j \in i .. Len(doc) :
              /\ new = Splice(doc, i, j, x)
              /\ j \in 1 .. Len(doc) /\ doc[j] = End(q)
              /\ \/ i + 1 \in 1 .. Len(doc) /\ doc[i + 1] = Begin(q) /\ i + 1 < j
                 \/ Before(doc, End(q), Begin(q))
    BY <1>2, OverridePlaces, Zenon
  <2>2. PICK j \in i .. Len(doc) :
              /\ new = Splice(doc, i, j, x)
              /\ j \in 1 .. Len(doc) /\ doc[j] = End(q)
              /\ \/ i + 1 \in 1 .. Len(doc) /\ doc[i + 1] = Begin(q) /\ i + 1 < j
                 \/ Before(doc, End(q), Begin(q))
    BY <2>1
  <2>3. x \in Seq(A) /\ new = Splice(doc, i, j, x)
    BY <2>2
  <2>. HIDE DEF x
  <2>4. new \in Seq(A) /\ Spliced(doc, new, i, j, tokens)
    BY <2>3, SpliceKeepsOrder, Zenon
  <2>. HIDE DEF tokens
  <2>5. Orderly(doc, new, tokens)
    BY <2>4, SplicedIsOrderly
  <2>6. ASSUME ~ Before(doc, Begin(q), Begin(q)), ~ Before(doc, End(q), End(q)),
               ~ Before(doc, End(q), Begin(q))
        PROVE  /\ tokens \cap Pair(q) = {} => Pair(q) \cap ToSet(new) = {}
               /\ \A t \in ToSet(doc) : \/ t \in ToSet(new) \cup Pair(q)
                                        \/ Before(doc, Begin(q), t) /\ Before(doc, t, End(q))
               /\ \A t \in ToSet(new) : \/ t \in tokens
                                        \/ Before(doc, t, Begin(q)) \/ Before(doc, End(q), t)
    <3>. DEFINE b == i + 1
    <3>1. /\ b \in 1 .. Len(doc) /\ doc[b] = Begin(q) /\ b < j
          /\ j \in 1 .. Len(doc) /\ doc[j] = End(q)
      BY <2>2, <2>6
    <3>2. \A k \in 1 .. Len(doc) : ~ (i < k /\ k <= j) => k < b \/ j < k
      BY <3>1
    <3>3. \A k \in 1 .. Len(doc) : i < k /\ k <= j => k = b \/ k = j \/ (b < k /\ k < j)
      BY <3>1
    <3>. HIDE DEF b
    <3>4. ASSUME NEW t \in ToSet(new), t \notin tokens
          PROVE  Before(doc, t, Begin(q)) \/ Before(doc, End(q), t)
      <4>1. PICK k \in 1 .. Len(doc) : doc[k] = t /\ ~ (i < k /\ k <= j)
        BY <2>4, <3>4, Zenon DEF Spliced
      <4>2. k < b \/ j < k
        BY <3>2, <4>1
      <4>. QED  BY <3>1, <4>1, <4>2, Zenon DEF Before
    <3>5. ASSUME NEW t \in ToSet(doc), t \notin ToSet(new), t \notin Pair(q)
          PROVE  Before(doc, Begin(q), t) /\ Before(doc, t, End(q))
      <4>1. PICK k \in 1 .. Len(doc) : doc[k] = t
        BY TokensOf
      <4>2. i < k /\ k <= j
        BY <2>4, <3>5, <4>1, Zenon DEF Spliced
      <4>3. k # b /\ k # j
        BY <3>1, <3>5, <4>1 DEF Pair
      <4>4. b < k /\ k < j
        BY <3>3, <4>2, <4>3
      <4>. QED  BY <3>1, <4>1, <4>4, Zenon DEF Before
    <3>6. ASSUME tokens \cap Pair(q) = {}, NEW t \in Pair(q), t \in ToSet(new)  PROVE FALSE
      <4>1. PICK k \in 1 .. Len(doc) : doc[k] = t /\ ~ (i < k /\ k <= j)
        BY <2>4, <3>6, Zenon DEF Spliced
      <4>2. k < b \/ j < k
        BY <3>2, <4>1
      <4>3. k < j \/ b < k
        BY <3>1, <4>2
      <4>4. t = Begin(q) \/ t = End(q)
        BY <3>6 DEF Pair
      <4>5. CASE t = Begin(q)
        <5>1. ~ (k < b) /\ ~ (j < k)
          BY <2>6, <3>1, <4>1, <4>5, Zenon DEF Before
        <5>. QED  BY <4>2, <5>1
      <4>6. CASE t = End(q)
        <5>1. ~ (k < b) /\ ~ (j < k)
          BY <2>6, <3>1, <4>1, <4>6, Zenon DEF Before
        <5>. QED  BY <4>2, <5>1
      <4>. QED  BY <4>4, <4>5, <4>6
    <3>. QED  BY <3>4, <3>5, <3>6
  <2>7. Overridden(doc, new, tokens, q)
    BY <1>2, <2>5, <2>6, Zenon DEF Overridden
  <2>. QED  BY <2>4, <2>7, Zenon DEF tokens, x
<1>. QED  BY <1>1, <1>2

-----------------------------------------------------------------------------
(***************************************************************************)
(* What stays as it is when no token of a question or of the manuscript    *)
(* comes in.                                                               *)
(***************************************************************************)
Same(q) == kind'[q] = kind[q] /\ phase'[q] = phase[q] /\ sent'[q] = sent[q] /\ scope'[q] = scope[q]

LEMMA OrderlyTransitive ==
    ASSUME NEW a, NEW b, NEW c, NEW tokens, Orderly(a, b, tokens), Orderly(b, c, tokens)
    PROVE  Orderly(a, c, tokens)
BY DEF Orderly

\* A question that is not asked or answered now is as sound as before.
LEMMA SoundStays ==
    ASSUME NEW q \in Questions, Sound(q), NEW others, Orderly(doc, doc', others),
           \A p \in Pieces : Piece(p) \notin others,
           phase'[q] = "ended" \/ (Same(q) /\ Pair(q) \cap others = {})
    PROVE  Sound(q)'
<1>1. CASE phase'[q] = "ended"
  BY <1>1 DEF Sound, Marked, InOrder, ScopeHolds, Editing, Unmarked
<1>2. CASE Same(q) /\ Pair(q) \cap others = {}
  <2>1. Marked(q)'
    BY <1>2 DEF Sound, Marked, Same, Orderly, Unmarked
  <2>2. Begin(q) \notin others /\ End(q) \notin others
    BY <1>2 DEF Pair
  <2>3. /\ Editing(q)' => Editing(q)
        /\ phase'[q] = "waiting" /\ kind'[q] = "evolve"
              => phase[q] = "waiting" /\ kind[q] = "evolve"
    BY <1>2 DEF Editing, Same
  <2>4. InOrder(q)'
    BY <2>2, <2>3, Zenon DEF Sound, InOrder, Orderly
  <2>5. ASSUME NEW p \in Pieces
        PROVE  /\ Before(doc', Begin(q), Piece(p)) => Before(doc, Begin(q), Piece(p))
               /\ Before(doc', Piece(p), End(q)) => Before(doc, Piece(p), End(q))
               /\ Piece(p) \in ToSet(doc') => Piece(p) \in ToSet(doc)
    <3>1. Piece(p) \notin others
      OBVIOUS
    <3>. QED  BY <2>2, <3>1 DEF Orderly
  <2>6. ScopeHolds(q)'
    <3>1. scope'[q] = scope[q]
      BY <1>2 DEF Same
    <3>. QED  BY <2>3, <2>5, <3>1, Zenon DEF Sound, ScopeHolds
  <2>. QED  BY <2>1, <2>4, <2>6, Zenon DEF Sound
<1>. QED  BY <1>1, <1>2

LEMMA PiecesOnceStays ==
    ASSUME PiecesOnce, NEW others, Orderly(doc, doc', others),
           \A p \in Pieces : Piece(p) \notin others
    PROVE  PiecesOnce'
BY Zenon DEF PiecesOnce, Orderly

\* What was lost stays lost to the same, and what is lost now, is lost to one.
LEMMA LostStays ==
    ASSUME LostOnlyInScope, "kept" \notin strayed, deleted \subseteq deleted',
           \A q \in Questions : phase[q] = "ended" => phase'[q] = "ended" /\ scope'[q] = scope[q],
           \A p \in Pieces : Piece(p) \in ToSet(doc) =>
              \/ Piece(p) \in ToSet(doc') \cup deleted'
              \/ \E q \in Questions : phase'[q] = "ended" /\ Piece(p) \in scope'[q]
    PROVE  LostOnlyInScope'
<1>1. ASSUME NEW p \in Pieces
      PROVE  \/ Piece(p) \in ToSet(doc') \cup deleted'
             \/ \E q \in Questions : phase'[q] = "ended" /\ Piece(p) \in scope'[q]
  <2>1. \/ Piece(p) \in ToSet(doc) \/ Piece(p) \in deleted
        \/ \E q \in Questions : phase[q] = "ended" /\ Piece(p) \in scope[q]
    BY DEF LostOnlyInScope, Piece
  <2>2. CASE Piece(p) \in ToSet(doc)
    BY <2>2
  <2>3. CASE Piece(p) \in deleted
    BY <2>3
  <2>4. CASE \E q \in Questions : phase[q] = "ended" /\ Piece(p) \in scope[q]
    BY <2>4
  <2>. QED  BY <2>1, <2>2, <2>3, <2>4
<1>. QED  BY <1>1, Zenon DEF LostOnlyInScope, Piece

LEMMA NestedStays ==
    ASSUME Nested, NEW others, Orderly(doc, doc', others),
           \A q \in Questions : Pair(q) \cap others = {}
    PROVE  Nested'
<1>1. \A q \in Questions : Begin(q) \notin others /\ End(q) \notin others
  BY DEF Pair
<1>. QED  BY <1>1, Zenon DEF Nested, Crossing, Orderly

\* Nothing happens to the manuscript and its questions.
LEMMA NothingHappens ==
    ASSUME Keeping, Pairing, UNCHANGED <<doc, kind, phase, sent, scope, deleted, strayed>>,
           gone => gone'
    PROVE  Keeping' /\ Pairing'
<1>1. Keeping'
  BY DEF Keeping, PiecesOnce, Sound, Marked, InOrder, ScopeHolds, Editing, Unmarked,
         LostOnlyInScope
<1>2. Pairing'
  BY DEF Pairing, Paired, Nested, Crossing
<1>. QED  BY <1>1, <1>2

-----------------------------------------------------------------------------
(***************************************************************************)
(* Every step keeps the invariant.                                         *)
(***************************************************************************)
LEMMA PiecesAreNoMarkers ==
    ASSUME NEW p, NEW q
    PROVE  Piece(p) \notin Pair(q) /\ Piece(p) # Answer(q) /\ Answer(q) \notin Markers
BY TokensDiffer DEF Pair, Piece, Token, Answer, Markers, Begin, End

LEMMA PairsAreApart ==
    ASSUME NEW q, NEW r, q # r
    PROVE  Pair(q) \cap Pair(r) = {}
BY TokensDiffer DEF Pair

LEMMA InitHolds == Init => IInv
<1>. SUFFICES ASSUME Init  PROVE IInv
  OBVIOUS
<1>. DEFINE S == {Token("text", p) : p \in Pieces}
<1>1. IsFiniteSet(S)
  <2>. DEFINE f == [p \in Pieces |-> Token("text", p)]
  <2>1. f \in Surjection(Pieces, S)
    BY DEF Surjection
  <2>. QED  BY <2>1, PiecesAssumption, FS_Surjection
<1>2. doc = SetToSeq(S)
  BY DEF Init
<1>3. \A p \in Pieces : Piece(p) \in S
  BY DEF Piece
<1>4. \A t \in S : \E p \in Pieces : t = Piece(p)
  BY DEF Piece
<1>5. S \subseteq Tokens
  BY DEF Tokens
<1>. HIDE DEF S
<1>6. doc \in Seq(S) /\ (\A t \in S : t \in ToSet(doc)) /\ \A s, t : ~ (s = t /\ Before(doc, s, t))
  BY <1>1, <1>2, SetAsText, Zenon
<1>7. \A t \in ToSet(doc) : t \in S
  BY <1>6, TokensOf
<1>8. \A q \in Questions : Pair(q) \cap ToSet(doc) = {}
  BY <1>4, <1>7, PiecesAreNoMarkers
<1>9. TypeOK
  <2>1. doc \in Seq(Tokens)
    BY <1>5, <1>6
  <2>2. InitialState \in [text : {"state", "other", "value"}, policy : 0 .. MaxEdits,
                          compass : Questions \cup {NoReview},
                          bearing : Questions \cup {NoReview}]
    BY EditsAssumption DEF InitialState
  <2>3. <<>> \in Seq(Tokens)
    OBVIOUS
  <2>4. 0 \in 0 .. MaxEdits /\ 0 \in 0 .. 0
    BY EditsAssumption
  <2>. QED  BY <2>1, <2>2, <2>3, <2>4 DEF Init, TypeOK
<1>10. PolicyIsTheUsers
  BY DEF Init, PolicyIsTheUsers, InitialState
<1>11. \A q \in Questions : phase[q] = "new"
  BY DEF Init
<1>12. Keeping
  <2>1. PiecesOnce
    BY <1>6, Zenon DEF PiecesOnce
  <2>2. \A q \in Questions : Sound(q)
    BY <1>8, <1>11 DEF Sound, Marked, InOrder, ScopeHolds, Editing
  <2>3. LostOnlyInScope
    BY <1>3, <1>6 DEF LostOnlyInScope, Piece
  <2>. QED  BY <2>1, <2>2, <2>3 DEF Keeping
<1>13. Pairing
  <2>1. Paired
    BY <1>8, <1>11 DEF Paired, Pair
  <2>2. ASSUME NEW q \in Questions, NEW r \in Questions, Crossing(doc, q, r)  PROVE FALSE
    <3>1. PICK k \in 1 .. Len(doc) : doc[k] = Begin(q)
      BY <2>2 DEF Crossing, Before
    <3>2. Begin(q) \in ToSet(doc)
      BY <1>6, <3>1, TokensOf
    <3>. QED  BY <1>8, <3>2 DEF Pair
  <2>. QED  BY <2>1, <2>2 DEF Pairing, Nested
<1>. QED  BY <1>9, <1>10, <1>12, <1>13 DEF IInv

\* The user types.
LEMMA TypeKeeps ==
    ASSUME IInv, NEW k \in 0 .. Len(doc), Type(k)
    PROVE  IInv'
<1>. DEFINE t == Token("typed", edits')
<1>1. doc \in Seq(Tokens)
  BY DEF IInv, TypeOK
<1>2. edits' \in 1 .. MaxEdits /\ edits' = edits + 1 /\ edits \in 0 .. MaxEdits
  BY EditsAssumption DEF IInv, TypeOK, Type, MayEdit
<1>3. t \in Tokens
  BY <1>2 DEF Tokens
<1>4. doc' = InsertAt(doc, k + 1, t)
  BY DEF Type
<1>5. /\ \A p \in Pieces : Piece(p) # t
      /\ \A q \in Questions : Pair(q) \cap {t} = {}
  BY TokensDiffer DEF Pair
<1>. HIDE DEF t
<1>6. doc' \in Seq(Tokens) /\ Orderly(doc, doc', {t}) /\ ToSet(doc) \subseteq ToSet(doc')
  BY <1>1, <1>3, <1>4, InsertKeeps
<1>7. UNCHANGED <<gone, directive, review, kind, phase, kernel, sent, wanted, scope,
                  deleted, strayed>>
  BY DEF Type, asking, history
<1>8. TypeOK'
  BY <1>2, <1>6, <1>7, EditsAssumption DEF IInv, TypeOK
<1>9. PolicyIsTheUsers'
  BY <1>7 DEF IInv, PolicyIsTheUsers
<1>10. Keeping'
  <2>. SUFFICES ASSUME "kept" \notin strayed
       PROVE  PiecesOnce' /\ (\A q \in Questions : Sound(q)') /\ LostOnlyInScope'
    BY <1>7 DEF Keeping
  <2>1. PiecesOnce /\ (\A q \in Questions : Sound(q)) /\ LostOnlyInScope
    BY DEF IInv, Keeping
  <2>2. PiecesOnce'
    BY <1>5, <1>6, <2>1, PiecesOnceStays
  <2>3. ASSUME NEW q \in Questions  PROVE Sound(q)'
    <3>1. Same(q)
      BY <1>7 DEF Same
    <3>. QED  BY <1>5, <1>6, <2>1, <3>1, SoundStays
  <2>4. LostOnlyInScope'
    BY <1>6, <1>7, <2>1, LostStays
  <2>. QED  BY <2>2, <2>3, <2>4
<1>11. Pairing'
  <2>. SUFFICES ASSUME strayed = {}, ~ gone  PROVE Paired' /\ Nested'
    BY <1>7 DEF Pairing
  <2>1. Paired /\ Nested
    BY DEF IInv, Pairing
  <2>2. Nested'
    BY <1>5, <1>6, <2>1, NestedStays
  <2>3. \A q \in Questions : /\ Begin(q) \in ToSet(doc') <=> Begin(q) \in ToSet(doc)
                             /\ End(q) \in ToSet(doc') <=> End(q) \in ToSet(doc)
    BY <1>5, <1>6 DEF Orderly, Pair
  <2>4. Paired'
    BY <1>7, <2>1, <2>3 DEF Paired, Pair
  <2>. QED  BY <2>2, <2>4
<1>. QED  BY <1>8, <1>9, <1>10, <1>11 DEF IInv

\* The user deletes a token.
LEMMA DeleteKeeps ==
    ASSUME IInv, NEW k \in 0 .. Len(doc), Delete(k)
    PROVE  IInv'
<1>1. doc \in Seq(Tokens) /\ k \in 1 .. Len(doc)
  BY DEF IInv, TypeOK, Delete
<1>2. edits' \in 0 .. MaxEdits /\ edits' = edits + 1 /\ edits \in 0 .. MaxEdits
  BY EditsAssumption DEF IInv, TypeOK, Delete, MayEdit
<1>3. doc' = RemoveAt(doc, k)
  BY DEF Delete
<1>4. /\ doc' \in Seq(Tokens) /\ Orderly(doc, doc', {})
      /\ \A t \in ToSet(doc) : t \in ToSet(doc') \/ t = doc[k]
  BY <1>1, <1>3, RemoveKeeps
<1>5. UNCHANGED <<gone, directive, review, kind, phase, kernel, sent, wanted, scope>>
  BY DEF Delete, asking
<1>6. /\ deleted' = deleted \cup {doc[k]}
      /\ strayed' = IF doc[k] \in Markers THEN strayed \cup {"cut"} ELSE strayed
  BY DEF Delete
<1>7. TypeOK'
  <2>1. doc[k] \in Tokens
    BY <1>1
  <2>. QED  BY <1>2, <1>4, <1>5, <1>6, <2>1, EditsAssumption DEF IInv, TypeOK
<1>8. PolicyIsTheUsers'
  BY <1>5 DEF IInv, PolicyIsTheUsers
<1>9. Keeping'
  <2>. SUFFICES ASSUME "kept" \notin strayed'
       PROVE  PiecesOnce' /\ (\A q \in Questions : Sound(q)') /\ LostOnlyInScope'
    BY DEF Keeping
  <2>0. "kept" \notin strayed
    BY <1>6
  <2>1. PiecesOnce /\ (\A q \in Questions : Sound(q)) /\ LostOnlyInScope
    BY <2>0 DEF IInv, Keeping
  <2>2. PiecesOnce'
    BY <1>4, <2>1, PiecesOnceStays
  <2>3. ASSUME NEW q \in Questions  PROVE Sound(q)'
    <3>1. Same(q)
      BY <1>5 DEF Same
    <3>. QED  BY <1>4, <2>1, <3>1, SoundStays
  <2>4. LostOnlyInScope'
    BY <1>4, <1>5, <1>6, <2>0, <2>1, LostStays
  <2>. QED  BY <2>2, <2>3, <2>4
<1>10. Pairing'
  <2>. SUFFICES ASSUME strayed' = {}, ~ gone  PROVE Paired' /\ Nested'
    BY <1>5 DEF Pairing
  <2>0. strayed = {} /\ doc[k] \notin Markers
    BY <1>6
  <2>1. Paired /\ Nested
    BY <2>0 DEF IInv, Pairing
  <2>2. Nested'
    BY <1>4, <2>1, NestedStays
  <2>3. \A q \in Questions : /\ Begin(q) \in ToSet(doc') <=> Begin(q) \in ToSet(doc)
                             /\ End(q) \in ToSet(doc') <=> End(q) \in ToSet(doc)
    BY <1>4, <2>0 DEF Orderly, Markers
  <2>4. Paired'
    BY <1>5, <2>1, <2>3 DEF Paired, Pair
  <2>. QED  BY <2>2, <2>4
<1>. QED  BY <1>7, <1>8, <1>9, <1>10 DEF IInv

\* The manuscript's buffer is wiped, or the user edits the directive.
LEMMA DirectiveKeeps ==
    ASSUME IInv, Wipe \/ SetPolicy \/ Garble
    PROVE  IInv'
<1>1. Keeping' /\ Pairing'
  <2>1. UNCHANGED <<doc, kind, phase, sent, scope, deleted, strayed>> /\ (gone => gone')
    BY DEF Wipe, SetPolicy, Garble, asking, history
  <2>. QED  BY <2>1, NothingHappens DEF IInv
<1>2. UNCHANGED <<doc, review, kind, phase, kernel, sent, scope, deleted, strayed>>
  BY DEF Wipe, SetPolicy, Garble, asking, history
<1>3. TypeOK' /\ PolicyIsTheUsers'
  <2>1. CASE Wipe
    BY <1>2, <2>1 DEF IInv, TypeOK, PolicyIsTheUsers, Wipe, history
  <2>2. CASE SetPolicy
    <3>1. /\ edits' = edits + 1 /\ wanted' = wanted + 1 /\ gone' = gone
          /\ directive' = [directive EXCEPT !.policy = wanted'] /\ edits < MaxEdits
      BY <2>2 DEF SetPolicy, MayEdit
    <3>2. /\ edits' \in 0 .. MaxEdits /\ wanted' \in 0 .. edits' /\ wanted' \in 0 .. MaxEdits
      BY <3>1, EditsAssumption DEF IInv, TypeOK
    <3>3. directive' \in [text : {"state", "other", "value"}, policy : 0 .. MaxEdits,
                          compass : Questions \cup {NoReview},
                          bearing : Questions \cup {NoReview}]
          /\ directive'.policy = wanted'
      BY <3>1, <3>2 DEF IInv, TypeOK
    <3>. QED  BY <1>2, <3>1, <3>2, <3>3 DEF IInv, TypeOK, PolicyIsTheUsers
  <2>3. CASE Garble
    <3>1. /\ edits' = edits + 1 /\ wanted' = wanted /\ gone' = gone /\ edits < MaxEdits
          /\ \E text \in {"state", "other", "value"} :
                directive' = [directive EXCEPT !.text = text]
      BY <2>3 DEF Garble, MayEdit, history
    <3>2. /\ edits' \in 0 .. MaxEdits /\ wanted' \in 0 .. edits'
      BY <3>1, EditsAssumption DEF IInv, TypeOK
    <3>3. directive' \in [text : {"state", "other", "value"}, policy : 0 .. MaxEdits,
                          compass : Questions \cup {NoReview},
                          bearing : Questions \cup {NoReview}]
          /\ directive'.policy = directive.policy
      BY <3>1 DEF IInv, TypeOK
    <3>. QED  BY <1>2, <3>1, <3>2, <3>3 DEF IInv, TypeOK, PolicyIsTheUsers
  <2>. QED  BY <2>1, <2>2, <2>3
<1>. QED  BY <1>1, <1>3 DEF IInv

\* What enclosing the selection does to the manuscript.
LEMMA EnclosesSelection ==
    ASSUME doc \in Seq(Tokens), NEW q \in Questions,
           NEW from \in 1 .. Len(doc), NEW to \in from .. Len(doc), NEW new,
           new = Enclose(q, from, to)
    PROVE  /\ new \in Seq(Tokens)
           /\ Encloses(doc, new, ToSet(SubSeq(doc, from, to)), q)
<1>. DEFINE b == Begin(q)
            e == End(q)
<1>1. b \in Tokens /\ e \in Tokens
  BY DEF Tokens, Markers
<1>2. new = SubSeq(doc, 1, from - 1) \o <<b>> \o SubSeq(doc, from, to) \o <<e>>
                \o SubSeq(doc, to + 1, Len(doc))
  BY Zenon DEF Enclose
<1>. HIDE DEF b, e
<1>3. new \in Seq(Tokens) /\ EnclosedPlaces(doc, new, from, to, b, e)
  BY <1>1, <1>2, EnclosePlaces, Zenon
<1>4. Encloses(doc, new, ToSet(SubSeq(doc, from, to)), q)
  BY <1>1, <1>3, EncloseKeeps, Zenon DEF b, e
<1>. QED  BY <1>3, <1>4

\* An edit is asked for.
LEMMA AskEditKeeps ==
    ASSUME IInv, NEW q \in Questions, NEW from \in 1 .. Len(doc), NEW to \in 1 .. Len(doc),
           AskEdit(q, from, to)
    PROVE  IInv'
<1>. DEFINE selected == ToSet(SubSeq(doc, from, to))
<1>1. doc \in Seq(Tokens) /\ to \in from .. Len(doc) /\ phase[q] = "new" /\ ~ gone
  BY DEF IInv, TypeOK, AskEdit
<1>2. doc' = Enclose(q, from, to)
  BY DEF AskEdit
<1>3. doc' \in Seq(Tokens) /\ Encloses(doc, doc', selected, q)
  BY <1>1, <1>2, EnclosesSelection, Zenon
<1>16. selected \subseteq Tokens
  <2>1. SubSeq(doc, from, to) \in Seq(Tokens)
    <3>1. from \in 1 .. (Len(doc) + 1) /\ to \in (from - 1) .. Len(doc)
      BY <1>1
    <3>. QED  BY <1>1, <3>1, PartPlaces, Zenon
  <2>. QED  BY <2>1, TokensIn, Zenon DEF selected
<1>4. /\ scope' = [scope EXCEPT ![q] = selected]
      /\ strayed' = IF Crosses(selected) THEN strayed \cup {"crossed"} ELSE strayed
  BY Zenon DEF AskEdit
<1>. HIDE DEF selected
<1>5. /\ kind'   = [kind EXCEPT ![q] = "edit"]
      /\ phase'  = [phase EXCEPT ![q] = "waiting"]
      /\ sent'   = [sent EXCEPT ![q] = doc']
      /\ kernel' = kernel \cup {q}
  BY DEF AskEdit, Create
<1>6. UNCHANGED <<gone, directive, review, edits, wanted, deleted>>
  BY DEF AskEdit
<1>7. TypeOK'
  BY <1>3, <1>4, <1>5, <1>6, <1>16 DEF IInv, TypeOK, Kinds
<1>8. PolicyIsTheUsers'
  BY <1>6 DEF IInv, PolicyIsTheUsers
<1>9. Orderly(doc, doc', Pair(q)) /\ ToSet(doc) \cup Pair(q) \subseteq ToSet(doc')
  BY <1>3, Zenon DEF Encloses
<1>10. /\ kind'[q] = "edit" /\ phase'[q] = "waiting" /\ scope'[q] = selected
       /\ \A r \in Questions : r # q => Same(r)
  BY <1>4, <1>5 DEF IInv, TypeOK, Same
<1>11. \A p \in Pieces : Piece(p) \notin Pair(q)
  BY PiecesAreNoMarkers
<1>12. \A r \in Questions : r # q => Pair(r) \cap Pair(q) = {}
  BY PairsAreApart
<1>13. ASSUME "kept" \notin strayed
       PROVE  /\ PiecesOnce /\ (\A r \in Questions : Sound(r)) /\ LostOnlyInScope
              /\ Pair(q) \cap ToSet(doc) = {}
  <2>1. PiecesOnce /\ (\A r \in Questions : Sound(r)) /\ LostOnlyInScope
    BY <1>13 DEF IInv, Keeping
  <2>. QED  BY <1>1, <2>1 DEF Sound, Marked, Unmarked
<1>14. Keeping'
  <2>. SUFFICES ASSUME "kept" \notin strayed'
       PROVE  PiecesOnce' /\ (\A r \in Questions : Sound(r)') /\ LostOnlyInScope'
    BY DEF Keeping
  <2>0. "kept" \notin strayed
    BY <1>4
  <2>1. PiecesOnce /\ (\A r \in Questions : Sound(r)) /\ LostOnlyInScope
    BY <1>13, <2>0
  <2>2. PiecesOnce'
    BY <1>9, <1>11, <2>1, PiecesOnceStays
  <2>3. ASSUME NEW r \in Questions  PROVE Sound(r)'
    <3>1. CASE r # q
      BY <1>9, <1>10, <1>11, <1>12, <2>1, <3>1, SoundStays
    <3>2. CASE r = q
      <4>1. Marked(q)'
        BY <1>10 DEF Marked, Unmarked
      <4>2. InOrder(q)'
        BY <1>3, <1>13, <2>0, Zenon DEF InOrder, Encloses
      <4>3. ScopeHolds(q)'
        <5>1. ASSUME NEW p \in Pieces,
                     Before(doc', Begin(q), Piece(p)), Before(doc', Piece(p), End(q))
              PROVE  Piece(p) \in selected
          <6>1. ~ Before(doc, Piece(p), Piece(p))
            BY <2>1 DEF PiecesOnce
          <6>. QED  BY <1>3, <1>11, <1>13, <2>0, <5>1, <6>1, Zenon DEF Encloses
        <5>. QED  BY <1>10, <5>1 DEF ScopeHolds
      <4>. QED  BY <3>2, <4>1, <4>2, <4>3 DEF Sound
    <3>. QED  BY <3>1, <3>2
  <2>4. LostOnlyInScope'
    <3>1. \A r \in Questions : phase[r] = "ended" => phase'[r] = "ended" /\ scope'[r] = scope[r]
      BY <1>1, <1>10 DEF Same
    <3>. QED  BY <1>6, <1>9, <2>0, <2>1, <3>1, LostStays
  <2>. QED  BY <2>2, <2>3, <2>4
<1>15. Pairing'
  <2>. SUFFICES ASSUME strayed' = {}  PROVE Paired' /\ Nested'
    BY DEF Pairing
  <2>0. strayed = {} /\ ~ Crosses(selected)
    BY <1>4
  <2>1. Paired /\ Nested /\ (\A r \in Questions : Sound(r)) /\ Pair(q) \cap ToSet(doc) = {}
    BY <1>1, <1>13, <2>0 DEF IInv, Pairing
  <2>2. \A r \in Questions : Begin(r) \in selected <=> End(r) \in selected
    BY <2>0 DEF Crosses
  <2>3. ASSUME NEW r \in Questions, r # q
        PROVE  /\ Begin(r) \notin Pair(q) /\ End(r) \notin Pair(q)
               /\ Begin(r) \in ToSet(doc') <=> Begin(r) \in ToSet(doc)
               /\ End(r) \in ToSet(doc') <=> End(r) \in ToSet(doc)
    <3>1. Begin(r) \notin Pair(q) /\ End(r) \notin Pair(q)
      BY <1>12, <2>3 DEF Pair
    <3>. QED  BY <1>9, <3>1 DEF Orderly
  <2>4. Paired'
    <3>1. ASSUME NEW r \in Questions
          PROVE  /\ Begin(r) \in ToSet(doc') <=> End(r) \in ToSet(doc')
                 /\ phase'[r] = "ended" => Pair(r) \cap ToSet(doc') = {}
      <4>1. CASE r = q
        BY <1>9, <1>10, <4>1 DEF Pair
      <4>2. CASE r # q
        BY <1>10, <2>1, <2>3, <4>2 DEF Paired, Pair, Same
      <4>. QED  BY <4>1, <4>2
    <3>. QED  BY <3>1, Zenon DEF Paired
  \* A marker of another in the manuscript is that of an edit that is awaited.
  <2>5. ASSUME NEW r \in Questions, r # q, Pair(r) \cap ToSet(doc) # {}
        PROVE  /\ ~ Before(doc, Begin(r), Begin(r)) /\ ~ Before(doc, End(r), End(r))
    <3>1. ~ Unmarked(r) /\ phase[r] # "ended"
      BY <2>1, <2>5 DEF Sound, Marked, Paired
    <3>2. Editing(r)
      BY <3>1 DEF IInv, TypeOK, Unmarked, Editing
    <3>. QED  BY <2>1, <3>2 DEF Sound, InOrder
  <2>6. ASSUME NEW a, NEW b, Before(doc', a, b)
        PROVE  a \in ToSet(doc') /\ b \in ToSet(doc')
    <3>1. PICK i, j \in 1 .. Len(doc') : doc'[i] = a /\ doc'[j] = b
      BY <2>6 DEF Before
    <3>. QED  BY <1>3, <3>1, TokensOf
  <2>7. ASSUME NEW r \in Questions, r # q, Crossing(doc', q, r)  PROVE FALSE
    <3>1. /\ Before(doc', Begin(q), Begin(r)) /\ Before(doc', Begin(r), End(q))
          /\ Before(doc', End(q), End(r))
      BY <2>7 DEF Crossing
    <3>2. Begin(r) \in ToSet(doc)
      BY <2>3, <2>6, <2>7, <3>1
    <3>3. ~ Before(doc, Begin(r), Begin(r)) /\ ~ Before(doc, End(r), End(r))
      BY <2>5, <2>7, <3>2 DEF Pair
    <3>4. Begin(r) \in selected
      BY <1>3, <2>1, <2>3, <2>7, <3>1, <3>3, Zenon DEF Encloses
    <3>5. End(r) \in selected
      BY <2>2, <3>4
    <3>. QED  BY <1>3, <2>1, <2>3, <2>7, <3>1, <3>3, <3>5, Zenon DEF Encloses
  <2>8. ASSUME NEW r \in Questions, r # q, Crossing(doc', r, q)  PROVE FALSE
    <3>1. /\ Before(doc', Begin(r), Begin(q)) /\ Before(doc', Begin(q), End(r))
          /\ Before(doc', End(r), End(q))
      BY <2>8 DEF Crossing
    <3>2. Begin(r) \in ToSet(doc)
      BY <2>3, <2>6, <2>8, <3>1
    <3>3. ~ Before(doc, Begin(r), Begin(r)) /\ ~ Before(doc, End(r), End(r))
      BY <2>5, <2>8, <3>2 DEF Pair
    <3>4. End(r) \in selected
      BY <1>3, <2>1, <2>3, <2>8, <3>1, <3>3, Zenon DEF Encloses
    <3>5. Begin(r) \in selected
      BY <2>2, <3>4
    <3>. QED  BY <1>3, <2>1, <2>3, <2>8, <3>1, <3>3, <3>5, Zenon DEF Encloses
  <2>9. ASSUME NEW r \in Questions, NEW u \in Questions, r # u, r # q, u # q,
               Crossing(doc', r, u)
        PROVE  FALSE
    <3>1. /\ Begin(r) \notin Pair(q) /\ End(r) \notin Pair(q)
          /\ Begin(u) \notin Pair(q) /\ End(u) \notin Pair(q)
      BY <2>3, <2>9
    <3>2. Crossing(doc, r, u)
      BY <1>9, <2>9, <3>1, Zenon DEF Crossing, Orderly
    <3>. QED  BY <2>1, <2>9, <3>2 DEF Nested
  <2>10. Nested'
    BY <2>7, <2>8, <2>9, Zenon DEF Nested
  <2>. QED  BY <2>4, <2>10
<1>. QED  BY <1>7, <1>8, <1>14, <1>15 DEF IInv

\* Asking for an edit fails: its markers stay in the manuscript.
LEMMA RefuseEditKeeps ==
    ASSUME IInv, NEW q \in Questions, NEW from \in 1 .. Len(doc), NEW to \in 1 .. Len(doc),
           RefuseEdit(q, from, to)
    PROVE  IInv'
<1>1. doc \in Seq(Tokens) /\ to \in from .. Len(doc) /\ phase[q] = "new"
  BY DEF IInv, TypeOK, RefuseEdit
<1>2. doc' = Enclose(q, from, to)
  BY DEF RefuseEdit
<1>3. doc' \in Seq(Tokens) /\ Encloses(doc, doc', ToSet(SubSeq(doc, from, to)), q)
  BY <1>1, <1>2, EnclosesSelection, Zenon
<1>4. /\ phase' = [phase EXCEPT ![q] = "ended"] /\ strayed' = strayed \cup {"refused"}
      /\ UNCHANGED <<gone, directive, review, kind, kernel, sent, edits, wanted, scope, deleted>>
  BY DEF RefuseEdit
<1>5. TypeOK'
  <2>1. kernel' \subseteq {r \in Questions : phase'[r] = "waiting"}
    BY <1>1, <1>4 DEF IInv, TypeOK
  <2>. QED  BY <1>3, <1>4, <2>1 DEF IInv, TypeOK
<1>6. PolicyIsTheUsers'
  BY <1>4 DEF IInv, PolicyIsTheUsers
<1>7. Orderly(doc, doc', Pair(q)) /\ ToSet(doc) \cup Pair(q) \subseteq ToSet(doc')
  BY <1>3, Zenon DEF Encloses
<1>8. phase'[q] = "ended" /\ \A r \in Questions : r # q => Same(r)
  BY <1>4 DEF IInv, TypeOK, Same
<1>9. \A p \in Pieces : Piece(p) \notin Pair(q)
  BY PiecesAreNoMarkers
<1>10. Keeping'
  <2>. SUFFICES ASSUME "kept" \notin strayed'
       PROVE  PiecesOnce' /\ (\A r \in Questions : Sound(r)') /\ LostOnlyInScope'
    BY DEF Keeping
  <2>0. "kept" \notin strayed
    BY <1>4
  <2>1. PiecesOnce /\ (\A r \in Questions : Sound(r)) /\ LostOnlyInScope
    BY <2>0 DEF IInv, Keeping
  <2>2. PiecesOnce'
    BY <1>7, <1>9, <2>1, PiecesOnceStays
  <2>3. ASSUME NEW r \in Questions  PROVE Sound(r)'
    <3>1. r # q => Pair(r) \cap Pair(q) = {}
      BY PairsAreApart
    <3>. QED  BY <1>7, <1>8, <1>9, <2>1, <3>1, SoundStays
  <2>4. LostOnlyInScope'
    <3>1. \A r \in Questions : phase[r] = "ended" => phase'[r] = "ended" /\ scope'[r] = scope[r]
      BY <1>1, <1>4, <1>8 DEF Same
    <3>. QED  BY <1>4, <1>7, <2>0, <2>1, <3>1, LostStays
  <2>. QED  BY <2>2, <2>3, <2>4
<1>11. Pairing'
  BY <1>4 DEF Pairing
<1>. QED  BY <1>5, <1>6, <1>10, <1>11 DEF IInv

\* A question about the whole manuscript.
LEMMA AskWholeKeeps ==
    ASSUME IInv, NEW q \in Questions, NEW k \in Kinds, AskWhole(q, k)
    PROVE  IInv'
<1>1. /\ doc \in Seq(Tokens) /\ phase[q] = "new" /\ k \in {"review", "evolve", "reflect"}
      /\ doc' = doc /\ k # "edit"
  BY DEF IInv, TypeOK, AskWhole
<1>2. /\ kind'   = [kind EXCEPT ![q] = k]
      /\ phase'  = [phase EXCEPT ![q] = "waiting"]
      /\ sent'   = [sent EXCEPT ![q] = doc]
      /\ kernel' = kernel \cup {q}
      /\ scope'  = [scope EXCEPT ![q] = IF k = "evolve" THEN ToSet(doc) ELSE {}]
  BY DEF AskWhole, Create
<1>3. UNCHANGED <<doc, gone, directive, review, edits, wanted, deleted, strayed>>
  BY DEF AskWhole
<1>4. TypeOK'
  <2>1. ToSet(doc) \subseteq Tokens
    BY <1>1 DEF ToSet
  <2>2. (IF k = "evolve" THEN ToSet(doc) ELSE {}) \in SUBSET Tokens
    BY <2>1
  <2>. QED  BY <1>1, <1>2, <1>3, <2>2 DEF IInv, TypeOK, Kinds
<1>5. PolicyIsTheUsers'
  BY <1>3 DEF IInv, PolicyIsTheUsers
<1>6. /\ kind'[q] = k /\ phase'[q] = "waiting" /\ sent'[q] = doc
      /\ k = "evolve" => scope'[q] = ToSet(doc)
      /\ \A r \in Questions : r # q => Same(r)
  BY <1>2 DEF IInv, TypeOK, Same
<1>7. Orderly(doc, doc', {})
  BY <1>1 DEF Orderly
<1>8. Keeping'
  <2>. SUFFICES ASSUME "kept" \notin strayed
       PROVE  PiecesOnce' /\ (\A r \in Questions : Sound(r)') /\ LostOnlyInScope'
    BY <1>3 DEF Keeping
  <2>1. PiecesOnce /\ (\A r \in Questions : Sound(r)) /\ LostOnlyInScope
    BY DEF IInv, Keeping
  <2>2. PiecesOnce'
    BY <1>7, <2>1, PiecesOnceStays
  <2>3. ASSUME NEW r \in Questions  PROVE Sound(r)'
    <3>1. CASE r # q
      BY <1>6, <1>7, <2>1, <3>1, SoundStays
    <3>2. CASE r = q
      <4>1. Pair(q) \cap ToSet(doc) = {}
        BY <1>1, <2>1 DEF Sound, Marked, Unmarked
      <4>2. Marked(q)' /\ InOrder(q)' /\ ScopeHolds(q)'
        BY <1>1, <1>6, <4>1 DEF Marked, InOrder, ScopeHolds, Editing
      <4>. QED  BY <3>2, <4>2 DEF Sound
    <3>. QED  BY <3>1, <3>2
  <2>4. LostOnlyInScope'
    <3>1. \A r \in Questions : phase[r] = "ended" => phase'[r] = "ended" /\ scope'[r] = scope[r]
      BY <1>1, <1>6 DEF Same
    <3>. QED  BY <1>3, <2>1, <3>1, LostStays
  <2>. QED  BY <2>2, <2>3, <2>4
<1>9. Pairing'
  <2>. SUFFICES ASSUME strayed = {}, ~ gone  PROVE Paired' /\ Nested'
    BY <1>3 DEF Pairing
  <2>1. Paired /\ Nested
    BY DEF IInv, Pairing
  <2>2. Nested'
    BY <1>1, <2>1 DEF Nested
  <2>3. \A r \in Questions : phase'[r] = "ended" => phase[r] = "ended"
    BY <1>6 DEF Same
  <2>. QED  BY <1>1, <2>1, <2>2, <2>3 DEF Paired
<1>. QED  BY <1>4, <1>5, <1>8, <1>9 DEF IInv

-----------------------------------------------------------------------------
(***************************************************************************)
(* A question ends.                                                        *)
(***************************************************************************)
LEMMA Concluded ==
    ASSUME TypeOK, NEW q \in Questions, Conclude(q)
    PROVE  /\ kind' = kind /\ phase' \in [Questions -> {"new", "waiting", "ended"}]
           /\ kernel' \subseteq {r \in Questions : phase'[r] = "waiting"}
           /\ sent' \in [Questions -> Seq(Tokens)]
           /\ phase'[q] = "ended"
           /\ \A r \in Questions : r # q => kind'[r] = kind[r] /\ phase'[r] = phase[r]
                                            /\ sent'[r] = sent[r]
<1>1. <<>> \in Seq(Tokens)
  OBVIOUS
<1>. QED  BY <1>1 DEF Conclude, TypeOK

\* What an answer has to spare.
LEMMA AnswerKeeps ==
    ASSUME IInv, NEW q \in Questions, Conclude(q), phase[q] = "waiting",
           UNCHANGED <<gone, scope, deleted>>, strayed \subseteq strayed',
           "kept" \notin strayed' =>
              /\ Orderly(doc, doc', Pair(q) \cup {Answer(q)})
              /\ \A p \in Pieces :
                    Piece(p) \in ToSet(doc) => Piece(p) \in ToSet(doc') \cup scope[q],
           strayed' = {} /\ ~ gone =>
              /\ Orderly(doc, doc', {Answer(q)})
              /\ Pair(q) \cap ToSet(doc') = {}
              /\ \A r \in Questions :
                    r # q => (Begin(r) \in ToSet(doc') <=> End(r) \in ToSet(doc'))
    PROVE  Keeping' /\ Pairing'
<1>1. /\ phase'[q] = "ended"
      /\ \A r \in Questions : r # q => Same(r)
  BY Concluded DEF IInv, Same
<1>2. \A p \in Pieces : Piece(p) \notin Pair(q) \cup {Answer(q)}
  BY PiecesAreNoMarkers
<1>3. /\ \A r \in Questions : r # q => Pair(r) \cap (Pair(q) \cup {Answer(q)}) = {}
      /\ \A r \in Questions : Pair(r) \cap {Answer(q)} = {}
  BY PairsAreApart, TokensDiffer DEF Pair
<1>4. Keeping'
  <2>. SUFFICES ASSUME "kept" \notin strayed'
       PROVE  PiecesOnce' /\ (\A r \in Questions : Sound(r)') /\ LostOnlyInScope'
    BY DEF Keeping
  <2>1. "kept" \notin strayed
    OBVIOUS
  <2>2. PiecesOnce /\ (\A r \in Questions : Sound(r)) /\ LostOnlyInScope
    BY <2>1 DEF IInv, Keeping
  <2>3. PiecesOnce'
    BY <1>2, <2>2, PiecesOnceStays
  <2>4. ASSUME NEW r \in Questions  PROVE Sound(r)'
    BY <1>1, <1>2, <1>3, <2>2, SoundStays
  <2>5. LostOnlyInScope'
    <3>1. \A r \in Questions : phase[r] = "ended" => phase'[r] = "ended" /\ scope'[r] = scope[r]
      BY <1>1 DEF Same
    <3>2. \A p \in Pieces : Piece(p) \in ToSet(doc) =>
             Piece(p) \in ToSet(doc') \/ Piece(p) \in scope'[q]
      OBVIOUS
    <3>. QED  BY <1>1, <2>1, <2>2, <3>1, <3>2, LostStays
  <2>. QED  BY <2>3, <2>4, <2>5
<1>5. Pairing'
  <2>. SUFFICES ASSUME strayed' = {}, ~ gone  PROVE Paired' /\ Nested'
    BY DEF Pairing
  <2>1. Paired /\ Nested
    BY DEF IInv, Pairing
  <2>2. Nested'
    BY <1>3, <2>1, NestedStays
  <2>3. ASSUME NEW r \in Questions
        PROVE  /\ Begin(r) \in ToSet(doc') <=> End(r) \in ToSet(doc')
               /\ phase'[r] = "ended" => Pair(r) \cap ToSet(doc') = {}
    <3>1. CASE r = q
      BY <3>1 DEF Pair
    <3>2. CASE r # q
      <4>1. phase'[r] = "ended" => Pair(r) \cap ToSet(doc) = {}
        BY <1>1, <2>1, <3>2 DEF Paired, Same
      <4>2. ToSet(doc') \subseteq ToSet(doc) \cup {Answer(q)}
        BY DEF Orderly
      <4>. QED  BY <1>3, <3>2, <4>1, <4>2
    <3>. QED  BY <3>1, <3>2
  <2>4. Paired'
    BY <2>3, Zenon DEF Paired
  <2>. QED  BY <2>2, <2>4
<1>. QED  BY <1>4, <1>5

\* A question that awaits no edit has no marker in the manuscript, and a change
\* of nothing spares it.
LEMMA NothingAnswered ==
    ASSUME IInv, NEW q \in Questions, phase[q] = "waiting", kind[q] # "edit", Conclude(q),
           UNCHANGED <<doc, gone, scope, deleted, strayed>>
    PROVE  Keeping' /\ Pairing'
<1>1. \A tokens : Orderly(doc, doc', tokens)
  BY DEF Orderly
<1>2. ASSUME strayed = {}, ~ gone
      PROVE  /\ Pair(q) \cap ToSet(doc') = {}
             /\ \A r \in Questions : Begin(r) \in ToSet(doc') <=> End(r) \in ToSet(doc')
  BY <1>2 DEF IInv, Keeping, Pairing, Sound, Marked, Unmarked, Paired
<1>. QED  BY <1>1, <1>2, AnswerKeeps

\* An edit is answered.
LEMMA EditAnsweredKeeps ==
    ASSUME IInv, NEW q \in Questions, EditAnswered(q)
    PROVE  IInv'
<1>1. /\ phase[q] = "waiting" /\ kind[q] = "edit" /\ Conclude(q)
      /\ UNCHANGED <<gone, directive, review, edits, wanted, scope, deleted>>
  BY DEF EditAnswered
<1>2. TypeOK /\ doc \in Seq(Tokens) /\ sent[q] \in Seq(Tokens)
  BY DEF IInv, TypeOK
<1>3. PICK output \in EditOutputs(q) :
         IF gone THEN UNCHANGED <<doc, strayed>>
         ELSE doc' = Override(q, output) /\ strayed' = Stray(q, output)
  BY DEF EditAnswered
<1>. DEFINE x == Recover(q, output)
<1>4. /\ x \in Seq(Tokens)
      /\ "kept" \notin Stray(q, output) => ToSet(x) \subseteq Pair(q) \cup {Answer(q)}
      /\ Stray(q, output) = {} => ToSet(x) \subseteq {Answer(q)}
  BY <1>2, OutputsOf, Zenon
<1>5. ~ gone => doc' \in Seq(Tokens) /\ Overridden(doc, doc', ToSet(x), q)
  BY <1>2, <1>3, <1>4, OverrideKeeps, Zenon
<1>. HIDE DEF x
<1>6. strayed \subseteq strayed'
  BY <1>3 DEF Stray
<1>7. TypeOK'
  <2>1. doc' \in Seq(Tokens)
    BY <1>2, <1>3, <1>5
  <2>2. strayed' \subseteq {"cut", "crossed", "refused", "half", "kept"}
    BY <1>3 DEF IInv, TypeOK, Stray
  <2>. QED  BY <1>1, <2>1, <2>2, Concluded DEF IInv, TypeOK
<1>8. PolicyIsTheUsers'
  BY <1>1 DEF IInv, PolicyIsTheUsers
<1>9. ASSUME "kept" \notin strayed
      PROVE  /\ \A r \in Questions : Sound(r)
             /\ ~ Before(doc, Begin(q), Begin(q)) /\ ~ Before(doc, End(q), End(q))
             /\ ~ Before(doc, End(q), Begin(q))
  BY <1>1, <1>9 DEF IInv, Keeping, Sound, InOrder, Editing
<1>10. ASSUME "kept" \notin strayed'
       PROVE  /\ Orderly(doc, doc', Pair(q) \cup {Answer(q)})
              /\ \A p \in Pieces :
                    Piece(p) \in ToSet(doc) => Piece(p) \in ToSet(doc') \cup scope[q]
  <2>1. CASE gone
    BY <1>3, <2>1 DEF Orderly
  <2>2. CASE ~ gone
    <3>1. ToSet(x) \subseteq Pair(q) \cup {Answer(q)} /\ Orderly(doc, doc', ToSet(x))
      BY <1>3, <1>4, <1>5, <1>10, <2>2 DEF Overridden
    <3>2. Orderly(doc, doc', Pair(q) \cup {Answer(q)})
      BY <3>1 DEF Orderly
    <3>3. ASSUME NEW p \in Pieces, Piece(p) \in ToSet(doc), Piece(p) \notin ToSet(doc')
          PROVE  Piece(p) \in scope[q]
      <4>1. Begin(q) \in ToSet(doc) /\ End(q) \in ToSet(doc)
        BY <1>5, <2>2, <3>3 DEF Overridden
      <4>2. Piece(p) \notin Pair(q)
        BY PiecesAreNoMarkers
      <4>3. Before(doc, Begin(q), Piece(p)) /\ Before(doc, Piece(p), End(q))
        <5>1. \A t \in ToSet(doc) : \/ t \in ToSet(doc') \cup Pair(q)
                                    \/ Before(doc, Begin(q), t) /\ Before(doc, t, End(q))
          BY <1>5, <1>6, <1>9, <1>10, <2>2, <4>1 DEF Overridden
        <5>. QED  BY <3>3, <4>2, <5>1
      <4>. QED  BY <1>1, <1>6, <1>9, <1>10, <4>3 DEF Sound, ScopeHolds, Editing
    <3>. QED  BY <3>2, <3>3
  <2>. QED  BY <2>1, <2>2
<1>11. ASSUME strayed' = {}, ~ gone
       PROVE  /\ Orderly(doc, doc', {Answer(q)})
              /\ Pair(q) \cap ToSet(doc') = {}
              /\ \A r \in Questions :
                    r # q => (Begin(r) \in ToSet(doc') <=> End(r) \in ToSet(doc'))
  <2>1. /\ strayed = {} /\ Overridden(doc, doc', ToSet(x), q)
        /\ ToSet(x) \subseteq {Answer(q)}
    BY <1>3, <1>4, <1>5, <1>6, <1>11
  <2>2. Paired /\ Nested /\ \A r \in Questions : Sound(r)
    BY <1>9, <1>11, <2>1 DEF IInv, Pairing
  <2>3. Orderly(doc, doc', {Answer(q)})
    BY <2>1 DEF Overridden, Orderly
  <2>4. \A r \in Questions : Begin(r) \notin ToSet(x) /\ End(r) \notin ToSet(x)
    BY <2>1, TokensDiffer
  <2>5. CASE Begin(q) \notin ToSet(doc) \/ End(q) \notin ToSet(doc)
    <3>1. doc' = doc
      BY <2>1, <2>5 DEF Overridden
    <3>. QED  BY <2>2, <2>3, <2>5, <3>1 DEF Paired, Pair
  <2>6. CASE Begin(q) \in ToSet(doc) /\ End(q) \in ToSet(doc)
    <3>0. ToSet(x) \cap Pair(q) = {}
      BY <2>4 DEF Pair
    <3>1. /\ Pair(q) \cap ToSet(doc') = {}
          /\ \A t \in ToSet(doc) : \/ t \in ToSet(doc') \cup Pair(q)
                                   \/ Before(doc, Begin(q), t) /\ Before(doc, t, End(q))
          /\ \A t \in ToSet(doc') : \/ t \in ToSet(x)
                                    \/ Before(doc, t, Begin(q)) \/ Before(doc, End(q), t)
      BY <1>9, <2>1, <2>6, <3>0, Zenon DEF Overridden
    <3>2. ASSUME NEW r \in Questions, r # q, Begin(r) \in ToSet(doc) \/ End(r) \in ToSet(doc)
          PROVE  /\ Begin(r) \in ToSet(doc) /\ End(r) \in ToSet(doc)
                 /\ ~ Before(doc, End(r), Begin(r))
                 /\ Begin(r) \notin Pair(q) /\ End(r) \notin Pair(q)
      <4>1. Begin(r) \in ToSet(doc) /\ End(r) \in ToSet(doc)
        BY <2>2, <3>2 DEF Paired
      <4>2. ~ Unmarked(r) /\ phase[r] # "ended"
        BY <2>2, <4>1 DEF Sound, Marked, Paired, Pair
      <4>3. Editing(r)
        BY <4>2 DEF IInv, TypeOK, Unmarked, Editing
      <4>4. Begin(r) \notin Pair(q) /\ End(r) \notin Pair(q)
        BY <3>2, PairsAreApart DEF Pair
      <4>. QED  BY <2>2, <4>1, <4>3, <4>4 DEF Sound, InOrder
    <3>3. ASSUME NEW r \in Questions, r # q, Begin(r) \in ToSet(doc')
          PROVE  End(r) \in ToSet(doc')
      <4>1. SUFFICES ASSUME End(r) \notin ToSet(doc')  PROVE FALSE
        OBVIOUS
      <4>2. Begin(r) \in ToSet(doc)
        BY <2>3, <2>4, <3>3, TokensDiffer DEF Orderly
      <4>3. End(r) \in ToSet(doc) /\ ~ Before(doc, End(r), Begin(r)) /\ End(r) \notin Pair(q)
        BY <3>2, <3>3, <4>2
      <4>4. Before(doc, Begin(q), End(r)) /\ Before(doc, End(r), End(q))
        BY <3>1, <4>1, <4>3
      <4>5. Before(doc, Begin(r), Begin(q)) \/ Before(doc, End(q), Begin(r))
        BY <2>4, <3>1, <3>3
      <4>6. CASE Before(doc, Begin(r), Begin(q))
        BY <2>2, <3>3, <4>4, <4>6, Zenon DEF Nested, Crossing
      <4>7. CASE Before(doc, End(q), Begin(r))
        BY <1>2, <1>9, <2>1, <4>3, <4>4, <4>7, BeforeTransitive
      <4>. QED  BY <4>5, <4>6, <4>7
    <3>4. ASSUME NEW r \in Questions, r # q, End(r) \in ToSet(doc')
          PROVE  Begin(r) \in ToSet(doc')
      <4>1. SUFFICES ASSUME Begin(r) \notin ToSet(doc')  PROVE FALSE
        OBVIOUS
      <4>2. End(r) \in ToSet(doc)
        BY <2>3, <2>4, <3>4, TokensDiffer DEF Orderly
      <4>3. /\ Begin(r) \in ToSet(doc) /\ ~ Before(doc, End(r), Begin(r))
            /\ Begin(r) \notin Pair(q)
        BY <3>2, <3>4, <4>2
      <4>4. Before(doc, Begin(q), Begin(r)) /\ Before(doc, Begin(r), End(q))
        BY <3>1, <4>1, <4>3
      <4>5. Before(doc, End(r), Begin(q)) \/ Before(doc, End(q), End(r))
        BY <2>4, <3>1, <3>4
      <4>6. CASE Before(doc, End(r), Begin(q))
        BY <1>2, <1>9, <2>1, <4>3, <4>4, <4>6, BeforeTransitive
      <4>7. CASE Before(doc, End(q), End(r))
        BY <2>2, <3>4, <4>4, <4>7, Zenon DEF Nested, Crossing
      <4>. QED  BY <4>5, <4>6, <4>7
    <3>. QED  BY <2>3, <3>1, <3>3, <3>4
  <2>. QED  BY <2>5, <2>6
<1>12. Keeping' /\ Pairing'
  BY <1>1, <1>6, <1>10, <1>11, AnswerKeeps
<1>. QED  BY <1>7, <1>8, <1>12 DEF IInv

\* A text of nothing but one token.
LEMMA OnlyOneIsOrderly ==
    ASSUME NEW A, NEW d, NEW new \in Seq(A), NEW a, \A t \in ToSet(new) : t = a,
           NEW others, a \in others
    PROVE  Orderly(d, new, others)
<1>1. ASSUME NEW s, NEW t, Before(new, s, t)  PROVE s = a
  <2>1. PICK i \in 1 .. Len(new) : new[i] = s
    BY <1>1 DEF Before
  <2>. QED  BY <2>1, TokensOf
<1>. QED  BY <1>1 DEF Orderly

\* What an evolving question makes of the manuscript.
LEMMA EvolvedOf ==
    ASSUME TypeOK, NEW q \in Questions,
           NEW new, new = <<Answer(q)>> \/ new = <<Answer(q)>> \o Those(sent[q], Markers)
    PROVE  /\ new \in Seq(Tokens)
           /\ \A t \in ToSet(new) : t = Answer(q) \/ (t \in Markers /\ t \in ToSet(sent[q]))
<1>. DEFINE a == <<Answer(q)>>
            m == Those(sent[q], Markers)
<1>1. a \in Seq(Tokens) /\ ToSet(a) = {Answer(q)} /\ Len(a) = 1 /\ a[1] = Answer(q)
  BY DEF Tokens, ToSet
<1>2. CASE new = a
  BY <1>1, <1>2
<1>3. CASE new = a \o m
  <2>1. sent[q] \in Seq(Tokens)
    BY DEF TypeOK
  <2>2. sent[q] \in Seq(ToSet(sent[q]))
    BY <2>1 DEF ToSet
  <2>3. /\ m \in Seq({t \in Tokens : t \in Markers})
        /\ m \in Seq({t \in ToSet(sent[q]) : t \in Markers})
    BY <2>1, <2>2, ThoseOfText
  <2>4. m \in Seq(Tokens)
    BY <2>3
  <2>5. \A k \in 1 .. Len(m) : m[k] \in Markers /\ m[k] \in ToSet(sent[q])
    BY <2>3
  <2>. HIDE DEF a, m
  <2>6. new \in Seq(Tokens) /\ Behind(new, a, m)
    <3>1. a \o m \in Seq(Tokens) /\ Behind(a \o m, a, m)
      BY <1>1, <2>4, ConcatPlaces, Zenon
    <3>. QED  BY <1>3, <3>1, Zenon
  <2>7. /\ Len(new) = 1 + Len(m) /\ new[1] = Answer(q)
        /\ \A k \in 1 .. Len(m) : new[1 + k] = m[k]
    <3>1. 1 \in 1 .. Len(a)
      BY <1>1
    <3>. QED  BY <1>1, <2>6, <3>1, Zenon DEF Behind
  <2>8. ASSUME NEW t \in ToSet(new), t # Answer(q)
        PROVE  t \in Markers /\ t \in ToSet(sent[q])
    <3>1. PICK k \in 1 .. Len(new) : new[k] = t
      BY <2>6, TokensOf
    <3>2. k # 1
      BY <2>7, <2>8, <3>1
    <3>3. k - 1 \in 1 .. Len(m) /\ 1 + (k - 1) = k
      BY <2>4, <2>7, <3>2
    <3>. QED  BY <2>5, <2>7, <3>1, <3>3, Zenon
  <2>. QED  BY <2>6, <2>8
<1>. QED  BY <1>2, <1>3

\* An answer that writes the state into the directive.
LEMMA DirectiveWritten ==
    ASSUME TypeOK, PolicyIsTheUsers, NEW q \in Questions, edits' = edits,
           \/ directive' = [CurrentState EXCEPT !.compass = q]
           \/ directive' = [CurrentState EXCEPT !.compass = q, !.bearing = q],
           wanted' = IF directive.text = "state" THEN wanted ELSE 0
    PROVE  /\ directive' \in [text : {"state", "other", "value"}, policy : 0 .. MaxEdits,
                              compass : Questions \cup {NoReview},
                              bearing : Questions \cup {NoReview}]
           /\ wanted' \in 0 .. edits'
           /\ directive'.policy = wanted'
<1>. DEFINE D == [text : {"state", "other", "value"}, policy : 0 .. MaxEdits,
                  compass : Questions \cup {NoReview}, bearing : Questions \cup {NoReview}]
<1>1. CurrentState \in D /\ CurrentState.policy = wanted'
  BY EditsAssumption DEF TypeOK, PolicyIsTheUsers, CurrentState, InitialState
<1>2. directive' \in D /\ directive'.policy = CurrentState.policy
  BY <1>1
<1>3. wanted' \in 0 .. edits'
  BY EditsAssumption DEF TypeOK
<1>. QED  BY <1>1, <1>2, <1>3

\* The manuscript is rewritten.
LEMMA EvolveAnsweredKeeps ==
    ASSUME IInv, NEW q \in Questions, EvolveAnswered(q)
    PROVE  IInv'
<1>1. /\ phase[q] = "waiting" /\ kind[q] = "evolve" /\ Conclude(q)
      /\ UNCHANGED <<gone, review, edits, scope, deleted>>
  BY DEF EvolveAnswered
<1>2. TypeOK /\ PolicyIsTheUsers
  BY DEF IInv
<1>3. CASE Raises
  <2>1. UNCHANGED <<doc, directive, wanted, strayed>>
    BY <1>3 DEF EvolveAnswered
  <2>2. TypeOK' /\ PolicyIsTheUsers'
    BY <1>1, <1>2, <2>1, Concluded DEF TypeOK, PolicyIsTheUsers
  <2>3. Keeping' /\ Pairing'
    BY <1>1, <2>1, NothingAnswered
  <2>. QED  BY <2>2, <2>3 DEF IInv
<1>4. CASE ~ Raises
  <2>1. /\ directive' = [CurrentState EXCEPT !.compass = q]
        /\ wanted' = IF directive.text = "state" THEN wanted ELSE 0
        /\ \E new \in {<<Answer(q)>>, <<Answer(q)>> \o Those(sent[q], Markers)} :
              IF gone THEN UNCHANGED <<doc, strayed>>
              ELSE doc' = new /\ strayed' = Stray(q, new)
    BY <1>4, Zenon DEF EvolveAnswered
  <2>2. PICK new \in {<<Answer(q)>>, <<Answer(q)>> \o Those(sent[q], Markers)} :
              IF gone THEN UNCHANGED <<doc, strayed>>
              ELSE doc' = new /\ strayed' = Stray(q, new)
    BY <2>1
  <2>3. /\ new \in Seq(Tokens)
        /\ \A t \in ToSet(new) : t = Answer(q) \/ (t \in Markers /\ t \in ToSet(sent[q]))
    <3>1. new = <<Answer(q)>> \/ new = <<Answer(q)>> \o Those(sent[q], Markers)
      BY <2>2
    <3>. QED  BY <1>2, <3>1, EvolvedOf
  <2>4. strayed \subseteq strayed' /\ strayed' \subseteq strayed \cup {"half", "kept"}
    BY <2>2 DEF Stray
  <2>5. /\ TypeOK'
        /\ PolicyIsTheUsers'
    <3>1. doc' \in Seq(Tokens)
      BY <1>2, <2>2, <2>3 DEF TypeOK
    <3>2. strayed' \subseteq {"cut", "crossed", "refused", "half", "kept"}
      BY <1>2, <2>4 DEF TypeOK
    <3>. QED  BY <1>1, <1>2, <2>1, <3>1, <3>2, Concluded, DirectiveWritten
                DEF TypeOK, PolicyIsTheUsers
  <2>6. ASSUME "kept" \notin strayed', ~ gone
        PROVE  \A t \in ToSet(doc') : t = Answer(q)
    <3>1. "kept" \notin Stray(q, new) /\ doc' = new
      BY <2>2, <2>6
    <3>2. \A t \in ToSet(new) : t \notin Markers \ {Begin(q), End(q)}
      BY <3>1, Zenon DEF Stray
    <3>3. Pair(q) \cap ToSet(sent[q]) = {}
      BY <1>1, <2>4, <2>6 DEF IInv, Keeping, Sound, Marked
    <3>. QED  BY <2>3, <3>1, <3>2, <3>3 DEF Pair
  <2>7. ASSUME "kept" \notin strayed'
        PROVE  /\ Orderly(doc, doc', Pair(q) \cup {Answer(q)})
               /\ \A p \in Pieces :
                     Piece(p) \in ToSet(doc) => Piece(p) \in ToSet(doc') \cup scope[q]
    <3>1. \A p \in Pieces : Piece(p) \in ToSet(doc) => Piece(p) \in scope[q]
      BY <1>1, <2>4, <2>7 DEF IInv, Keeping, Sound, ScopeHolds
    <3>2. CASE gone
      BY <2>2, <3>2 DEF Orderly
    <3>3. CASE ~ gone
      BY <2>5, <2>6, <2>7, <3>1, <3>3, OnlyOneIsOrderly DEF TypeOK
    <3>. QED  BY <3>2, <3>3
  <2>8. ASSUME strayed' = {}, ~ gone
        PROVE  /\ Orderly(doc, doc', {Answer(q)})
               /\ Pair(q) \cap ToSet(doc') = {}
               /\ \A r \in Questions :
                     r # q => (Begin(r) \in ToSet(doc') <=> End(r) \in ToSet(doc'))
    <3>1. \A t \in ToSet(doc') : t = Answer(q)
      BY <2>6, <2>8
    <3>2. \A r \in Questions : Begin(r) \notin ToSet(doc') /\ End(r) \notin ToSet(doc')
      BY <3>1, TokensDiffer
    <3>3. doc' \in Seq(Tokens) /\ Answer(q) \in {Answer(q)}
      BY <2>5 DEF TypeOK
    <3>4. Orderly(doc, doc', {Answer(q)})
      BY <3>1, <3>3, OnlyOneIsOrderly
    <3>5. Pair(q) \cap ToSet(doc') = {}
      BY <3>2 DEF Pair
    <3>. QED  BY <3>2, <3>4, <3>5
  <2>9. Keeping' /\ Pairing'
    BY <1>1, <2>4, <2>7, <2>8, AnswerKeeps
  <2>. QED  BY <2>5, <2>9 DEF IInv
<1>. QED  BY <1>3, <1>4

\* The manuscript is judged, or reviewed.
LEMMA OthersAnsweredKeep ==
    ASSUME IInv, NEW q \in Questions, ReflectAnswered(q) \/ ReviewAnswered(q)
    PROVE  IInv'
<1>1. /\ phase[q] = "waiting" /\ kind[q] # "edit" /\ Conclude(q)
      /\ UNCHANGED <<doc, gone, edits, scope, deleted, strayed>>
  BY DEF ReflectAnswered, ReviewAnswered, history
<1>2. TypeOK /\ PolicyIsTheUsers
  BY DEF IInv
<1>3. Keeping' /\ Pairing'
  BY <1>1, NothingAnswered
<1>4. TypeOK' /\ PolicyIsTheUsers'
  <2>1. CASE ReviewAnswered(q)
    <3>1. review' = q /\ UNCHANGED <<directive, wanted>>
      BY <2>1 DEF ReviewAnswered, history
    <3>. QED  BY <1>1, <1>2, <3>1, Concluded DEF TypeOK, PolicyIsTheUsers
  <2>2. CASE ReflectAnswered(q) /\ Raises
    <3>1. UNCHANGED <<directive, wanted, review>>
      BY <2>2 DEF ReflectAnswered
    <3>. QED  BY <1>1, <1>2, <3>1, Concluded DEF TypeOK, PolicyIsTheUsers
  <2>3. CASE ReflectAnswered(q) /\ ~ Raises
    <3>1. /\ directive' = [CurrentState EXCEPT !.compass = q, !.bearing = q]
          /\ wanted' = IF directive.text = "state" THEN wanted ELSE 0
          /\ review' = review
      BY <2>3, Zenon DEF ReflectAnswered
    <3>2. /\ directive' \in [text : {"state", "other", "value"}, policy : 0 .. MaxEdits,
                             compass : Questions \cup {NoReview},
                             bearing : Questions \cup {NoReview}]
          /\ wanted' \in 0 .. edits' /\ directive'.policy = wanted'
      BY <1>1, <1>2, <3>1, DirectiveWritten
    <3>3. PolicyIsTheUsers'
      BY <3>2, Zenon DEF PolicyIsTheUsers
    <3>. QED  BY <1>1, <1>2, <3>1, <3>2, <3>3, Concluded DEF TypeOK
  <2>. QED  BY <2>1, <2>2, <2>3
<1>. QED  BY <1>3, <1>4 DEF IInv

\* A question fails: the markers of an edit are taken out.
LEMMA FailsKeeps ==
    ASSUME IInv, NEW q \in Questions, Fails(q)
    PROVE  IInv'
<1>1. /\ phase[q] = "waiting" /\ Conclude(q)
      /\ UNCHANGED <<gone, directive, review, edits, wanted, scope, deleted, strayed>>
  BY DEF Fails, history
<1>2. TypeOK /\ PolicyIsTheUsers /\ doc \in Seq(Tokens)
  BY DEF IInv, TypeOK
<1>3. CASE gone \/ kind[q] # "edit"
  <2>1. doc' = doc
    BY <1>3 DEF Fails
  <2>2. TypeOK' /\ PolicyIsTheUsers'
    BY <1>1, <1>2, <2>1, Concluded DEF TypeOK, PolicyIsTheUsers
  <2>3. \A tokens : Orderly(doc, doc', tokens)
    BY <2>1 DEF Orderly
  <2>4. Keeping' /\ Pairing'
    <3>1. CASE kind[q] # "edit"
      BY <1>1, <2>1, <3>1, NothingAnswered
    <3>2. CASE gone
      BY <1>1, <2>1, <2>3, <3>2, AnswerKeeps
    <3>. QED  BY <1>3, <3>1, <3>2
  <2>. QED  BY <2>2, <2>4 DEF IInv
<1>4. CASE ~ gone /\ kind[q] = "edit"
  <2>1. PICK m : m = RemoveFirst(doc, Begin(q))
    OBVIOUS
  <2>2. doc' = RemoveFirst(m, End(q))
    BY <1>4, <2>1 DEF Fails
  <2>3. /\ m \in Seq(Tokens) /\ Orderly(doc, m, {})
        /\ \A t \in ToSet(doc) : t \in ToSet(m) \/ t = Begin(q)
        /\ Begin(q) \in ToSet(m) => Before(doc, Begin(q), Begin(q))
    BY <1>2, <2>1, RemoveFirstKeeps
  <2>4. /\ doc' \in Seq(Tokens) /\ Orderly(m, doc', {})
        /\ \A t \in ToSet(m) : t \in ToSet(doc') \/ t = End(q)
        /\ End(q) \in ToSet(doc') => Before(m, End(q), End(q))
    BY <2>2, <2>3, RemoveFirstKeeps
  <2>5. TypeOK' /\ PolicyIsTheUsers'
    BY <1>1, <1>2, <2>4, Concluded DEF TypeOK, PolicyIsTheUsers
  <2>6. Orderly(doc, doc', {})
    BY <2>3, <2>4, OrderlyTransitive
  <2>7. \A tokens : Orderly(doc, doc', tokens)
    BY <2>6 DEF Orderly
  <2>8. \A t \in ToSet(doc) : t \in ToSet(doc') \/ t \in Pair(q)
    BY <2>3, <2>4 DEF Pair
  <2>9. \A p \in Pieces : Piece(p) \in ToSet(doc) => Piece(p) \in ToSet(doc')
    BY <2>8, PiecesAreNoMarkers
  <2>10. ASSUME strayed = {}
         PROVE  /\ Pair(q) \cap ToSet(doc') = {}
                /\ \A r \in Questions :
                      r # q => (Begin(r) \in ToSet(doc') <=> End(r) \in ToSet(doc'))
    <3>1. Paired /\ Sound(q)
      BY <1>4, <2>10 DEF IInv, Pairing, Keeping
    <3>2. ~ Before(doc, Begin(q), Begin(q)) /\ ~ Before(doc, End(q), End(q))
      BY <1>1, <1>4, <3>1 DEF Sound, InOrder, Editing
    <3>3. Begin(q) \notin ToSet(doc') /\ End(q) \notin ToSet(doc')
      BY <2>3, <2>4, <3>2 DEF Orderly
    <3>4. ASSUME NEW r \in Questions, r # q
          PROVE  Begin(r) \in ToSet(doc') <=> End(r) \in ToSet(doc')
      <4>1. Begin(r) \notin Pair(q) /\ End(r) \notin Pair(q)
        BY <3>4, PairsAreApart DEF Pair
      <4>2. /\ Begin(r) \in ToSet(doc') <=> Begin(r) \in ToSet(doc)
            /\ End(r) \in ToSet(doc') <=> End(r) \in ToSet(doc)
        BY <2>6, <2>8, <4>1 DEF Orderly
      <4>. QED  BY <3>1, <4>2 DEF Paired
    <3>. QED  BY <3>3, <3>4 DEF Pair
  <2>11. Keeping' /\ Pairing'
    BY <1>1, <2>7, <2>9, <2>10, AnswerKeeps
  <2>. QED  BY <2>5, <2>11 DEF IInv
<1>. QED  BY <1>3, <1>4

LEMMA Step == IInv /\ [Next]_vars => IInv'
<1>. SUFFICES ASSUME IInv, [Next]_vars  PROVE IInv'
  OBVIOUS
<1>1. ASSUME NEW k \in 0 .. Len(doc), Type(k) \/ Delete(k)  PROVE IInv'
  BY <1>1, TypeKeeps, DeleteKeeps
<1>2. CASE Wipe \/ SetPolicy \/ Garble
  BY <1>2, DirectiveKeeps
<1>3. ASSUME NEW q \in Questions, NEW from \in 1 .. Len(doc), NEW to \in 1 .. Len(doc),
             AskEdit(q, from, to) \/ RefuseEdit(q, from, to)
      PROVE  IInv'
  BY <1>3, AskEditKeeps, RefuseEditKeeps
<1>4. ASSUME NEW q \in Questions, NEW k \in Kinds, AskWhole(q, k)  PROVE IInv'
  BY <1>4, AskWholeKeeps
<1>5. ASSUME NEW q \in Questions, Answered(q) \/ Fails(q)  PROVE IInv'
  BY <1>5, EditAnsweredKeeps, EvolveAnsweredKeeps, OthersAnsweredKeep, FailsKeeps DEF Answered
<1>6. CASE UNCHANGED vars
  <2>1. UNCHANGED <<doc, gone, directive, review, kind, phase, kernel, sent, edits,
                    wanted, scope, deleted, strayed>>
    BY <1>6 DEF vars, asking, history
  <2>2. Keeping' /\ Pairing'
    BY <2>1, NothingHappens DEF IInv
  <2>. QED  BY <2>1, <2>2 DEF IInv, TypeOK, PolicyIsTheUsers
<1>. QED  BY <1>1, <1>2, <1>3, <1>4, <1>5, <1>6, Zenon DEF Next

-----------------------------------------------------------------------------
(***************************************************************************)
(* The theorems.                                                           *)
(***************************************************************************)

\* The invariant holds of every behaviour.
THEOREM Invariance == Spec => []IInv
BY InitHolds, Step, PTL DEF Spec

\* Every variable keeps its type, and the kernel's interactions are waiting ones.
THEOREM TypeCorrect == Spec => []TypeOK
<1>1. IInv => TypeOK
  BY DEF IInv
<1>. QED  BY <1>1, Invariance, PTL

\* However many questions there are, and however their scopes lie to one another:
\* an ended one has left no marker, unless something strayed.
THEOREM MarkersAreGone == Spec => []MarkersGo
<1>1. IInv => MarkersGo
  BY DEF IInv, Pairing, Paired, MarkersGo, Pair
<1>. QED  BY <1>1, Invariance, PTL

\* Of any manuscript a piece is lost only to its user, or to a question that was
\* about it; and the policy is the one the user set last.
THEOREM UserIsSpared == Spec => []AnswersSpareTheUser
<1>1. IInv => AnswersSpareTheUser
  BY DEF IInv, Keeping, AnswersSpareTheUser, LostOnlyInScope
<1>. QED  BY <1>1, Invariance, PTL

===============================================================================
