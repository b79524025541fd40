------------------------------ MODULE Tokenizer ------------------------------
(***************************************************************************)
(* tokenize of shared/command/core/tokenizer.py: the words that shlex      *)
(* reads from a line, each looked for in the text of the line to find its  *)
(* place.  The line is a sequence of characters of four kinds, typed one   *)
(* by one: letters, blanks, double quotes and backslashes.                 *)
(***************************************************************************)
EXTENDS Naturals, SequencesExt

CONSTANTS Letters, MaxLength

Blank     == "blank"
Quote     == "quote"
Backslash == "backslash"
Chars     == Letters \cup {Blank, Quote, Backslash}

VARIABLE text
vars == <<text>>

------------------------------------------------------------------------------
(* shlex in its posix mode, whitespace_split and no comments.  mode is its  *)
(* state; a word is emitted at a blank once something of it was read, which *)
(* an empty pair of quotes is.  from is where the word begins in the text.  *)

StartLexer == [mode |-> "start", back |-> "word", quoted |-> FALSE, word |-> <<>>, from |-> 1,
               words |-> <<>>, at |-> 0]

Emit(l) == IF l.word = <<>> /\ ~l.quoted THEN [l EXCEPT !.mode = "start"]
           ELSE [l EXCEPT !.words = Append(@, [value |-> l.word, from |-> l.from, to |-> l.at]),
                          !.word = <<>>, !.quoted = FALSE, !.mode = "start"]
Add(l, c) == [l EXCEPT !.word = Append(@, c)]

\* c is read outside quotes, `here` counting it.
InWord(l, c) ==
    CASE c = Blank     -> Emit(l)
      [] c = Quote     -> [l EXCEPT !.mode = "quote"]
      [] c = Backslash -> [l EXCEPT !.mode = "escape", !.back = "word"]
      [] OTHER         -> [Add(l, c) EXCEPT !.mode = "word"]

InQuotes(l, c) ==
    CASE c = Quote     -> [l EXCEPT !.mode = "word", !.quoted = TRUE]
      [] c = Backslash -> [l EXCEPT !.mode = "escape", !.back = "quote", !.quoted = TRUE]
      [] OTHER         -> [Add(l, c) EXCEPT !.quoted = TRUE]

\* In quotes a backslash stays before what needs none.
Escaped(l, c) ==
    [Add(IF l.back = "quote" /\ c \notin {Quote, Backslash} THEN Add(l, Backslash) ELSE l, c)
        EXCEPT !.mode = l.back]

ReadChar(l, c) ==
    LET here == [l EXCEPT !.at = @ + 1]
    IN  CASE l.mode = "start"  -> IF c = Blank THEN here ELSE InWord([here EXCEPT !.from = here.at], c)
          [] l.mode = "word"   -> InWord(here, c)
          [] l.mode = "quote"  -> InQuotes(here, c)
          [] l.mode = "escape" -> Escaped(here, c)

\* The words of a line, or the ValueError of an open quote or escape.
Lex(cs) ==
    LET l == FoldLeft(ReadChar, StartLexer, cs)
    IN  [words |-> Emit([l EXCEPT !.at = @ + 1]).words, fails |-> l.mode \in {"quote", "escape"}]

------------------------------------------------------------------------------
(* tokenize                                                                 *)

IsAt(word, cs, i) == i + Len(word) - 1 <= Len(cs) /\ SubSeq(cs, i, i + Len(word) - 1) = word

\* A word is searched for behind the token before it.  One that is not there as
\* it stands ends the search, and the words behind it are dropped.
Locate_FromStart(r, w) ==
    LET found == {i \in 1..Len(text) : IsAt(w.value, text, i)}
        start == CHOOSE i \in found : \A j \in found : i <= j
    IN  IF w.value = <<>> \/ r.broken THEN r
        ELSE IF found = {} THEN [r EXCEPT !.broken = TRUE]
        ELSE [r EXCEPT !.tokens = Append(@, [value |-> w.value, start |-> start,
                                             end |-> start + Len(w.value)])]
Locate(r, w) ==
    LET found == {i \in r.pos..Len(text) : IsAt(w.value, text, i)}
        start == CHOOSE i \in found : \A j \in found : i <= j
    IN  IF w.value = <<>> \/ r.broken THEN r
        ELSE IF found = {} THEN [r EXCEPT !.broken = TRUE]
        ELSE [r EXCEPT !.tokens = Append(@, [value |-> w.value, start |-> start,
                                             end |-> start + Len(w.value)]),
                       !.pos = start + Len(w.value)]

Tokenize == FoldLeft(Locate, [tokens |-> <<>>, pos |-> 1, broken |-> FALSE], Lex(text).words).tokens

------------------------------------------------------------------------------

Init == text = <<>>
Next == Len(text) < MaxLength /\ \E c \in Chars : text' = Append(text, c)
Spec == Init /\ [][Next]_vars

------------------------------------------------------------------------------
(* Properties                                                               *)

\* A word is plain when it is unquoted or one quoted text with a letter first.
Plain(w) ==
    LET raw == SubSeq(text, w.from, w.to - 1)
    IN  /\ w.value # <<>> /\ w.value[1] \in Letters
        /\ raw \in {w.value, <<Quote>> \o w.value \o <<Quote>>}

\* In a line of plain words every word is a token, in order, and the place found
\* for it lies within the word itself: completion replaces what it read.
PlainWordsAreTokens ==
    LET words == Lex(text).words
    IN  ~Lex(text).fails /\ (\A i \in DOMAIN words : Plain(words[i])) =>
            /\ [i \in DOMAIN Tokenize |-> Tokenize[i].value] = [i \in DOMAIN words |-> words[i].value]
            /\ \A i \in DOMAIN words :
                   words[i].from <= Tokenize[i].start /\ Tokenize[i].end <= words[i].to

\* tokenize turns the whole line into tokens: no word of it is lost.
EveryWordIsAToken ==
    ~Lex(text).fails =>
        Len(Tokenize) = Len(SelectSeq(Lex(text).words, LAMBDA w : w.value # <<>>))
==============================================================================
