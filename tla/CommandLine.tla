----------------------------- MODULE CommandLine -----------------------------
(***************************************************************************)
(* The command line of pytoy (shared/command): the model of a command made *)
(* from the parameters of a Python function, the interpretation of a line  *)
(* of tokens, the binding of its words to parameters, and the completions  *)
(* offered for it.  A user types a line, takes completions, and may run it *)
(* at any time: what would happen then is a function of the line.          *)
(*                                                                         *)
(* A token is a record: key is what follows "--" ("no-" taken off) or Word,*)
(* val is what follows "=" or the word itself.  Prefixes are given by a    *)
(* constant, as are the spellings of a key with "-" and with "_".          *)
(***************************************************************************)
EXTENDS Integers, SequencesExt

CONSTANTS
    Functions,   \* the functions that are commands: sequences of parameters
    Typed,       \* the tokens a user may type
    Numbers,     \* the words that int() accepts
    Begins,      \* Begins[w]: the words and keys that start with w
    Dashed,      \* Dashed[k]: the name k of an option, written with "-"
    MaxTokens    \* a bound on the length of a line

Word == "(word)"         \* the key of a token that is no option
NoArgument == "(none)"  \* no value, or a value that could not be converted
Flag == "(True)"         \* the value True of an option without one

VARIABLES
    function,   \* the function behind the command
    line        \* the tokens typed so far

vars == <<function, line>>

------------------------------------------------------------------------------
(* CommandModel.from_callable.  A parameter has a raw default ("none", a    *)
(* "value", or an "argument" or "option" object, `given` saying whether it  *)
(* holds a default), metadata in its annotation, and types.                 *)

InjectedTypes == {"range", "count"}

\* Argument, Option, Field and DefaultGetter: a default or a factory of one.
HasDefault(o) == o.given

\* The words a parameter has to offer: its literals and those of its completer,
\* of which only the first take part in a conversion.
CandidateValues(p) == p.values \cup p.words

ResolveTypeAndDefault(p) ==
    LET marks   == SelectSeq(p.meta, LAMBDA m : m.kind # "field")
        default == p.raw = "value" \/ \E i \in DOMAIN p.meta : HasDefault(p.meta[i])
    IN  IF p.raw \in {"argument", "option"}
        THEN [type |-> p.raw, default |-> HasDefault(p)]
        ELSE [type |-> IF marks # <<>> THEN Last(marks).kind
                       ELSE IF default THEN "option" ELSE "argument",
              default |-> default]

Injected(p)   == p.types \cap InjectedTypes # {}
Argument(p)   == ~Injected(p) /\ ResolveTypeAndDefault(p).type = "argument"
Option(p)     == ~Injected(p) /\ ResolveTypeAndDefault(p).type = "option"
Required(p)   == ~ResolveTypeAndDefault(p).default
Arguments     == SelectSeq(function, Argument)
Options       == {p \in Range(function) : Option(p)}
OptionNames   == {p.name : p \in Options}
OptionOf(k)   == CHOOSE p \in Options : p.name = k
Registers(f)  == \A p \in Range(f) : Option(p) => ~Required(p)
BooleanNames  == {p.name : p \in {q \in Options : "bool" \in q.types}}
OnlyLiteral(p) == p.types = {"literal"}

------------------------------------------------------------------------------
(* InterpretedInput.from_tokens                                             *)

ConvertKey(k) == IF \E n \in DOMAIN Dashed : Dashed[n] = k
                 THEN CHOOSE n \in DOMAIN Dashed : Dashed[n] = k ELSE k
RevertKey(k)  == IF k \in DOMAIN Dashed THEN Dashed[k] ELSE k

Error(e, k) == [error |-> e, key |-> k]

\* An option gets its value; a boolean one gets True or False whatever is given.
SetOption(r, t, v) ==
    [r EXCEPT !.open    = <<>>,
              !.options = Append(@, [key |-> ConvertKey(t.key),
                                     val |-> IF t.key \in BooleanNames
                                             THEN IF t.no THEN "(False)" ELSE Flag
                                             ELSE v]),
              !.errors  = IF t.key \in BooleanNames /\ v # Flag
                          THEN Append(@, Error("takes no value", t.key)) ELSE @]

ReadToken(r, t) ==
    IF t.key = Word THEN [r EXCEPT !.arguments = Append(@, t.val)]
    ELSE IF t.val # NoArgument THEN SetOption(r, t, t.val)
    ELSE [r EXCEPT !.open = <<t>>]

\* A word after an option without "=" is its value, even of a boolean one; an
\* option there leaves the first one with True.
NextToken(r, t) ==
    IF r.open = <<>> THEN ReadToken(r, t)
    ELSE IF t.key = Word THEN SetOption(r, r.open[1], t.val)
    ELSE ReadToken(SetOption(r, r.open[1], Flag), t)

LastOption(r) ==
    IF r.open = <<>> THEN r
    ELSE LET t == r.open[1]
         IN  SetOption(IF t.key \in BooleanNames THEN r
                       ELSE [r EXCEPT !.errors = Append(@, Error("value missing", t.key))], t, Flag)

Interpret(ts) ==
    LastOption(FoldLeft(NextToken, [arguments |-> <<>>, options |-> <<>>, errors |-> <<>>,
                                    open |-> <<>>], ts))

------------------------------------------------------------------------------
(* ResolvedInput.from_interpreted_input                                     *)

Converts(type, v) ==
    CASE type = "int"              -> v \in Numbers \/ v = Flag
      [] type \in {"none", "literal"} -> FALSE
      [] OTHER                     -> TRUE

\* Any type but str is tried before str.
ConvertElement(p, v) ==
    LET able == {t \in p.types : Converts(t, v)}
    IN  IF v \in p.values THEN [type |-> "literal", val |-> v]
        ELSE IF OnlyLiteral(p) \/ able = {} THEN [type |-> NoArgument, val |-> v]
        ELSE [type |-> CHOOSE t \in able : t = "str" => able = {"str"}, val |-> v]

ValuesOf(in, k) == LET mine == SelectSeq(in.options, LAMBDA o : o.key = k)
                   IN  [i \in DOMAIN mine |-> mine[i].val]

\* A list takes every value given, any other type the last one.
ConvertOption(p, vs) ==
    IF "list" \in p.types THEN [type |-> "list", val |-> vs]
    ELSE IF "bool" \in p.types THEN [type |-> "bool", val |-> Last(vs)]
    ELSE LET able == {t \in p.types : Converts(t, Last(vs))}
         IN  [type |-> IF able = {} THEN NoArgument ELSE CHOOSE t \in able : TRUE, val |-> Last(vs)]

\* Required arguments take the first words, the others what is left, in order.
GivenArguments(n) ==
    LET required == SelectSeq(Arguments, Required)
        others   == SelectSeq(Arguments, LAMBDA p : ~Required(p))
    IN  required \o SubSeq(others, 1, Min({n - Len(required), Len(others)}))

\* What is wrong with a line beside its errors, in the order of looking.
BindErrors(in) ==
    LET n     == Len(in.arguments)
        given == GivenArguments(n)
        used  == {p \in Options : ValuesOf(in, p.name) # <<>>}
    IN  <<[error |-> "too many",   is |-> n > Len(Arguments)],
          [error |-> "too little", is |-> n < Len(SelectSeq(Arguments, Required))],
          [error |-> "not converted",
           is |-> \E i \in 1..n \cap DOMAIN given : ConvertElement(given[i], in.arguments[i]).type = NoArgument],
          [error |-> "not appropriate",
           is |-> \E p \in used : ConvertOption(p, ValuesOf(in, p.name)).type = NoArgument],
          [error |-> "unknown option",
           is |-> \E i \in DOMAIN in.options : in.options[i].key \notin OptionNames]>>

\* The first is raised.
BindError(in) ==
    LET found == SelectSeq(BindErrors(in), LAMBDA e : e.is)
    IN  CASE in.errors # <<>> -> in.errors[1].error
          [] found # <<>>     -> found[1].error
          [] OTHER            -> NoArgument

\* What the function is called with, by the names of its parameters; injected
\* ones come from the range and the count of the command.
Bound(in) ==
    LET n     == Len(in.arguments)
        given == GivenArguments(n)
    IN  [name \in {p.name : p \in {q \in Range(function) : ~Injected(q)}} |->
            IF \E i \in 1..n : given[i].name = name
            THEN LET i == CHOOSE i \in 1..n : given[i].name = name
                 IN  ConvertElement(given[i], in.arguments[i])
            ELSE IF name \in OptionNames /\ ValuesOf(in, name) # <<>>
            THEN ConvertOption(OptionOf(name), ValuesOf(in, name))
            ELSE [type |-> "default", val |-> NoArgument]]

Execute(ts) ==
    LET in == Interpret(ts)
    IN  IF BindError(in) = NoArgument THEN [error |-> NoArgument, call |-> Bound(in)]
        ELSE [error |-> BindError(in), call |-> <<>>]

------------------------------------------------------------------------------
(* CompletionService.  The cursor is on a token or in the gap after one.    *)

Cursors(ts) == [on : {TRUE}, at : 1..Len(ts)] \cup [on : {FALSE}, at : 0..Len(ts)]

\* In a gap, the tokens behind the cursor count as well.
PrevTokens(ts, c) == IF c.on THEN SubSeq(ts, 1, c.at - 1) ELSE ts

ResolveAppeals_Unhindered(ts) ==
    LET in == Interpret(ts)
        n  == Len(in.arguments)
    IN  (IF n < Len(Arguments) THEN {[type |-> "argument", names |-> {Arguments[n + 1].name}]} ELSE {})
        \cup {[type |-> "option", names |-> OptionNames]}
ResolveAppeals(ts) ==
    LET in      == Interpret(ts)
        missing == {in.errors[i].key : i \in {j \in DOMAIN in.errors : in.errors[j].error = "value missing"}}
        n       == Len(in.arguments)
    IN  IF missing \cap OptionNames # {}
        THEN {[type |-> "value", names |-> {k}] : k \in missing \cap OptionNames}
        ELSE (IF n < Len(Arguments)
              THEN {[type |-> "argument", names |-> {Arguments[n + 1].name}]} ELSE {})
             \cup {[type |-> "option",
                    names |-> OptionNames \ {in.options[i].key : i \in DOMAIN in.options}]}

ParameterOf(k) == CHOOSE p \in Range(function) : p.name = k
Starting(ws, w) == IF w = NoArgument THEN ws ELSE ws \cap Begins[w]
WordToken(v)    == [key |-> Word, no |-> FALSE, val |-> v]
OptionToken(k)  == [key |-> RevertKey(k), no |-> FALSE, val |-> NoArgument]

\* The tokens offered for an appeal, given the token under the cursor, if any.
AppealToCandidates(a, leading) ==
    LET dashes == leading # <<>> /\ leading[1].key # Word
        text   == IF leading = <<>> THEN NoArgument ELSE leading[1].val
    IN  CASE a.type = "option" /\ dashes /\ text # NoArgument ->
                 {[leading[1] EXCEPT !.val = v] :
                     v \in UNION {Starting(CandidateValues(ParameterOf(k)), text) :
                                     k \in {m \in a.names : m = ConvertKey(leading[1].key) /\ ~leading[1].no}}}
          [] a.type = "option" /\ dashes /\ text = NoArgument ->
                 {OptionToken(k) : k \in {m \in a.names : m \in Begins[ConvertKey(leading[1].key)] /\ ~leading[1].no}}
          [] a.type \in {"argument", "value"} /\ ~dashes ->
                 {WordToken(v) : v \in UNION {Starting(CandidateValues(ParameterOf(k)), text) : k \in a.names}}
          [] OTHER -> {}

Completed(ts, c, t) == IF c.on THEN [ts EXCEPT ![c.at] = t] ELSE InsertAt(ts, c.at + 1, t)

\* What completion offers at the cursor c of the line ts: the line it makes of
\* it, for which parameter, and the token it puts in.
MakeCompletions(ts, c) ==
    LET leading == IF c.on THEN <<ts[c.at]>> ELSE <<>>
    IN  UNION {{[line |-> Completed(ts, c, t), appeal |-> a, token |-> t] :
                   t \in AppealToCandidates(a, leading)} : a \in ResolveAppeals(PrevTokens(ts, c))}

------------------------------------------------------------------------------

Init == /\ function \in Functions
        /\ Registers(function)
        /\ line = <<>>

Type(t) ==
    /\ Len(line) < MaxTokens
    /\ line' = Append(line, t)
    /\ UNCHANGED function

Complete(c) ==
    /\ \E o \in MakeCompletions(line, c) : line' = o.line
    /\ Len(line') <= MaxTokens
    /\ UNCHANGED function

Next == (\E t \in Typed : Type(t)) \/ (\E c \in Cursors(line) : Complete(c))
Spec == Init /\ [][Next]_vars

------------------------------------------------------------------------------
(* Properties                                                               *)

TypeOK ==
    /\ function \in Functions
    /\ Len(line) <= MaxTokens
    /\ Execute(line).error \in {NoArgument, "takes no value", "value missing", "too many", "too little",
                                "not converted", "not appropriate", "unknown option"}

\* All that is wrong with a line, also what another error keeps from being told.
Wrong(ts) ==
    LET in    == Interpret(ts)
        found == BindErrors(in)
    IN  {in.errors[i].error : i \in DOMAIN in.errors}
        \cup {found[i].error : i \in {k \in DOMAIN found : found[k].is}}

EndsInFlag(ts) == ts # <<>> /\ Last(ts).key \in BooleanNames /\ Last(ts).val = NoArgument

\* Where a line is completed: on its last token, or behind it.
AtTheEnd == {[on |-> b, at |-> Len(line)] : b \in IF line = <<>> THEN {FALSE} ELSE BOOLEAN}

\* Completion goes through the arguments as they are declared, binding through
\* the required ones first.
RequiredFirst ==
    \A i, k \in DOMAIN Arguments : i < k /\ Required(Arguments[k]) => Required(Arguments[i])

\* What completion offers and binding refuses all the same: a value of an option
\* whose types are all literals, for none of them can be called; and a word for
\* an argument whose place a required one takes.
NeverBound(o) ==
    {e \in {"not appropriate"} : \E k \in o.appeal.names \cap OptionNames :
                                     OptionOf(k).types \subseteq {"literal", "none"}}
    \cup {e \in {"not converted"} : ~RequiredFirst}

\* A completion taken at the end of the line, on its last token or behind it, is
\* accepted: neither its reading nor its binding finds anything wrong that was not
\* wrong before, but for what NeverBound names and the missing value of an option
\* just put in, which the next completion offers.  It takes completers whose
\* words convert.  After a boolean option it fails: the word that is offered there
\* is taken for the option's value.
OfferIsAccepted ==
    \A c \in AtTheEnd : ~EndsInFlag(PrevTokens(line, c)) =>
        \A o \in MakeCompletions(line, c) :
            /\ Wrong(o.line) \subseteq Wrong(PrevTokens(line, c)) \cup NeverBound(o) \cup {"value missing"}
            /\ "value missing" \in Wrong(o.line) =>
                   \A b \in ResolveAppeals(o.line) : b.type = "value"

\* The word that completion offers for a parameter is bound to that parameter
\* when the line is run, however the line was edited before it: completion counts
\* the words as binding counts them, unless a required argument is declared
\* behind one that is not.
BoundAsOffered ==
    \A c \in AtTheEnd : ~EndsInFlag(PrevTokens(line, c)) /\ RequiredFirst =>
        \A o \in MakeCompletions(line, c) :
            LET run == Execute(o.line)
            IN  o.appeal.type \in {"argument", "value"} /\ run.error = NoArgument =>
                    \E k \in o.appeal.names :
                        o.token.val = IF run.call[k].type = "list" THEN Last(run.call[k].val)
                                      ELSE run.call[k].val
===============================================================================
