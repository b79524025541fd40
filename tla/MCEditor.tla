------------------------------- MODULE MCEditor -------------------------------
(***************************************************************************)
(* Model checking of the components that share no state with any other:    *)
(* each behaviour is about one of them, which part names, and the          *)
(* variables of the others keep still.  Off is what a variable holds when  *)
(* its component would start in one of several states and is not the part. *)
(* The properties of the modules that it extends are invariants of every   *)
(* part: where their components keep still they hold as at the start.      *)
(***************************************************************************)
EXTENDS Editor, TLC

CONSTANTS
    RunParts,       \* the parts of the run
    MaxTokens       \* a bound on the length of a command line

VARIABLES
    part,
    function, line,                                            \* CommandLine
    text,                                                      \* Tokenizer
    status, calls, held,                                       \* StatusLine
    lines, did,                                                \* TextRanges
    tabs, current, shows, winDid,                              \* Windows
    columns, focus, texts, known, viewDid,                     \* VSCodeWindows
    typed,                                                     \* DriverInput
    tables, foreign, value, rounds, checked, wanted,           \* VoyageText
    tool, report,                                              \* Reports
    script, markdown                                           \* Scripts

------------------------------------------------------------------------------
(* The functions that are commands, shaped as those of commands/: Pytest's  *)
(* scope and Console's kind, a path, RuffCheck's fix, a level, tags.        *)

Param(name, types, raw, meta, literals, completed) ==
    [name |-> name, types |-> types, raw |-> raw, given |-> FALSE, meta |-> meta,
     values |-> literals, words |-> completed]
Mark(kind) == <<[kind |-> kind, given |-> FALSE]>>

ScopeParam == Param("scope", {"literal"}, "value", Mark("argument"), {"func", "file"}, {})
KindParam  == Param("kind", {"literal", "none"}, "value", Mark("argument"), {"func"}, {})
PathParam  == Param("path", {"str"}, "none", <<>>, {}, {"file"})
CountParam == Param("n", {"int"}, "none", <<>>, {}, {})
FixParam   == Param("fix", {"bool"}, "value", <<>>, {}, {})
LevelParam == Param("level", {"int"}, "value", <<>>, {}, {"7"})
TagsParam  == Param("tags", {"list"}, "value", Mark("option"), {}, {"file"})
DepthParam == Param("depth", {"int"}, "value", Mark("argument"), {}, {"7"})
LinesParam == Param("lines", {"range"}, "none", <<>>, {}, {})
\* An option of literals, and an argument with a default before a required one.
ModeParam  == Param("level", {"literal"}, "value", <<>>, {"7"}, {})
EarlyParam == Param("early", {"str"}, "none", <<[kind |-> "argument", given |-> TRUE]>>, {}, {"file"})

SomeFunctions == {<<PathParam, ScopeParam, FixParam>>, <<LinesParam, PathParam, LevelParam, TagsParam>>,
                  <<CountParam, KindParam, LevelParam>>, <<DepthParam, LevelParam>>,
                  <<PathParam, ModeParam>>, <<EarlyParam, CountParam>>, <<EarlyParam, PathParam>>}

NoValue     == "(none)"
Given(k, v) == [key |-> k, no |-> FALSE, val |-> v]
SomeTokens  == {Given("(word)", w) : w \in {"f", "file", "7"}}
    \cup {Given("fix", NoValue), [key |-> "fix", no |-> TRUE, val |-> NoValue], Given("level", NoValue),
          Given("level", "7"), Given("tags", "f"), Given("", NoValue)}
SomeBegins == [w \in {"f", "file", "func", "7", "", "level", "fix", "tags", "dry_run"} |->
    CASE w = "f" -> {"func", "file"}
      [] w = ""  -> {"level", "fix", "tags", "dry_run"}
      [] OTHER   -> {w}]

\* The status line that the user may have had, and buffers and texts of lines.
SomeStatus == {<<>>, <<[kind |-> "text", v |-> <<"a">>]>>, <<[kind |-> "align", v |-> <<"=">>]>>}
SomeLines  == {<<<<>>>>, <<<<"a", "b">>>>, <<<<"a">>, <<>>, <<"a", "a">>>>,
               <<<<"a", "a", "a">>, <<"b">>, <<>>>>}
SomeTexts  == {<<>>, <<"a">>, <<"a", "n", "a">>, <<"n">>, <<"a", "a">>, <<"n", "b", "n">>}

\* Comments of a directive: n is a line break, b a backslash, e the letter n.
SomeComments == {<<>>, <<"x">>, <<"e">>, <<"b", "e">>, <<"x", "n", "q">>, <<"n", "b", "e">>,
                 <<"n", "n">>, <<"x", "b", "n">>}

\* Manuscripts: half Japanese, and one sign of Python short of a program.
SomeDocuments == {[chars |-> 20, japanese |-> 9, hits |-> 0, colon |-> 0],
                  [chars |-> 9, japanese |-> 0, hits |-> 1, colon |-> 1]}

\* Folders of documents, and what a command and a program write at once.
SomeFolders == {<<>>, <<"a">>, <<"a", "a">>, <<"a", "b">>, <<"b">>}
SomePieces  == {<<"x">>, <<"x", "n">>, <<"n", "x">>}
SomeOutputs == {<<"P">>, <<"a", "_">>, <<"r", "n">>, <<"a", "n", "P">>}

------------------------------------------------------------------------------
Line   == INSTANCE CommandLine WITH Functions <- SomeFunctions, Typed <- SomeTokens, Numbers <- {"7"},
              Begins <- SomeBegins, Dashed <- "dry_run" :> "dry-run"
Words  == INSTANCE Tokenizer WITH Letters <- {"x", "y"}, MaxLength <- 6
Status == INSTANCE StatusLine WITH Texts <- {"a", "b"}, Shown <- {"f", "g"},
              Highlights <- {"h"}, UsersLines <- SomeStatus, MaxHeld <- 3, MaxSize <- 5
Text   == INSTANCE TextRanges WITH LF <- "n"
Win    == INSTANCE Windows WITH Buffers <- {"a", "q"}, Special <- {"q"}, MaxWindows <- 4, did <- winDid
View   == INSTANCE VSCodeWindows WITH Files <- {"f", "g"}, Untitled <- {"u"}, MaxColumns <- 2, did <- viewDid
Driver == INSTANCE DriverInput WITH Letters <- {"x"}, MaxTyped <- 5
Journey == INSTANCE VoyageText WITH LF <- "n", Backslash <- "b", Quote <- "q", LetterN <- "e", Letter <- "x",
              Comments <- SomeComments, MaxRounds <- 2
Report == INSTANCE Reports WITH Headings <- {"t1", "t2"}, NoHeading <- "", MaxLines <- 6
Script == INSTANCE Scripts WITH MaxParts <- 4, MaxPage <- 5, NoBlock <- [type |-> "none"]

lineVars  == <<function, line>>
lookVars  == <<status, calls, held>>
textVars  == <<lines, did>>
winVars   == <<tabs, current, shows, winDid>>
viewVars  == <<columns, focus, texts, known, viewDid>>
driverVars == <<typed>>
voyageVars == <<tables, foreign, value, rounds, checked, wanted>>
reportVars == <<tool, report>>
scriptVars == <<script, markdown>>
allVars   == <<part, lineVars, text, regVars, eventVars, keyVars, quickVars, lookVars, importVars,
               proxyVars, envVars, textVars, winVars, viewVars, outVars, screenVars, driverVars, taskVars,
               confVars, voyageVars, reportVars, scriptVars, kernelVars>>

Off == "off"

MCInit ==
    /\ part \in RunParts
    /\ IF part = "line" THEN Line!Init ELSE function = Off /\ line = Off
    /\ IF part = "words" THEN Words!Init ELSE text = Off
    /\ RegInit /\ EventInit /\ KeyInit /\ ImportInit /\ ProxyInit /\ KernelInit
    /\ QuickInit /\ (part # "quickfix" => ui = "vim")
    /\ EnvInit /\ (part # "environments" => project = [f \in Path |-> "none"] /\ git = {} /\ uv = "there")
    /\ TaskInit /\ (part # "tasks" => document = CHOOSE d \in Documents : TRUE)
    /\ ConfInit /\ (part # "configuration" => ~disk["project"].there)
    /\ ScreenInit /\ (part # "screen" => host = "vim")
    /\ IF part = "status" THEN Status!StatusInit ELSE status = Off /\ calls = Off /\ held = Off
    /\ IF part = "text" THEN Text!TextInit ELSE lines = Off /\ did = Off
    /\ IF part = "windows" THEN Win!WinInit
       ELSE tabs = Off /\ current = Off /\ shows = Off /\ winDid = Off
    /\ IF part = "vscode" THEN View!ViewInit
       ELSE columns = Off /\ focus = Off /\ texts = Off /\ known = Off /\ viewDid = Off
    /\ OutInit /\ (part # "output" => jobEditor = "vim" /\ asked = {"out"})
    /\ Driver!DriverInit /\ Script!ScriptInit
    /\ IF part = "voyage" THEN Journey!VoyageInit
       ELSE /\ tables = Off /\ foreign = Off /\ value = Off /\ rounds = Off /\ checked = Off
            /\ wanted = Off
    /\ IF part = "reports" THEN Report!ReportInit ELSE tool = Off /\ report = Off

\* The variables of every part but p keep still.
Still(p) ==
    /\ UNCHANGED part
    /\ IF p = "line"         THEN TRUE ELSE UNCHANGED lineVars
    /\ IF p = "words"        THEN TRUE ELSE UNCHANGED text
    /\ IF p = "names"        THEN TRUE ELSE UNCHANGED regVars
    /\ IF p = "events"       THEN TRUE ELSE UNCHANGED eventVars
    /\ IF p = "keymaps"      THEN TRUE ELSE UNCHANGED keyVars
    /\ IF p = "quickfix"     THEN TRUE ELSE UNCHANGED quickVars
    /\ IF p = "status"       THEN TRUE ELSE UNCHANGED lookVars
    /\ IF p = "import"       THEN TRUE ELSE UNCHANGED importVars
    /\ IF p = "stdout"       THEN TRUE ELSE UNCHANGED proxyVars
    /\ IF p = "environments" THEN TRUE ELSE UNCHANGED envVars
    /\ IF p = "text"         THEN TRUE ELSE UNCHANGED textVars
    /\ IF p = "windows"      THEN TRUE ELSE UNCHANGED winVars
    /\ IF p = "vscode"       THEN TRUE ELSE UNCHANGED viewVars
    /\ IF p = "output"       THEN TRUE ELSE UNCHANGED outVars
    /\ IF p = "screen"       THEN TRUE ELSE UNCHANGED screenVars
    /\ IF p = "drivers"      THEN TRUE ELSE UNCHANGED driverVars
    /\ IF p = "tasks"        THEN TRUE ELSE UNCHANGED taskVars
    /\ IF p = "configuration" THEN TRUE ELSE UNCHANGED confVars
    /\ IF p = "voyage"       THEN TRUE ELSE UNCHANGED voyageVars
    /\ IF p = "reports"      THEN TRUE ELSE UNCHANGED reportVars
    /\ IF p = "scripts"      THEN TRUE ELSE UNCHANGED scriptVars
    /\ IF p = "kernels"      THEN TRUE ELSE UNCHANGED kernelVars

MCNext ==
    \/ part = "line"       /\ Line!Next          /\ Still("line")
    \/ part = "words"      /\ Words!Next         /\ Still("words")
    \/ part = "names"      /\ RegNext            /\ Still("names")
    \/ part = "events"     /\ EventNext          /\ Still("events")
    \/ part = "keymaps"    /\ KeyNext            /\ Still("keymaps")
    \/ part = "quickfix"   /\ QuickNext          /\ Still("quickfix")
    \/ part = "status"     /\ Status!StatusNext  /\ Still("status")
    \/ part = "import"     /\ ImportNext         /\ Still("import")
    \/ part = "stdout"     /\ ProxyNext          /\ Still("stdout")
    \/ part = "environments" /\ EnvNext            /\ Still("environments")
    \/ part = "text"       /\ Text!TextNext      /\ Still("text")
    \/ part = "windows"    /\ Win!WinNext        /\ Still("windows")
    \/ part = "vscode"     /\ View!ViewNext      /\ Still("vscode")
    \/ part = "output"     /\ OutNext            /\ Still("output")
    \/ part = "screen"     /\ ScreenNext         /\ Still("screen")
    \/ part = "drivers"    /\ Driver!DriverNext  /\ Still("drivers")
    \/ part = "tasks"      /\ TaskNext           /\ Still("tasks")
    \/ part = "configuration" /\ ConfNext           /\ Still("configuration")
    \/ part = "voyage"     /\ Journey!VoyageNext /\ Still("voyage")
    \/ part = "reports"    /\ Report!PrintLine   /\ Still("reports")
    \/ part = "scripts"    /\ Script!ScriptNext  /\ Still("scripts")
    \/ part = "kernels"    /\ KernelNext         /\ Still("kernels")

MCSpec == MCInit /\ [][MCNext]_allVars

AllParts  == {"line", "words", "names", "events", "keymaps", "quickfix", "status", "import", "stdout",
              "environments", "text", "windows", "vscode", "output", "screen", "drivers", "tasks",
              "configuration", "voyage", "reports", "scripts", "kernels"}
OnlyWords == {"words"}

------------------------------------------------------------------------------
(* Properties: those of the modules, each about the behaviours of its part. *)

\* Each part keeps its types.
MCTypeOK ==
    /\ part = "line"         => Line!TypeOK
    /\ part = "words"        => text \in Seq(Words!Chars)
    /\ part = "names"        => RegTypeOK
    /\ part = "events"       => EventTypeOK
    /\ part = "keymaps"      => KeyTypeOK
    /\ part = "quickfix"     => QuickTypeOK
    /\ part = "status"       => Status!StatusTypeOK
    /\ part = "import"       => ImportTypeOK
    /\ part = "stdout"       => ProxyTypeOK
    /\ part = "environments" => EnvTypeOK
    /\ part = "text"         => Text!TextTypeOK
    /\ part = "windows"      => Win!WinTypeOK
    /\ part = "vscode"       => View!ViewTypeOK
    /\ part = "output"       => OutTypeOK
    /\ part = "screen"       => ScreenTypeOK
    /\ part = "drivers"      => Driver!DriverTypeOK
    /\ part = "tasks"        => TaskTypeOK
    /\ part = "configuration" => ConfTypeOK
    /\ part = "voyage"       => Journey!VoyageTypeOK
    /\ part = "reports"      => Report!ReportTypeOK
    /\ part = "scripts"      => Script!ScriptTypeOK
    /\ part = "kernels"      => KernelTypeOK

\* What is read line by line: what completion offers at the end of a command line
\* is accepted, but for the words of options that take literals only, and bound to
\* the parameter it was offered for, where no required argument is declared behind
\* one that is not; no word of a line of plain words is lost; the records of the quickfix are what pytest and Python
\* reported, each with the text that belongs to it; what is run is what the cursor
\* is on.
LinesAreRead ==
    /\ part = "line"    => Line!OfferIsAccepted /\ Line!BoundAsOffered
    /\ part = "words"   => Words!PlainWordsAreTokens
    /\ part = "reports" => Report!FailuresAreListed /\ Report!ReasonsAreItsOwn /\ Report!TracebackIsListed
    /\ part = "scripts" => Script!PicksItsTest /\ Script!OnlyPythonIsForIPython

\* Every word of a line is a token, as the docstring of tokenize has it.
EveryWordIsAToken == part = "words" => Words!EveryWordIsAToken

\* Text that is written, found or appended is where the returned range says; the
\* lines of a command break where it broke them, or where a piece ends; a cursor is put where there is text, a terminal is sent the text it is given, an
\* item taken off the status line takes nothing along, and the directive of a voyage
\* keeps what the user wrote and is judged by that.
TextIsThere ==
    /\ part = "text" => /\ Text!ReplacedIsThere /\ Text!FoundIsThere
                        /\ Text!OutputIsAppended /\ Text!LinesAreReplaced
    /\ part = "output"  => BreaksAreKept
    /\ part = "screen"  => CursorIsOnTheText
    /\ part = "drivers" => Driver!ShellGetsEveryLine /\ Driver!IPythonGetsTheText
    /\ part = "status"  => Status!OthersStay
    /\ part = "voyage"  => Journey!CommentIsKept /\ Journey!CheckTellsTheTruth

\* Opening a window moves no focus, and closing some takes away nothing else: no
\* other window, and on VS Code no tab and no text of another document.
WindowsStay ==
    /\ part = "windows" => Win!OpenKeepsFocus /\ Win!OnlyTheseClose /\ Win!DeduplicateKeepsFocus
    /\ part = "vscode"  => View!OpenKeepsTheColumn /\ View!OnlyTheDocumentGoes /\ View!UniqueSparesTheRest
===============================================================================
