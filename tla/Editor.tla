-------------------------------- MODULE Editor --------------------------------
(***************************************************************************)
(* Components that share no state, beside each other, and what is required *)
(* of several of them alike: of those that keep things of different        *)
(* parties in one place, of those that look up what others have stored,    *)
(* and of those that bring the output of others to the screen.             *)
(***************************************************************************)
EXTENDS Events, CommandRegistry, Keymaps, LLMImport, StdoutProxy, Quickfix, Environments,
        LLMTasks, Configuration, TerminalScreen, JobOutput

\* What several parties put into one place stays apart: an event of a key that was
\* handed out is fired, a key deleted can be asked for again; and a folder of
\* configuration that is fetched, moved or cleaned takes no value along that was not
\* written over or had expired (shared/lib/keymap, shared/pytoy_configuration).
OthersStay == HandedOutIsFired /\ CanBeAskedFor /\ NothingIsLost /\ FolderOfTheDay

\* What is found for the folders of a project fits together, and uv runs nothing
\* outside of one (environment_manager); a question is about one document, and what
\* a model is told of its language and of the references agrees with them, as they
\* are read while they are collected (tools/llm); and a folder keeps its kernel.
AnswersAgree ==
    /\ UvOnlyInProjects /\ LookupsAgree
    /\ OneDocument /\ ReadsWhatWasCollected /\ QuotesAgree /\ LanguageIsTheTexts
    /\ KernelStays /\ NoneBelow

\* What threads print is shown in order or was dropped by a full queue, while a screen
\* hears of it and the reader runs; what is queued when the screen is taken away, the
\* next activation throws away (stdout_rescuer).  What the emulator of a terminal was
\* fed is on the screen of the buffer, or an update is on its way (terminal_runner).
OutputIsSeen == PrintedIsShown /\ SeenOrOnItsWay

\* The characters that a command prints are kept in order, and its lines, but for those
\* that Neovim hands over in parts; they reach the buffers that are there for them
\* until the exit is told, and only a wiped out buffer of errors keeps its kind taken
\* (command_runner).  A terminal shows what its program wrote up to some character and
\* skips nothing; on VS Code what an ended program wrote last may stay unread.
OutputIsKept ==
    /\ LinesAreKept /\ BuffersHaveTheLines /\ FiledOnlyIfErrorsAreGone
    /\ ScreenIsTheProgrammes /\ NothingIsSkipped /\ ReadUntilTheEnd
===============================================================================
