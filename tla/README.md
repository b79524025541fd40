# vim-pytoy: specifications, model checking and proofs

vim-pytoy is a plugin, written in Python, for Vim, Neovim and VSCode (with its
Neovim extension). It runs commands and terminals and shows them in buffers,
runs background work in threads, and talks to language models. Nearly all of
it executes on the editor's single main thread, in callbacks: of timers, of
processes that print or exit, of functions posted by other threads. What is
hard in it, and hardly ever tested, is the order of these callbacks, what they
find when they come late, and the translation between texts, ranges, windows
and screens that three editors see differently.

Paths below are relative to `src/pythonx/pytoy/`.

## The system

| Component | State | Operations | Interacts with |
|---|---|---|---|
| timer tasks (`shared/timertask`) | tasks and repeat counts by name, timer ids by name, on Neovim the queue of posted calls | `register`, `execute_oneshot`, `deregister`, `is_registered`, the tick | everything that is done later or repeatedly |
| background work (`shared/timertask/thread_executor.py`) | executions by native thread id, result queue, `_started` | `execute`, `_polling`, `cancel` | a timer task polls; callbacks run on the main thread |
| stdout of threads (`timertask/vim/stdout_rescuer.py`) | bounded queue in place of `sys.stdout`, its timer task | `write`, `ensure_activate`, `loop_function` | threads that print |
| commands (`job_execution/command_*`) | job (lines, emitters, callback functions), runner (buffers, subscriptions), manager (executions and contexts) | launcher's `run`, `rerun`, `stop`; callbacks for lines and exit | editor's jobs, buffers' `on_wiped`, one-shot timer tasks |
| terminals (`job_execution/terminal_*`) | the same, with one buffer per terminal, a screen, Neovim's input thread, VSCode's reader thread | controller's `send`, `stop`, `terminate`; callbacks for output and exit | as above, and pseudo terminals |
| environments (`job_execution/environment_manager`) | caches of workspaces and projects, whether uv is there | `solve_preference`, the search upwards | the commands that launch |
| events (`shared/lib/event`, `events`, `entity`) | lists of listeners, global events per buffer and window, objects per entity | `subscribe`, `fire`, `dispose`, `once`, `at` | the wiring of all components |
| functions, keymaps, autocommands (`shared/lib`) | registered names, keys of buffers | `register`, `deregister`, map, unmap | the editor |
| command line (`shared/command`) | declared commands and groups | tokenizer, binding, completion, registration | user commands |
| quickfix (`shared/ui/pytoy_quickfix`) | records, index, page | `handle_records`, `move`, `jump`, `close`; the page's `show` | tools and commands that find things |
| buffers and windows (`shared/ui/pytoy_buffer`, `pytoy_window`, `vscode`) | texts, ranges, windows on tab pages, tabs in columns | read, replace, find, append; open, close, focus, `unique`, `deduplicate` | the editor |
| status line (`shared/ui/status_line`) | one string per window, functions by name | register, deregister | the editor, other plugins |
| configuration (`shared/pytoy_configuration`) | files of a workspace, central or global | `read_json_dict`, `fetch_local_to_project`, `move_local_to_centralized`, `clean_locals` | tools, LLM |
| LLM (`tools/llm`, `bootstrap`) | kernels per folder, interactions, manuscripts, directives, references, import state | `summon`, `create`, `dispose`, edits, voyages, reviews, collection | background work, buffers |
| tools (`tools`) | none | readers of reports, pickers of what the cursor is on | quickfix, commands, terminals |

Layers: user commands call tools and launchers; these use `job_execution` and
`tools/llm`; everything rests on `shared`. `contexts` holds one manager of each
kind for the session. `MEMORY` is retired code and `SANDBOX` a separate Windows
program.

The hard behaviours, listed line by line under `hazards` in PROJECT.json:

* **Late calls.** On Neovim `register` and `deregister` of a timer task are
  posted, so the tables lag behind the calls; timers are stopped by yet another
  timer everywhere.
* **Nested calls.** `EventEmitter.fire` calls its listeners one after another
  with no guard; listeners unsubscribe, launch, terminate and raise while the
  event is fired.
* **Threads.** Workers, readers and input threads hand things to the main thread
  by queues, flags and posted lambdas, and share variables with them.
* **Partial failure.** A hook, a callback, a mapping or a start that fails leaves
  what was to come after it undone.
* **Things that must go away.** Callback functions, subscriptions, timers and
  filed executions, each removed by a different callback.
* **Stale handles.** Indices into a list that was replaced, numbers of windows,
  columns of tabs, folders found before a file appeared, markers in a buffer
  that the user edits.
* **Translation.** Text to lines and back, TOML and back, the status line to
  nodes and back, reports to records: what goes through twice must survive.

## Modules

| Module | Models | Composition |
|---|---|---|
| `TimerTask` | `vim/timertask_impl.py` on both editors | |
| `TimerPromise` | what a timer task promises, with no names or timers | |
| `MCTimerTask` | instances | TimerTask implements TimerPromise (`KeepsPromise`) |
| `TimerTaskProofs` | theorems about TimerTask, and its refinement of TimerPromise on Vim | extends TimerTask |
| `ThreadExecution` | `thread_executor.py` and the registrations of its poller | implements Delivery (`DeliversOnce`) |
| `Delivery` | what the thread executor promises a caller | |
| `MCThreadExecution` | instances | |
| `ThreadExecutionProofs` | theorems about ThreadExecution, and its refinement of Delivery | extends ThreadExecution |
| `CommandJob` | launcher, executor, manager, runner and jobs of commands, with the exit event | |
| `MCCommandJob`, `CommandJobProofs` | instances; theorems about CommandJob | extend CommandJob |
| `Terminal`, `TerminalProofs` | the life of terminals in three editors; theorems about it | |
| `TerminalInput`, `TerminalInputProofs` | what is typed into a terminal; theorems about it | |
| `Terminals`, `TerminalsProofs` | both in one editor; that each does beside the other what its own specification says | extends Terminal, instantiates TerminalInput |
| `MCTerminals` | instances | extends Terminals |
| `Manuscript`, `MCManuscript` | questions to a language model about a buffer: edits, voyages, reviews, and the kernel's interactions | |
| `ManuscriptProofs` | theorems about Manuscript | extends Manuscript |
| `CommandLine`, `Tokenizer`, `CommandRegistry` | words, completion and binding; the places of words; names of commands | in `MCEditor` |
| `Events`, `Keymaps`, `Quickfix`, `StatusLine` | what several parties share of the editor | in `MCEditor` |
| `TextRanges`, `Windows`, `VSCodeWindows` | texts and ranges, windows on tab pages, tabs in columns | in `MCEditor` |
| `JobOutput`, `TerminalScreen`, `DriverInput`, `Environments` | what goes through jobs and terminals, and where they run | in `MCEditor` |
| `Lines` | folds over texts, lines cut and joined | extended by JobOutput and TerminalScreen |
| `LLMImport`, `StdoutProxy` | the import in a thread; prints of threads | in `MCEditor` |
| `LLMTasks`, `VoyageText` | what the model is told, and the kernel of a folder; directives through TOML | in `MCEditor` |
| `Configuration`, `Reports`, `Scripts` | files of the configuration; reports into records; what the cursor is on | in `MCEditor` |
| `Editor` | Events, CommandRegistry, Keymaps, LLMImport, StdoutProxy, Quickfix, Environments, LLMTasks, Configuration, TerminalScreen and JobOutput beside each other, and what is required of several of them alike | extends the eleven |
| `MCEditor` | instances of the twenty-one modules above | extends Editor, instantiates the others, and chooses the module of a behaviour by `part` |
| `EditorProofs` | theorems about the modules of Editor, each of its own specification | extends Editor |

`MCEditor` checks in one run components that share no state: every initial state
names one of them in `part`, and the variables of the others keep still. The
graph of states is the union of theirs, not their product. The properties of
`Editor` are stated of all its components at once: where a component keeps still
they hold as at its start, and they are the same formulas that `EditorProofs`
proves. Those of the other components are stated of the part
(`part = "text" => ...`). `Terminals` does the same for the two sides of a
terminal, which share the editor only.

Operators named `X_Something` and introduced by "Slip:" are plausible mistakes
in `X`. No specification uses them; they show that each property notices a
mistake in the code.

### TimerTask

`task` holds every registration ever made (history: its name, count, runs and
how it ended); `names` maps a name to the registration in `tasks`, `statuses`
and `_timer_map`, which the code always changes together; `timers` are the
editor's repeating timers, `posted` the calls handed to the main loop. `Async`
is FALSE on Vim, where `_impl_function` is called at once, and TRUE on Neovim.
`Register`, `Deregister`, `Tick`, the three ways a function can end, `RunPosted`
and `StopTimer` are the actions. While a function runs it may register and
deregister (up to `MaxCalls` times), which is how callbacks use the facade.
`Naming` says how callers choose names: never again ("fresh"), only a name that
`is_registered` denies ("checked", what `devtools_commands.py` does), or any.
A removal carries the id of the registration it was scheduled for, but takes out
whatever has the name when it is carried out; `asked` (history) is the last word of
callers and ends on each name, in the order in which they were given.
Timers do not tick while a function runs. Time is not modelled: a timer may tick
whenever the main thread is free, in any order, which covers every interval.

### ThreadExecution

A request's thread is new, running, posted (its result is in the queue) or
dead. `executions`, `queue` and `started` are the manager's fields. The poller's
timer task is seen from outside, as TimerTask has it: a registration that ticks,
and that on Neovim may run again after it has stopped until it is forgotten.
`Faults` admits what may go wrong beside the interleavings: callbacks that
raise, workers that end in a `BaseException`, ids given out again; `faulted`
remembers which did, and properties that need it so say "until an id is given
out again" or "unless a callback raised". A result that finds nothing under its
id (`DropResult`) exists only after that.

### CommandJob and JobOutput

The exit event is fired to `"cleanup"`, `"runner"`, `"hooks"` and `"deregister"`
in their order of subscription (`Subscribed`); `firing` is the walk over the
copy of the list, and hooks may run, rerun and stop commands from inside it.
`Execute` is the whole of `execute`, which nothing interrupts. `Read` is one
line, `EmitExit` the exit callback: Neovim reports it after the last line, Vim
may report it before.

`JobOutput` looks into `Read`: pieces of text that need not end with a line, two
streams, lines as Vim and as Neovim hand them over, the buffers of output and of
errors that may be wiped, and the hook of the launcher that hides a buffer of
errors when it is empty.

### Terminal, TerminalInput, TerminalScreen and DriverInput

In `Terminal`, `main` is the stack of the main thread: the steps still to be
taken, the next first. `terminate` on Vim fires the exit event, whose first
listener terminates again, until the process is seen dead or Python's recursion
limit is met (`TooDeep`); on Neovim it only forgets the process, and the exit
follows; on VSCode nothing reports an exit at all (`Reported`). `cut` remembers
the terminals whose listeners could not all be called: a hook raised, the
recursion was cut, or Vim's `terminate` came between a death and its report.

In `TerminalInput` a send is a sequence of texts and waits. Neovim's loop is
modelled statement by statement, because its variable `payload` is read by the
lambdas it has posted: `Check`, `Get`, `Deal`, `PostPayload`, and `RunPosted` on
the main thread. VSCode has `SendStep` for the thread of each send. On Vim `Send`
does everything. `overtaken` (history) says that `payload` was changed under a lambda
that waited to run. `DriverInput` is what the shell's and IPython's drivers make of
a text before it is sent: lines that continue are joined.

In `TerminalScreen` a program writes pieces, a reader thread feeds the emulator
and schedules an update unless one is scheduled, and the main thread takes the
flag back and copies the screen: on VSCode these interleave statement by
statement. The reader goes when it finds the program ended, so that what it wrote last
may stay unread there. The emulator is a library; the model has letters, a return, a line
feed and a clearing of the screen.

### The editor: Events, Keymaps, StatusLine, Quickfix

`Events` has the emitter's list, the copy that is walked (`walk`), what is still
owed to the listeners of the fire (`due`), listeners that dispose, subscribe or
raise, `once`, and the listeners at one entity with the registry that drops the
entity's object. `Keymaps` has the order in which a key is made and deleted,
with the failing step in the middle: `hidden` remembers what was touched while
no window showed the buffer. `StatusLine` parses and writes the line as the code
does, adjacent texts becoming one. `Quickfix` keeps the list as each of three
editors does, the page of the presenter, and the number read off its lines; the list
may have been replaced by a shorter one meanwhile, and the jump then raises (`failed`).

### Text and windows: TextRanges, Windows, VSCodeWindows

A buffer is a sequence of lines, a text a sequence with breaks; `TextRanges`
defines both conversions, reading, replacing, searching and appending by the
code's arithmetic, and the properties compare each with what stands there
afterwards. `Windows` numbers windows per tab page, as Vim does; closing and
anchoring go by number, one window after another, each in the layout that the one
before left. The editor refuses to close its last window, and a buffer that was
modified may keep the last window that shows it (`kept`): the call then raises where
it stands. `VSCodeWindows` has tabs in columns, the document on
top, `workbench` commands that act on what is active, and documents without a
file, which lose their text when closed.

### Jobs' surroundings: Environments, Configuration

`Environments` searches a path of folders upwards for projects, workspaces and
git roots. Three caches of the code are variables: workspaces and projects by folder,
and what each pyproject said when it was first read (`loaded`), which is kept for the
session whoever asked. Files come, change, go and cannot be read meanwhile: `stale` are
the folders that were asked about before a change at or above them. Launchers ask by
`SolvePreference`, tools by `ToWorkspace` and `AskProject`, which finds the workspace
first, and the commands by a manager made for one question (`AskApart`).
`Configuration` finds the folder of a workspace, moves a central folder into the project
and cleans folders by age. Reading merges two dictionaries and changes nothing; it is left out.

### LLM: Manuscript, LLMTasks, VoyageText, LLMImport

In `Manuscript` a buffer is a sequence of tokens, pieces of text and markers; a
question is identified by its id, from which its markers are made. `AskEdit` is
`insert_markers` with the request that follows, `AskWhole` the three questions
about the whole manuscript. An answer is one step of the main thread, from the
callback of the thread executor to the kernel's forgetting: `InteractionProvider.create`
catches what `on_success` raises, so `Conclude` is reached whatever happened.
The manuscript and the directive may have changed meanwhile, or the buffer be
gone. `Override` takes the first beginning and the first end found, as
`find_first` does; where the end comes first, `CharacterRange` yields an empty
range after it. What the model answers is external: `EditOutputs` are answers
that obey the rules of the prompt and some that do not, which `strayed` records
together with cut markers, selections that cross a scope, and requests that
fail after the markers were inserted.

`LLMTasks` follows one question through its invocations, on a thread, while the
main thread collects references file by file, each write emptying its file
first. Descriptions are written as UTF-8 and read in the encoding of the
platform: those of the files in `Undecoded` cannot be read, and the edit fails.
`VoyageText` writes a directive as TOML and reads it again, answer by answer,
with breaks and escapes as characters. `Summon`, in `LLMTasks`, is the search
for the kernel of a folder: of the kernels at or above it (`Serving`) the
deepest. `LLMImport` is the import behind a moratorium with those who wait for
it; an import may fail in two ways, of which one is kept.

### Command line: CommandLine, Tokenizer, CommandRegistry

`CommandLine` makes a command of a function's parameters (literals, flags,
ranges, options), interprets the tokens of a line, binds its words and offers
completions; the line is edited by the user and by completions taken.
`Tokenizer` is the look-up of the words that shlex returns in the text of the
line; `shlex` itself is external. `CommandRegistry` is the decorators' effect on
the editor's commands when modules are loaded and loaded again.

### Tools: Reports, Scripts

`Reports` reads a report of pytest, and a traceback, line by line as the regular
expressions do, where a line is one of the shapes they tell apart; `Scripts`
picks the test the cursor is on from the targets' line ranges, and the block of
a page of Markdown.

## What the runs show

All runs are exhaustive for their bounds. "Violation" runs check one statement
that the repository makes of itself and that the code does not keep.

| Run | Instance | Result |
|---|---|---|
| `timer_vim` | Vim, names that were asked for; 3 registrations, 2 names, 1 nested call | no timer lives that drives no task of its own; counts are kept; an end is told once; an end touches only its own name; TimerPromise is implemented |
| `timer_nvim` | Neovim, any name, functions that register their own; 2 registrations of 1 name, 3 posted calls; fairness | a registered name is driven by a live timer; when nothing is left to carry out, the name has what was asked for last, though stale and repeated removals were carried out; counted tasks end, ended timers are stopped unless their name was taken again |
| `timer_oneshot` | Neovim | *violation*: "Execute the function only one time" (`timer.py:89`) |
| `thread_work` | 3 requests, 3 ids, raising callbacks, dying workers, ids reused, Neovim's late stop; fairness | filed work is polled; until an id is reused a caller gets its own result, once, and ended work is delivered unless a callback raised; where nothing failed polling ends |
| `thread_recycled` | 2 ids for 3 requests, ids reused | *violation*: a callback is given another request's result |
| `command_launch` | 2 commands of one kind, 2 lines, both editors; fairness | running and filed agree; one per kind without `rerun`; the buffer shows nothing the hooks were not given; on Neovim the result is whole; hooks are called; everything is cleaned |
| `command_refusal` | as above | *violation*: "Already ... is running." though nothing runs |
| `terminals` | 2 terminals, 1 buffer, and 2 sends (IPython's first paste, two shell lines), three editors; fairness | one writer per buffer, hooks after the runner's release, on Neovim at most once; the exit is heard, the buffer freed. Vim has written all when `send` is back, VSCode keeps the order of each send and writes every text; Neovim does both for all sends as long as `payload` is not changed under a waiting lambda, and otherwise writes nothing behind its place and makes as many writes as texts; the input thread ends |
| `terminal_asis` | Neovim | *violation*: "Send the str as is." (`core.py:71`) |
| `manuscript_edit` | 2 questions of any kind, 3 pieces, 1 edit by the user; fairness | a question's markers go with it, however the scopes nest and the answers are ordered; text out of its scope is not lost, unless the model copied a marker of another question elsewhere; answers keep the user's policy; the kernel forgets every question |
| `editor_parts` | the twenty-two parts of `MCEditor` | see below |
| `tokenizer_words` | lines of up to 6 characters | *violation*: the docstring of `tokenize` (`core/tokenizer.py:206`) promises the tokens of the whole line. A word with a quote or a backslash inside is dropped, and all behind it |

`editor_parts` has one property per question that several parts ask alike:

| Property | Of the parts | Shows |
|---|---|---|
| `MCTypeOK` | all | types; among others a function refused by the decorator leaves the registry whole |
| `LinesAreRead` | line, words, reports, scripts | a completion taken makes nothing wrong that was not wrong before, neither for the reading of the line nor for its binding, but for options of literals only, which binding always refuses, and is bound to the parameter it was offered for where required arguments are declared first; plain words are all found, each in its place; records are what was reported, with their own reasons; what runs is what the cursor is on |
| `LatestIsReached` | names | after reloads, a name reaches what was registered last |
| `ListenersHear` | events | whoever was subscribed when the fire began hears it, also when others dispose, subscribe or raise (at the entity); `once` is once |
| `EntitiesEnd` | events | an entity's object is dropped with it (action property) |
| `OthersStay` | keymaps, configuration | what one takes away takes nothing of others along |
| `JumpsAreFresh` | quickfix | jumps reach existing records of the last run, only the page of an earlier run can point behind the end, and next and prev undo each other |
| `WaitersAreTold` | import | nobody waits for a thread that is not there, and who is told that the libraries are there can use them |
| `OutputIsSeen` | stdout, screen | prints are shown once and in order, wait, or were dropped by a full queue or by the next activation; what an emulator was fed is on the screen, or an update is on its way |
| `OutputIsKept` | output, screen | no character is lost or out of order, lines are those that were written unless Neovim is handed a part of one, and they reach the buffers that are there until the exit is told; a screen shows what the program wrote up to some character and skips nothing, and on VSCode only an ended program leaves something unread |
| `AnswersAgree` | environments, tasks, kernels | what is looked up agrees: workspace and project of folders whose files are as they were read; text and description of a reference, which are read whole but for what was collected meanwhile or cannot be decoded; kernels |
| `TextIsThere` | text, output, screen, drivers, status, voyage | lines break where a command broke them and otherwise only, on Neovim, where a piece ends; what was written, found, appended, sent or put through TOML is there afterwards; the cursor is on the text, and an item taken off the status line takes nothing along |
| `WindowsStay` | windows, vscode | opening moves no focus; closing, deduplicating and keeping one window take exactly the windows they should, unless the editor refuses one; only `close` of a window on another tab page takes, by its number, another one of the current page |

Several of these hold only with an exception, which the property states, because
the code has it: a screen's cursor or a text range at its boundary, a key that
was touched while its buffer was hidden, a list of VSCode after a run that found
nothing, a comment that spells an escape, frames below dashes of one length, an
editor's document shown in two columns, an option of literals only, a required
argument declared behind one that is not, a file changed after it was read, a piece
that Neovim is handed in the middle of a line. The comments of the properties say
which; weakening the exception makes TLC find the case.

### Bounds

* `MaxTasks`, `MaxCalls` (TimerTask): three registrations of two names are
  enough for a name to be taken over while another is being removed; on Neovim two
  registrations of one name and three posted calls, so that two removals of the first
  may be on their way when the second is asked for.
* `Requests`, `Tids`: three requests give one that is filed, one in the queue
  and one started from a callback. Two ids force a reuse; three allow it.
* `MaxLines` (CommandJob): of two lines each is read early, late or never.
* `MaxSteps` (Terminal): at 12 pending steps Vim's `terminate` has nested
  itself twice, so that hooks are called several times before the limit.
* `Ops` (TerminalInput): every kind of operation, and texts before and after a
  wait.
* `Questions`, `Pieces`, `MaxEdits` (Manuscript): two scopes may be apart, nested
  or crossing; three pieces leave one between two scopes. With two pieces the
  loss described above does not happen.
* `MCEditor`: command lines of 3 tokens over seven functions shaped as the
  plugin's commands (`MaxTokens`); lines of 6 characters for the tokenizer
  (`MaxLength`): two words, quoted, escaped or broken; two keys of two buffers;
  two runs of at most two records, shown twice (`MaxRuns`, `MaxFound`,
  `MaxShows`); three items on a status line of five nodes (`MaxHeld`,
  `MaxSize`); three listeners that hear an event twice (`MaxHeard`); folders two
  deep and one change of their files (`Depth`, `MaxChanges`), where the folder above may
  be read by a manager of its own, changed, and asked about through the one below: at
  this size dropping `loaded` from `FilesAsRead` is refuted; texts of three
  lines; four windows (`MaxWindows`); two columns (`MaxColumns`); pieces written
  twice to either stream (`MaxWrites`); a screen of two by two and two outputs
  (`Rows`, `Cols`, `MaxOutputs`); texts of five characters for the drivers
  (`MaxTyped`); two threads that print twice into a queue of two (`QueueSize`,
  `MaxPrints`); two collections of three files around one question
  (`MaxCollections`, `MaxEdits`); two values and one day (`MaxValues`,
  `MaxDays`); two rounds of a directive (`MaxRounds`); reports of six lines
  (`MaxLines`); scripts of four parts and pages of five lines (`MaxParts`,
  `MaxPage`). Each is the smallest at which the exceptions above appear, or one
  more.

### Fairness

Worker threads end and input threads are scheduled; the main thread continues
what it has begun (weak fairness); a question to a language model is such a
thread, and is assumed to be answered or to fail. The editor's event loop serves
pending callbacks between the commands of the user, however many there are: exit
callbacks, lines and one-shot timers are strongly fair, since a command of the
user disables them only while it runs. Processes are not assumed to exit or to
obey a signal, users not to do anything, hooks only to return or to raise. The
parts of `MCEditor` assume no fairness: that somebody "is heard" is stated as
what must still be on its way in every state.

## What is proved

`TimerTaskProofs`, for all names, repeat counts and bounds and every naming
habit of callers:

* `Invariance`: the inductive invariant `IInv`. `TypeOK` and "registered names
  are driven" do not survive a step alone: one must know that posted calls name
  registrations that exist and were made for the name they carry, that the timer
  of a posted registration has not been made yet, and that the timer under a
  name is not among those about to be stopped. These are the named parts of
  `IInv`; `StepKeeps` has one step per action.
* `TypeCorrect` and `RegisteredTasksAreDriven` follow from it, on both editors.
* `VimRunsWithinRepeat` and `VimEndsOnce` assume `~Async`. Their strengthening
  `VimInv` says that an ended registration is neither executing nor under any
  name, and that runs and remaining count add up to the count asked for. Without
  the assumption the first is false: run `timer_oneshot`.
* `LastWordIsKept` (`LastWordHolds`), on both editors, for any naming habit and for
  functions that register their own names. A posted removal takes out what it finds
  under its name, which may be another registration than the one it was scheduled for,
  or be carried out twice. `LastWord` says what the posted calls still to be carried
  out will leave under each name (`IsLastOn`): the last of them that is about the name
  decides, and without one the name has what was asked for.
* `NoTimerStrays` (`NoStrayTimer`) assumes fresh names, or on Vim that callers ask
  `is_registered` first: then nothing is installed over a name in use, and no
  timer is left without a name. These are the habits of the callers in the code.
  With any name at all the property is false on both editors, and on Neovim also
  for callers that ask: two that ask before the first call is carried out are
  both told that the name is free.
* `VimKeepsPromise` (`KeepsPromise`): on Vim, with any naming habit and with
  functions that register their own names, each step is one of TimerPromise or
  a stutter (`ArmIsNext`, `RegisterArms`, `DeregisterDrops`, `TickBegins`,
  `ReturnReturns`, `ConcludeEnds`). The phase of a registration is read off
  `running`, `ended` and the name that holds it (`PhaseOf`, `PhasesHold`,
  `PhaseAfter`); that a registration which lost its name never runs again is
  part of `VimInv`.

`ThreadExecutionProofs`, for all requests, ids, faults and both kinds of editor:

* `PollInvariance`, and from it `TypeCorrect` and `FiledWorkIsPolled`. Nothing
  here depends on ids. The invariant adds that a thread has an id from its
  start, that a callback in progress knows what it was given, and that a started
  poller is registered unless a callback raised. It is proved in parts
  (`TimersStep`, `WorkStep`, `ControlStep`, `PollerStep`), one step per action.
* `OwnInvariance`: as long as no native id has been given out again, an id
  stands for one request. `OwnInv` says that ids are distinct, that a request is
  filed under its own from the start of its thread, that a result in the queue
  carries the id of a thread that ended its work and was not yet delivered, and
  that the id taken out after a callback is of a request that was. The last two
  are what keep the removal from hitting someone else's entry.
* `OwnResultIsDelivered` and `ResultsFindRequests` follow, and with them
  `ImplementsDelivery`: the initial states are Delivery's, and until an id is
  given out again every step moves one request on or none (`PromiseStep`). After
  that all three are false: run `thread_recycled`.

`CommandJobProofs`, for all jobs, kinds and numbers of lines, on Vim and Neovim:

* `Invariance`: `IInv`. That the hooks were given what the buffer shows
  (`HooksKnowTheLines`) depends on the order of the listeners: the snapshot is
  taken before the first is called, and the runner lets go of the buffer before
  the hooks are called, so that late lines stay out. `InTurn` carries this along
  the walk: the listeners still to be called are the last ones, and those before
  have done their work. `Wired` says that a job is filed and wired whole until
  its exit is reported, `Untouched` that nothing was done for one that was not
  started, `LinesAddUp` that captured and unread lines are the written ones as
  long as the functions are there, `HooksAreLate` that hooks come after the
  report. One lemma per action, with one step per part.
* `TypeCorrect`, `RunsAreFiled` (`FiledWhileItRuns`) and `ResultsAreWhole`
  (`HooksKnowTheLines`) follow. That `run` refuses only what runs does not: run
  `command_refusal`, after a hook that raised.

`TerminalProofs`, for all jobs, buffers, editors and recursion limits:

* `Invariance`. That a buffer has one writer needs an argument about the stack of
  the main thread: wherever hooks or a deregistration wait on it, a release of
  the runner waits before them or has been (`ReleasedFirst`), however often
  `terminate` has nested itself. `Wired` says which listeners a job can have,
  `OnePerBuffer` that a buffer is answered with one terminal, `StoppedFirst`
  that an exit is fired only for a process that ended or was told to,
  `FiredOnce` that Neovim fires it once, and `FiledUntilDisposed` that a job
  disposed of early will be taken out as well.
* `OneWriter` (`OneUpdaterPerBuffer`), `NoTerminalIsLost` (`NoneIsLost`),
  `HooksInTheirPlace` (`HooksComeAfterRelease`) and `TypeCorrect` follow.

`TerminalInputProofs`, for all sends and operations:

* `Invariance`. On Neovim there is a number of operations that the thread has
  taken (`Taken`): the rest is in the queue, and what was written or posted is
  counted by the texts among those it is done with (`Counted`). The lambdas read
  the variable `payload` only when they run, so that one text may be written in
  the place of another; none is written behind its place even then, and as long
  as `payload` is not changed under a waiting lambda each is written in its own
  (`InTurn`). On VSCode each thread has written what it is done with
  (`VSCodeWrites`).
* `Ordered` (`WritesInOrder`) and `TypeCorrect`. What `Ordered` says of Vim, that
  all is written as asked for, is false on Neovim: run `terminal_asis`.

`TerminalsProofs`: `LifeImplements` and `TypingImplements`, each part beside the
other is a behaviour of its own specification; with the theorems above,
`BothTypeCorrect`, `BothWriteInOrder` and `BothKeepLife` state the properties
of the run `terminals` for its specification.

`ManuscriptProofs`, for all questions, pieces and numbers of edits:

* `Invariance`. The argument is about the order of tokens: whatever is typed,
  deleted, inserted or answered, no two tokens that stay change their order
  (`Orderly`). Hence what lies between the markers of a question remains of its
  scope (`ScopeHolds`), a beginning comes before its end (`InOrder`), and two
  pairs of markers that did not cross do not come to (`Nested`). `Keeping` needs
  only that the model puts back no marker of another question, `Pairing` that
  nothing strayed. The lemmas on taking out and replacing a range
  (`RemoveFirstKeeps`, `SplicedIsOrderly`) carry it.
* `TypeCorrect`, `MarkersAreGone` (`MarkersGo`) and `UserIsSpared`
  (`AnswersSpareTheUser`) follow. The attempt to prove the last one showed that
  an earlier statement, which excused lost text only where a marker had been cut
  and one put back, is false of three questions: where scopes cross, a marker
  put back suffices. `LostOnlyInScope` excuses a marker put back, and nothing
  else.

`EditorProofs`, each for all constants of its component:

* Events: `EventInvariance`, and from it `EveryoneHears` (`ListenersHear`) and
  `EndsAreTold` (`EntitiesEnd`). Whoever is still due is ahead in the walk: in
  the copy of the list, in the copy of the set at the entity, or in that set
  itself while the listener that selects is ahead (`IsAhead`). It takes that no
  listener is in the list twice (`Registered`), so that removing the first of
  its kind removes it (`RemoveFirstLeaves`), and that a listener subscribed once
  which may be called has not returned (`OnceLeft`).
* CommandRegistry: `LatestReached` (`LatestIsReached`); `CommandsAgree` relates
  the two maps, the editor's command and what was registered last.
* Keymaps: `KeysFireEvents` and `KeysCanBeAskedFor`, the part of `OthersStay`
  about keys; `KnownIsMapped` is what they need besides.
* LLMImport: `ImportWaitersAreTold` (`WaitersAreTold`); an import that is over
  has left its result or broke (`ResultIsKept`), and the event agrees with the
  thread (`ThreadAgrees`).
* StdoutProxy: `ProxyShowsPrinted`, a part of `OutputIsSeen`; shown and waiting
  messages, taken together, are in order, and with the lost ones are all
  (`Accounted`).
* Quickfix: `JumpsReachRecords` (`JumpsAreFresh`). That a jump reaches the last run
  needs that the records are of it whenever there are any (`RecordsAreLatest`),
  where VS Code keeps those of the last run that found something. That next and
  prev undo each other is arithmetic modulo the number of records
  (`StateInside` and the lemmas behind it).
* The kernels, in LLMTasks: `KernelsStay` and `KernelsAreNotNested`. Neither survives
  a step alone: the kernel of a folder is the deepest at or above it, so that it stays as long
  as none comes up below it, and none does because a folder that is served gets
  no kernel of its own (`PathsNest`, `ServingIs`, `OthersKeepTheirs`).
* Environments: `UvInProjects` and `LookupsFit`. `EnvInv` says that a cached answer is
  the one a search would give now, for folders whose way up is as it was read
  (`FilesAsRead`); for those `FoundAsIs` and `ReadsAsIs` have it that what is kept of a
  pyproject is what it says. `FindsWhatIsThere` is what the search gives, `ReadingKeeps`
  and `AskingKeeps` that reading and asking spoil no answer.
* Configuration: `ValuesAreKept` and `FolderIsThere`. A folder used today has the age
  of today (`ConfInv`), so that cleaning spares it; `NothingGoes`, `CopyKeeps` and
  their like say of each operation on folders which values it keeps.
* The tasks, in LLMTasks: `TaskInvariance`, and from it `QuestionsAreOfOne`,
  `ReferencesAreRead`, `QuotesFit` and `LanguageIsFound`. The collector writes
  description and markdown of a file one after the other while a thread reads
  them: `StoresAgree` says at which step of the collector they may differ,
  `TaskAgrees` what a task keeps of the document it was asked about, and
  `ReadingAgrees` that a task which read while nothing was collected has read
  the versions that are stored. A description that cannot be decoded ends the
  reading, which `ReadsWhatWasCollected` names.
* TerminalScreen: `ScreenIsSeen`. The flag that an update is scheduled is up exactly
  while the reader is about to start the timer or the timer waits, and there is
  one timer at most (`OneTimer`): otherwise the last output could wait for the next.
  `ScreenIsFed` (`ScreenIsTheProgrammes`): what the program wrote is what the
  emulator was fed, what the reader holds and what is not read yet, in this order
  (`FedInv`, `FeedsOn`), so that the screen is that of a beginning of it and nothing is
  skipped; `ReadToItsEnd`: the reader goes only when the program has ended. On Neovim
  it is fed lines put together again, and those are the text they were cut from
  (`JoinsTheCut`).
* JobOutput: `CommandOutputIsKept` (`LinesAreKept`, `BuffersHaveTheLines` and
  `FiledOnlyIfErrorsAreGone`). Lines are the written ones on Vim, and on Neovim as long
  as no piece ends inside of one; where lines break otherwise is left to TLC
  (`BreaksAreKept`). `Handed` says of each stream that the lines of the
  job, with what Vim keeps of a line, are those of the text read so far, cut at once
  and not piece by piece. The rest of a line is put behind the others only when the
  stream has ended, and what `Parts` drops on Neovim is empty (`PartsOfAPiece`).
  `Shown` says which buffers follow, and of the others that they have a beginning.
* Lines: what the two above need of folds over texts, by induction on their length
  (`FoldedConcat`: a text behind another is dealt with when the other has been). What
  comes behind a text changes the last of its lines only (`CutGoesOn`, `CutAfter`), no
  character but the breaks is lost (`CutKeepsTheText`).
* Of several components beside each other: `OthersAreKept` (`OthersStay`),
  `AnswersFit` (`AnswersAgree`), `OutputSeen` (`OutputIsSeen`) and `OutputKept`
  (`OutputIsKept`).

The assumptions are those the modules declare for their constants, and the
hypotheses named above.

The assumptions of constants say no more than what values there are; some are worth
naming. `TaskAssumption` has it that an empty document has no characters of any
kind, `OutAssumption` that who writes to a stream writes something, and
`LinesAssumption` that there is a character that breaks lines. `EnvAssumption` and
`KernelAssumption` let paths be of any depth.

Only model-checked: all liveness, which the prover cannot treat (`EveryTaskSettles`,
`EndedIsDelivered`, `PollersGo`, `EverythingIsCleaned`, `EndedIsFreed`,
`EveryTextIsWritten`, `QuestionsAreForgotten`), and these invariants of `MCEditor`:
`LinesAreRead`, `TextIsThere` and `WindowsStay`, with `MCTypeOK`, which has the types
of those parts. Besides some cases that need none, they are about what `FoldLeft` of
the library makes of a text or a set: the tokenizer, the arguments of a line, ranges,
reports, scripts, the status line, and what goes through TOML or to a terminal.
`WindowsStay` rests on it too: deduplicating and keeping one window close windows one
after another, each in the layout that the one before left. The library's fold takes its
step as an operator, and its theorems about induction over data take one, which the
provers cannot instantiate. Where a function on numbers or on texts was enough, in
Manuscript, TerminalInput and Lines, the induction is a proof about the set of numbers,
or of texts, at which a fact holds (`NatInduction1`, `SeqInduction1`); these modules
could be written so as well, at the price of steps that carry a record of several parts.

## Not modelled

* *Components*: timer tasks without an editor, user commands (one call each of
  what is modelled), developer tools and contexts, retired code under
  `src/MEMORY`, the input method helper in C++. PROJECT.json has the reasons.
* *Within components*: `cancel` of background work (a token the work may look
  at); jobs without an editor; `interrupt`; `on_start` hooks; `map` and `filter`
  of events; the location list, which repeats the quickfix list; selections,
  scrolling and cursors of windows; selectors; loggers; the wrappers that put
  words before a command; the wording of prompts; finding IPython's prompt on a
  screen; links to git hosts and the spelling of strings; pseudo terminals and
  the screen emulator, which are libraries.
* `dispose` and `dispose_all` of the kernel (`tools/llm/kernel.py:81-124`): nothing
  calls them. The first calls `.dispose()` on a function, the second holds a
  lock that is not reentrant while it calls the first.

Met while reading, and in the models as the code has it, but no property is about it:
`CharacterRange` is to turn round a range whose end is before its start, but the second
assignment reads what the first has changed, and the range becomes empty
(`shared/lib/text/__init__.py:33`, `MakeRange`).

Met while reading, and not in a model: a key in the configuration of the
workspace and in the other one raises where both are merged as keyword
arguments, though the comment above promises the near one
(`shared/pytoy_configuration/__init__.py:74`); the checker of spelling raises
where cspell exits with an error; the columns of later lines of a string of
several lines are offset by its first (`tools/cspell`); the last frame of a
traceback that ends at its "File" line raises IndexError
(`tools/python/__init__.py:34`).

Work that is left: proofs about Windows and VSCodeWindows; the links of `tools/git` and the
spelling of `tools/cspell` as pure functions; selections and cursors of windows.
