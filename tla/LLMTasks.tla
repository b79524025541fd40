------------------------------ MODULE LLMTasks ------------------------------
(***************************************************************************)
(* What a language model is told.  A question runs as a task: a sequence   *)
(* of invocations on a thread of its own, each given what the one before   *)
(* has put out.  An edit first finds the language and then composes its    *)
(* message, for which it reads the references; a review lets the model     *)
(* prepare it first; a voyage has one invocation.  The references are      *)
(* collected on the main thread, which writes file after file, in the      *)
(* meantime: every write empties its file first.  The wording of the       *)
(* messages is left out.  A version of a file stands for its content.      *)
(*                                                                         *)
(* The kernels, on which the tasks run, share no state with them           *)
(* (tools/llm/kernel.py): a document is served by the kernel of its folder *)
(* or of the nearest folder above that has one, and by a new one else.  A  *)
(* folder is the path to it.                                               *)
(***************************************************************************)
EXTENDS Integers, SequencesExt

CONSTANTS
    Files,          \* the files in the folder of the manuscript
    Convertible,    \* those of them that a converter is picked for
    Undecoded,      \* those whose description cannot be decoded as the editor reads by default
    Documents,      \* manuscripts: characters, those that are Japanese, patterns of Python
    MaxEdits,       \* a bound on the edits of files and of the manuscript
    MaxCollections, \* a bound on the collections
    MaxSize,        \* the size of the references behind which no more are read
    Folders         \* the folders of documents

VARIABLES
    source,     \* the version of each file, 0 where there is none
    infos,      \* the references' stored descriptions: of which version
    bodies,     \* the references' stored markdown
    dataset,    \* the files of the stored dataset, Torn while its files are written, or NoFile
    collector,  \* what the main thread collects: its step and the files it is through with
    document,   \* the manuscript
    task,       \* the task of the question
    messages,   \* the messages sent
    counts,     \* how many edits and collections there were
    overlap,    \* history: did a collection write while the task was reading?
    torn,       \* history: files whose description and markdown were stored apart
    kernels,    \* the folders with a kernel, as they came
    served      \* history: the kernel by which a folder was served first

taskVars == <<source, infos, bodies, dataset, collector, document, task, messages, counts, overlap, torn>>
kernelVars == <<kernels, served>>

NoFile == -1    \* a stored file that was never written
Torn   == -2    \* one that was emptied and is not written yet
Stored == {NoFile, Torn} \cup 1 .. MaxEdits + 1
NoSet  == {NoFile}  \* no dataset
Half   == {Torn}    \* a dataset that does not load

ASSUME TaskAssumption ==
    /\ Undecoded \subseteq Convertible /\ Convertible \subseteq Files /\ NoFile \notin Files /\ Torn \notin Files
    /\ Documents \subseteq [chars : Nat, japanese : Nat, hits : Nat, colon : {0, 1}]
    /\ \A d \in Documents : d.chars = 0 => d.japanese = 0 /\ d.hits = 0 /\ d.colon = 0
    /\ MaxEdits \in Nat

Rest     == [step |-> "rest", left |-> {}, file |-> NoFile, now |-> NoFile, done |-> {}]
NoTask   == [kind |-> "none", step |-> "none", asked |-> NoFile, language |-> "none",
             prepared |-> "none", left |-> {}, file |-> NoFile, info |-> NoFile, quoted |-> {}]
Ended    == {"none", "done", "failed"}

TaskInit ==
    /\ source    = [f \in Files |-> 1]
    /\ infos     = [f \in Files |-> NoFile]
    /\ bodies    = [f \in Files |-> NoFile]
    /\ dataset   = NoSet
    /\ collector = Rest
    /\ document \in Documents
    /\ task      = NoTask
    /\ messages  = <<>>
    /\ counts    = [edits |-> 0, collections |-> 0]
    /\ overlap   = FALSE
    /\ torn      = {}

stores == <<infos, bodies, dataset, collector, torn>>
asking   == <<task, messages>>

(***************************************************************************)
(* Meanwhile: the files and the manuscript are edited.                     *)
(***************************************************************************)
MayEdit == counts.edits < MaxEdits /\ counts' = [counts EXCEPT !.edits = @ + 1]

EditFile(f) ==
    /\ MayEdit
    /\ source' \in {[source EXCEPT ![f] = 0], [source EXCEPT ![f] = counts.edits + 2]}
    /\ UNCHANGED <<stores, asking, document, overlap>>

EditDocument ==
    /\ MayEdit
    /\ document' \in Documents \ {document}
    /\ UNCHANGED <<source, stores, asking, overlap>>

(***************************************************************************)
(* Collecting.  Of each file the description is stored, with the time of   *)
(* the file, and then its markdown; the dataset comes last.                *)
(***************************************************************************)
Reading == task.step \in {"exists", "usage", "data", "pick", "body"}

\* A step of the collector, which the task may read in the middle of.
Collecting(c) ==
    /\ collector' = c
    /\ overlap'   = (overlap \/ Reading)
    /\ UNCHANGED <<source, document, asking>>

Gather ==
    /\ collector.step = "rest" /\ counts.collections < MaxCollections
    /\ counts' = [counts EXCEPT !.collections = @ + 1]
    /\ Collecting([Rest EXCEPT !.step = "next", !.left = {f \in Files : source[f] > 0}])
    /\ UNCHANGED <<infos, bodies, dataset, torn>>

\* The next file; one that nothing converts is passed over.  A file that has gone
\* has no time, and the collection ends with the error.
NextFile ==
    /\ collector.step = "next"
    /\ \E f \in collector.left :
          IF f \notin Convertible
          THEN Collecting([collector EXCEPT !.left = @ \ {f}]) /\ UNCHANGED infos
          ELSE IF source[f] = 0
          THEN Collecting(Rest) /\ UNCHANGED infos
          ELSE /\ infos' = [infos EXCEPT ![f] = Torn]
               /\ Collecting([collector EXCEPT !.step = "info", !.left = @ \ {f}, !.file = f, !.now = source[f]])
    /\ UNCHANGED <<bodies, dataset, counts, torn>>

WriteInfo ==
    /\ collector.step = "info"
    /\ infos' = [infos EXCEPT ![collector.file] = collector.now]
    /\ torn'  = torn \cup {collector.file}
    /\ Collecting([collector EXCEPT !.step = "convert"])
    /\ UNCHANGED <<bodies, dataset, counts>>

\* The file is converted, as it is by now, which may fail; nothing of it is in
\* the dataset then that was not before.
Convert ==
    /\ collector.step = "convert"
    /\ \/ /\ source[collector.file] > 0
          /\ bodies' = [bodies EXCEPT ![collector.file] = Torn]
          /\ Collecting([collector EXCEPT !.step = "body", !.now = source[collector.file]])
       \/ Collecting(Rest) /\ UNCHANGED bodies
    /\ UNCHANGED <<infos, dataset, counts, torn>>

WriteBody ==
    /\ collector.step = "body"
    /\ LET f == collector.file
       IN  /\ bodies' = [bodies EXCEPT ![f] = collector.now]
           /\ torn'   = IF infos[f] = collector.now THEN torn \ {f} ELSE torn
           /\ Collecting([collector EXCEPT !.step = "next", !.done = @ \cup {f}, !.file = NoFile, !.now = NoFile])
    /\ UNCHANGED <<infos, dataset, counts>>

\* Slip: the dataset is written before the files it lists.
DumpDataset_First ==
    /\ \/ /\ collector.step = "next" /\ dataset # (collector.left \cup collector.done) \cap Convertible
          /\ dataset' = (collector.left \cup collector.done) \cap Convertible
          /\ Collecting(collector)
       \/ /\ collector.step = "next" /\ collector.left = {}
          /\ UNCHANGED dataset
          /\ Collecting(Rest)
    /\ UNCHANGED <<infos, bodies, counts, torn>>

DumpDataset ==
    /\ \/ /\ collector.step = "next" /\ collector.left = {}
          /\ dataset' = Half
          /\ Collecting([collector EXCEPT !.step = "dataset"])
       \/ /\ collector.step = "dataset"
          /\ dataset' = collector.done
          /\ Collecting(Rest)
    /\ UNCHANGED <<infos, bodies, counts, torn>>

Collect == Gather \/ NextFile \/ WriteInfo \/ Convert \/ WriteBody \/ DumpDataset

(***************************************************************************)
(* Messages.                                                               *)
(***************************************************************************)
MarkersLength == 50

\* The text that is sent for an edit has the selection in markers, each on a line
\* of its own: a selection that ends in a colon now ends a line.
Enclosed(d) == [d EXCEPT !.chars = @ + MarkersLength, !.hits = @ + d.colon]

\* select_language_kind
LanguageOf(d) ==
    IF d.chars = 0 THEN "english"
    ELSE IF d.hits >= 2 THEN "python"
    ELSE IF 100 * d.japanese > 15 * d.chars THEN "japanese"
    ELSE "english"

Rule(name, of)           == [rule |-> name, of |-> of]
LanguageRules(language)  == {Rule("language", language)}
StyleRules(language, by) == {Rule("style", language), Rule("uniformity", by)}
                            \cup IF by = "structure" THEN {Rule("components", language)} ELSE {}
CompletionRules(mode)    == {Rule("placeholders", mode), Rule("completion", mode)}
ContractRules            == {Rule("scope", "markers")}
DirectiveRules           == {Rule("directive", "markers")}

EditRules(language) ==
    LanguageRules(language) \cup ContractRules \cup StyleRules(language, "structure")
        \cup CompletionRules("conservative") \cup DirectiveRules

\* The reports of what a review was prepared with, which both of its modes have.
Reports(mode) == {Rule("analysis", mode), Rule("criteria", mode), Rule("mode", mode), Rule("baseline", mode)}

AssistRules    == Reports("editor_assist") \cup {Rule("rewrite", "editor_assist")}
PolishingRules == Reports("polishing") \cup {Rule("preserve", "polishing")}
ReviewRules(mode) == IF mode = "editor_assist" THEN AssistRules ELSE PolishingRules

PreparationRules == {Rule("criteria", "infer"), Rule("mode", "infer")}
EvolveRules      == {Rule("compass", "given"), Rule("policy", "given")}
ReflectRules     == {Rule("compass", "given")}

Message(rules, about, references) == [rules |-> rules, about |-> about, references |-> references]

(***************************************************************************)
(* Asking: the document is taken as it is then.                            *)
(***************************************************************************)
FirstStep(kind) ==
    CASE kind = "edit"   -> "language"
      [] kind = "review" -> "prepare"
      [] OTHER           -> "voyage"

AskModel(kind) ==
    /\ task.step \in Ended /\ messages = <<>>
    /\ task' = [NoTask EXCEPT !.kind = kind, !.step = FirstStep(kind), !.asked = document]
    /\ overlap' = FALSE
    /\ UNCHANGED <<source, stores, document, messages, counts>>

Going(t) == task' = t /\ UNCHANGED <<source, stores, document, counts>>

Send(m) == messages' = Append(messages, m)

\* The model's answer ends the task, or the next invocation is given it.
SelectLanguage ==
    /\ task.step = "language"
    /\ Going([task EXCEPT !.language = LanguageOf(Enclosed(task.asked)), !.step = "exists"])
    /\ overlap' = (collector.step # "rest")
    /\ UNCHANGED messages

Fails == Going([task EXCEPT !.step = "failed"]) /\ UNCHANGED <<messages, overlap>>

Loads == dataset \notin {NoSet, Half}

\* No dataset that can be read is as good as none.
Exists ==
    /\ task.step = "exists"
    /\ Going([task EXCEPT !.step = IF Loads THEN "usage" ELSE "compose"])
    /\ UNCHANGED <<messages, overlap>>

\* The dataset is loaded again, for the usage and for the data.
Load ==
    /\ task.step \in {"usage", "data"}
    /\ IF ~Loads THEN Fails
       ELSE /\ Going(IF task.step = "usage" THEN [task EXCEPT !.step = "data"]
                     ELSE [task EXCEPT !.step = "pick", !.left = dataset])
            /\ UNCHANGED <<messages, overlap>>

\* References are read in any order, until they are too many.  A description that
\* is not there or empty is an error, and so is one that was written as UTF-8, for the
\* name of its file, and does not decode in the encoding it is read in, the platform's
\* (section_writer.py:32; one that decodes to something else is taken as it is).
PickPair ==
    /\ task.step = "pick"
    /\ \/ /\ task.left = {} \/ Cardinality(task.quoted) > MaxSize
          /\ Going([task EXCEPT !.step = "compose", !.left = {}])
          /\ UNCHANGED <<messages, overlap>>
       \/ /\ Cardinality(task.quoted) <= MaxSize
          /\ \E f \in task.left :
                IF infos[f] < 0 \/ f \in Undecoded THEN Fails
                ELSE /\ Going([task EXCEPT !.step = "body", !.file = f, !.info = infos[f], !.left = @ \ {f}])
                     /\ UNCHANGED <<messages, overlap>>

\* An empty markdown is read as what it is.
ReadBody ==
    /\ task.step = "body"
    /\ IF bodies[task.file] = NoFile THEN Fails
       ELSE /\ Going([task EXCEPT !.step = "pick", !.file = NoFile, !.info = NoFile,
                  !.quoted = @ \cup {[file |-> task.file, info |-> task.info, body |-> bodies[task.file],
                                      apart |-> task.file \in torn]}])
            /\ UNCHANGED <<messages, overlap>>

Compose ==
    /\ task.step = "compose"
    /\ Send(Message(EditRules(task.language), task.asked, task.quoted))
    /\ Going([task EXCEPT !.step = "done"])
    /\ UNCHANGED overlap

\* What the model prepares has a mode; what has not the form asked for is an error.
Prepare ==
    /\ task.step = "prepare"
    /\ Send(Message(PreparationRules, task.asked, {}))
    /\ \E mode \in {"editor_assist", "polishing", "invalid"} :
          Going([task EXCEPT !.prepared = mode, !.step = IF mode = "invalid" THEN "failed" ELSE "review"])
    /\ UNCHANGED overlap

\* Slip: the review is of the buffer as it is by then.
Review_OfTheBuffer ==
    /\ task.step = "review"
    /\ Send(Message(ReviewRules(task.prepared), document, {}))
    /\ Going([task EXCEPT !.step = "done"])
    /\ UNCHANGED overlap

Review ==
    /\ task.step = "review"
    /\ Send(Message(ReviewRules(task.prepared), task.asked, {}))
    /\ Going([task EXCEPT !.step = "done"])
    /\ UNCHANGED overlap

Voyage ==
    /\ task.step = "voyage"
    /\ Send(Message(IF task.kind = "evolve" THEN EvolveRules ELSE ReflectRules, task.asked, {}))
    /\ Going([task EXCEPT !.step = "done"])
    /\ UNCHANGED overlap

TaskNext ==
    \/ \E f \in Files : EditFile(f)
    \/ EditDocument \/ Collect
    \/ \E kind \in {"edit", "review", "evolve", "reflect"} : AskModel(kind)
    \/ SelectLanguage \/ Exists \/ Load \/ PickPair \/ ReadBody \/ Compose
    \/ Prepare \/ Review \/ Voyage

TaskSpec == TaskInit /\ [][TaskNext]_taskVars

-----------------------------------------------------------------------------
(***************************************************************************)
(* The kernels.                                                            *)
(***************************************************************************)
NoKernel == <<"none">>

ASSUME KernelAssumption == Folders \subseteq Seq(STRING) /\ NoKernel \notin Folders

KernelInit == kernels = <<>> /\ served = [f \in Folders |-> NoKernel]

\* How deep the folders are, among the folder and those above it, that have a kernel.
Serving(folder) == {n \in 0 .. Len(folder) : SubSeq(folder, 1, n) \in ToSet(kernels)}

\* Slip: the search begins at the root.
KernelOf_Outermost(folder) ==
    IF Serving(folder) = {} THEN folder ELSE SubSeq(folder, 1, Min(Serving(folder)))

KernelOf(folder) ==
    IF Serving(folder) = {} THEN folder ELSE SubSeq(folder, 1, Max(Serving(folder)))

\* PytoyFairy: the workspace given, or the folder of the document.
Summon(folder) ==
    /\ kernels' = IF Serving(folder) = {} THEN Append(kernels, folder) ELSE kernels
    /\ served'  = [served EXCEPT ![folder] = IF @ = NoKernel THEN KernelOf(folder) ELSE @]

KernelNext == \E folder \in Folders : Summon(folder)

KernelSpec == KernelInit /\ [][KernelNext]_kernelVars

-----------------------------------------------------------------------------
(***************************************************************************)
(* Properties.                                                             *)
(***************************************************************************)
TaskTypeOK ==
    /\ source \in [Files -> 0 .. MaxEdits + 1]
    /\ infos \in [Files -> Stored] /\ bodies \in [Files -> Stored]
    /\ dataset \in {NoSet, Half} \cup SUBSET Convertible
    /\ collector.step \in {"rest", "next", "info", "convert", "body", "dataset"}
    /\ collector.left \subseteq Files /\ collector.done \subseteq Convertible
    /\ document \in Documents
    /\ task.step = "body" <=> task.file \in Files
    /\ Len(messages) <= 2
    /\ overlap \in BOOLEAN /\ torn \subseteq Convertible

\* Everything a question tells the model is about one document, the one it was
\* asked about, whatever becomes of the buffer.
OneDocument == \A k \in 1 .. Len(messages) : messages[k].about = task.asked

\* An edit fails over its references only when some were being collected as it
\* read them, or one it had still to read has a description that does not decode:
\* a collection that failed leaves what can be read.
ReadsWhatWasCollected ==
    task.kind = "edit" /\ task.step = "failed" => overlap \/ task.left \cap Undecoded # {}

\* Description and markdown of a reference are of one version, unless they were
\* being collected, or a collection had ended between the two.
QuotesAgree ==
    \A k \in 1 .. Len(messages) :
        overlap \/ \A q \in messages[k].references : q.info = q.body \/ q.apart

\* The markers of an edit cost a text its language only when it is within eight
\* characters of being no Japanese, or one sign short of being Python.
LanguageIsTheTexts ==
    LET d == task.asked
    IN  task.language = "none" \/ task.language = LanguageOf(d)
        \/ (LanguageOf(d) = "japanese" /\ 100 * (d.japanese - 8) <= 15 * d.chars)
        \/ (d.hits = 1 /\ d.colon = 1)

KernelTypeOK == ToSet(kernels) \subseteq Folders /\ \A f \in Folders : served[f] \in Folders \cup {NoKernel}

\* A folder is served by one kernel for good, so that the questions of its documents
\* and the references they go by stay together, whoever else is served meanwhile.
KernelStays == \A f \in Folders : served[f] # NoKernel => KernelOf(f) = served[f]

\* No kernel comes up below another: only one above a kernel that was there first.
NoneBelow == \A i, j \in 1 .. Len(kernels) : i < j => ~IsPrefix(kernels[i], kernels[j])

=============================================================================
