---------------------------- MODULE Configuration ----------------------------
(***************************************************************************)
(* PytoyConfiguration: the files that are kept for a workspace and for all *)
(* of them.  Those of a workspace lie in a folder of the project, if there *)
(* is one, or else in a centralized folder, which is named after the path  *)
(* of the folder it stands for and goes when it was long unused.           *)
(*                                                                         *)
(* One file of JSON, with a few keys, stands for the files of a folder.    *)
(* Reading (read_json_dict) changes nothing and is left out.               *)
(***************************************************************************)
EXTENDS Integers

CONSTANTS
    Entries,    \* the keys of the dictionary
    MaxValues,  \* a bound on the values written
    MaxDays     \* a bound on the days that pass

VARIABLES
    disk,       \* of each folder: is it there, what its file and its origin.txt are
    config,     \* the configuration made last, for the workspace
    values,     \* how many values were written
    days,       \* how many days have passed
    made,       \* history: the day the configuration was made
    replaced    \* history: the values written over, or gone with an unused folder

confVars == <<disk, config, values, days, made, replaced>>

(***************************************************************************)
(* The folders: the project's, the centralized ones of the workspace, of   *)
(* the project's folder and of the workspace's centralized folder, and the *)
(* "project" folder inside of the latter.                                  *)
(***************************************************************************)
Central == {"ofWorkspace", "ofProject", "ofCentral"}
Local   == Central \cup {"project", "inCentral"}
Places == Local \cup {"global"}

\* _solve_local_folder for a project, and get_centralized_folder.
ProjectFolder     == [workspace |-> "project", project |-> "project", ofWorkspace |-> "inCentral"]
CentralizedFolder == [workspace |-> "ofWorkspace", project |-> "ofProject", ofWorkspace |-> "ofCentral"]

NoEntry   == [k \in Entries |-> 0]
Absent    == [kind |-> "absent", at |-> NoEntry]
BlankFile == [kind |-> "blank", at |-> NoEntry]
Dict(at)  == [kind |-> "dict", at |-> at]
NoOrigin  == -1
Missing   == [there |-> FALSE, dict |-> Absent, origin |-> NoOrigin]
NoConfig  == [type |-> "none", folder |-> "none"]

ConfInit ==
    /\ disk     \in {[f \in Places |-> [Missing EXCEPT !.there = f \in there]] :
                        there \in {{"global"}, {"global", "project"}}}
    /\ config   = NoConfig
    /\ values   = 0
    /\ days     = 0
    /\ made     = 0
    /\ replaced = {}

ValuesIn(dict) == {dict.at[k] : k \in Entries} \ {0}

(***************************************************************************)
(* Making a configuration.                                                 *)
(***************************************************************************)
\* Slip: a folder that is there already keeps its date.
Touched_New(d, folder) ==
    [d EXCEPT ![folder].there = TRUE, ![folder].origin = IF @ = NoOrigin THEN days ELSE @]

\* A centralized folder is made, and dated, whenever it is looked for.
Touched(d, folder) == [d EXCEPT ![folder].there = TRUE, ![folder].origin = days]

\* Without a type it is the project's folder if there is one.
TypeFor(wanted) ==
    IF wanted # "auto" THEN wanted ELSE IF disk["project"].there THEN "project" ELSE "centralized"

Make(wanted) ==
    /\ LET type == TypeFor(wanted)
       IN  IF type = "project"
           THEN config' = [type |-> type, folder |-> "project"] /\ UNCHANGED disk
           ELSE /\ config' = [type |-> type, folder |-> CentralizedFolder["workspace"]]
                /\ disk'   = Touched(disk, "ofWorkspace")
    /\ made' = days
    /\ UNCHANGED <<values, days, replaced>>

Made     == config # NoConfig
FolderOf(place) == IF place = "local" THEN config.folder ELSE "global"

(***************************************************************************)
(* Writing.                                                                *)
(***************************************************************************)
\* assure_json_dict: the folder is made; a file that is there stays as it is.
AssureDict(place, k) ==
    /\ Made /\ values < MaxValues
    /\ LET f == FolderOf(place)
       IN  IF disk[f].dict # Absent
           THEN disk' = [disk EXCEPT ![f].there = TRUE] /\ UNCHANGED values
           ELSE /\ values' = values + 1
                /\ disk'   = [disk EXCEPT ![f].there = TRUE, ![f].dict = Dict([NoEntry EXCEPT ![k] = values'])]
    /\ UNCHANGED <<config, days, made, replaced>>

\* The user writes into a file by hand, or empties it.
UserWrites(f) ==
    /\ values < MaxValues /\ disk[f].dict # Absent
    /\ values' = values + 1
    /\ \E dict \in {BlankFile} \cup {Dict([disk[f].dict.at EXCEPT ![k] = values']) : k \in Entries} :
          /\ disk' = [disk EXCEPT ![f].dict = dict]
          /\ replaced' = replaced \cup (ValuesIn(disk[f].dict) \ ValuesIn(dict))
                                  \cup ({values'} \ ValuesIn(dict))
    /\ UNCHANGED <<config, days, made>>

\* get_folder, as it is called for a log: the folder is made.
GetFolder(place) ==
    /\ Made
    /\ disk' = [disk EXCEPT ![FolderOf(place)].there = TRUE]
    /\ UNCHANGED <<config, values, days, made, replaced>>

(***************************************************************************)
(* Moving a workspace's files to and fro, and cleaning.                    *)
(***************************************************************************)
Removed(d, f) ==
    [g \in Places |-> IF g = f \/ (f = "ofWorkspace" /\ g = "inCentral") THEN Missing ELSE d[g]]

\* Slip: what is there is not written over, but its source goes all the same.
MergeCopy_Keeps(d, from, to) ==
    [d EXCEPT ![to].there = TRUE,
              ![to].dict = IF @ = Absent THEN d[from].dict ELSE @]

\* _merge_copy: files go over those that are there, with the time they have.
MergeCopy(d, from, to) ==
    [d EXCEPT ![to].there = TRUE,
              ![to].dict = IF d[from].dict = Absent THEN @ ELSE d[from].dict,
              ![to].origin = IF d[from].origin = NoOrigin THEN @ ELSE d[from].origin]

Copy(d, from, to, remove) ==
    LET copied == MergeCopy(d, from, to)
    IN  /\ disk' = IF remove THEN Removed(copied, from) ELSE copied
        /\ replaced' = IF d[from].dict = Absent THEN replaced
                       ELSE replaced \cup (ValuesIn(d[to].dict) \ ValuesIn(d[from].dict))

\* Both are of the folder that the configuration has, not of the workspace: the
\* folder of a centralized one is taken for a project.
Fetch(remove) ==
    /\ Made
    /\ LET from == CentralizedFolder[config.folder]
       IN  Copy(Touched(disk, from), from, ProjectFolder[config.folder], remove)
    /\ UNCHANGED <<config, values, days, made>>

MoveLocal(remove) ==
    /\ Made
    /\ LET from == ProjectFolder[config.folder]
           to   == CentralizedFolder[config.folder]
       IN  disk[from].there /\ Copy(Touched(disk, to), from, to, remove)
    /\ UNCHANGED <<config, values, days, made>>

DayPasses ==
    /\ days < MaxDays
    /\ days' = days + 1
    /\ UNCHANGED <<disk, config, values, made, replaced>>

\* clean_locals: centralized folders with no origin.txt, or an old one, go.
Expired == {f \in Central : disk[f].there /\ (disk[f].origin = NoOrigin \/ days > disk[f].origin)}

CleanLocals ==
    /\ disk' = [g \in Places |-> IF g \in Expired \/ (g = "inCentral" /\ "ofWorkspace" \in Expired)
                                  THEN Missing ELSE disk[g]]
    /\ replaced' = replaced \cup UNION {ValuesIn(disk[g].dict) \ ValuesIn(disk'[g].dict) : g \in Places}
    /\ UNCHANGED <<config, values, days, made>>

ConfNext ==
    \/ \E wanted \in {"auto", "project", "centralized"} : Make(wanted)
    \/ \E place \in {"local", "global"} : GetFolder(place) \/ \E k \in Entries : AssureDict(place, k)
    \/ \E f \in Places : UserWrites(f)
    \/ \E remove \in BOOLEAN : Fetch(remove) \/ MoveLocal(remove)
    \/ DayPasses \/ CleanLocals

ConfSpec == ConfInit /\ [][ConfNext]_confVars

-----------------------------------------------------------------------------
(***************************************************************************)
(* Properties.                                                             *)
(***************************************************************************)
ConfTypeOK ==
    /\ \A f \in Places :
          /\ disk[f].there \in BOOLEAN
          /\ disk[f].dict.kind \in {"absent", "blank", "dict"}
          /\ disk[f].dict.at \in [Entries -> 0 .. MaxValues]
          /\ disk[f].origin \in {NoOrigin} \cup 0 .. days
          /\ ~disk[f].there => disk[f] = Missing
    /\ config.folder \in {"none", "project", "ofWorkspace"}
    /\ values \in 0 .. MaxValues /\ days \in 0 .. MaxDays /\ made \in 0 .. days
    /\ replaced \subseteq 1 .. values

\* Whatever is fetched, moved and cleaned, in whatever order, a value that was
\* written is in a folder unless one was written over it or its folder expired.
NothingIsLost ==
    1 .. values \subseteq replaced \cup UNION {ValuesIn(disk[f].dict) : f \in Places}

\* The folder of a configuration is there on the day it was made.
FolderOfTheDay == config.type = "centralized" /\ made = days => disk["ofWorkspace"].there

=============================================================================
