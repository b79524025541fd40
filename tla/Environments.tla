---------------------------- MODULE Environments ----------------------------
(***************************************************************************)
(* The environment that a command runs in (job_execution/environment_      *)
(* manager): plainly, or by uv when uv is there and the folder is within a *)
(* project.  Folders are a path, 1 its root; each may hold a pyproject of  *)
(* a project or of a workspace of projects, or one that cannot be read,    *)
(* and a repository of git.  What the solver found for a folder, whether   *)
(* uv was found, and what a pyproject says are each cached for as long as  *)
(* the editor runs; what is cached of a pyproject is not what was found.   *)
(***************************************************************************)
EXTENDS Integers, FiniteSets

CONSTANTS Depth, MaxChanges   \* folders of the path; bound: changes of the files

ASSUME EnvAssumption == Depth \in Nat

VARIABLES
    project,    \* what each folder holds: "none", "plain", "workspace", "broken"
    loaded,     \* the cache of _load_pyproject: "unread", or what was read
    git,        \* folders with a repository
    uv,         \* whether uv is on the path or at home: "there" or "nowhere"
    installed,  \* _installed of the solver: "unknown", "yes", "no"
    workspaces, \* the cache of find_workspace: NotAsked, or the folder, 0 for none
    projects,   \* the cache of find_project
    preference, \* _execution_preference
    changes,    \* history: how often the files changed
    stale,      \* history: folders asked about before a file changed on their way up
    solved      \* history: the environment of the last command

envVars == <<project, loaded, git, uv, installed, workspaces, projects, preference, changes, stale, solved>>

Path  == 1..Depth
NotAsked == -1
Kinds    == {"none", "plain", "workspace", "broken"}
Nothing  == [pref |-> "auto", kind |-> "system", workspace |-> 0]

EnvInit ==
    /\ project \in [Path -> Kinds] /\ git \in {{}, {1}}
    /\ uv \in {"there", "nowhere"}
    /\ installed = "unknown" /\ preference = "auto"
    /\ loaded = [p \in Path |-> "unread"]
    /\ workspaces = [f \in Path |-> NotAsked] /\ projects = [f \in Path |-> NotAsked]
    /\ changes = 0 /\ stale = {} /\ solved = Nothing

Greatest(S) == IF S = {} THEN 0 ELSE CHOOSE x \in S : \A y \in S : y <= x
Least(S)    == IF S = {} THEN 0 ELSE CHOOSE x \in S : \A y \in S : x <= y

\* UVEnvironmentSolver.installed: it looks at the path, and once at home.
FindUv == IF installed # "unknown" THEN installed ELSE IF uv = "nowhere" THEN "no" ELSE "yes"

\* Whether there is a pyproject is asked each time, what it says only once.
Content(p) ==
    IF project[p] = "none" THEN "none" ELSE IF loaded[p] # "unread" THEN loaded[p] ELSE project[p]

\* The walk upwards ends at the first workspace, or raises at the first pyproject that
\* cannot be read; without either it ends with the project last met.
TurnsAt(f)   == Greatest({p \in 1..f : Content(p) \in {"workspace", "broken"}})
Unreadable(f) == TurnsAt(f) # 0 /\ Content(TurnsAt(f)) = "broken"
WorkspaceOf_First(f) == Greatest({p \in 1..f : Content(p) # "none"})
WorkspaceOf(f) == IF TurnsAt(f) # 0 THEN TurnsAt(f) ELSE Least({p \in 1..f : Content(p) # "none"})
ProjectOf(f) == Greatest({p \in 1..f : project[p] # "none"})

\* What the walk from f reads; what raises is not kept.
ReadUpTo(f) ==
    [p \in Path |-> IF p \in TurnsAt(f)..f /\ Content(p) \in {"plain", "workspace"} THEN Content(p) ELSE loaded[p]]

FindWorkspace(f) ==
    IF workspaces[f] # NotAsked THEN workspaces[f] ELSE IF FindUv = "no" THEN 0 ELSE WorkspaceOf(f)
FindProject(f) ==
    IF projects[f] # NotAsked THEN projects[f] ELSE IF FindUv = "no" THEN 0 ELSE ProjectOf(f)
FindGit(f) == Greatest({p \in 1..f : p \in git})

NeedsWalk(f) == workspaces[f] = NotAsked /\ FindUv = "yes"
WalkRaises(f) == NeedsWalk(f) /\ Unreadable(f)

\* find_workspace of the solver for uv, by its cache.
AskWorkspace(f) ==
    /\ loaded' = IF NeedsWalk(f) THEN ReadUpTo(f) ELSE loaded
    /\ workspaces' = IF WalkRaises(f) THEN workspaces ELSE [workspaces EXCEPT ![f] = FindWorkspace(f)]

\* _get_appropriate_solver: under "auto" uv is asked only where it is installed, under
\* "uv" always, under "system" never.
AskSolver(f, pref) ==
    /\ installed' = IF pref = "system" THEN installed ELSE FindUv
    /\ IF pref = "uv" \/ (pref = "auto" /\ FindUv = "yes") THEN AskWorkspace(f)
       ELSE UNCHANGED <<loaded, workspaces>>

\* solve_preference.  Who prefers uv gets it, also where there is none.
Solve(f, pref) ==
    IF pref = "uv" THEN [pref |-> pref, kind |-> "uv", workspace |-> FindWorkspace(f)]
    ELSE IF pref = "auto" /\ FindUv = "yes" /\ FindWorkspace(f) # 0
    THEN [pref |-> pref, kind |-> "uv", workspace |-> FindWorkspace(f)]
    ELSE [pref |-> pref, kind |-> "system", workspace |-> FindGit(f)]

SolvePreference(f, given) ==
    LET pref == IF given = "none" THEN preference ELSE given
    IN  /\ AskSolver(f, pref)
        /\ solved' = IF pref # "system" /\ WalkRaises(f) THEN solved ELSE Solve(f, pref)
        /\ UNCHANGED <<project, git, uv, projects, preference, changes, stale>>

\* PathResolver.to_workspace, as the tools ask for it.
ToWorkspace(f) ==
    /\ AskSolver(f, "auto")
    /\ UNCHANGED <<project, git, uv, projects, preference, changes, stale, solved>>

\* PathResolver.to_project: only the solver that has found a workspace is asked for a
\* project; git's has no cache.
AskProject(f) ==
    /\ AskSolver(f, "auto")
    /\ projects' = IF FindUv = "yes" /\ ~WalkRaises(f) /\ FindWorkspace(f) # 0
                   THEN [projects EXCEPT ![f] = FindProject(f)] ELSE projects
    /\ UNCHANGED <<project, git, uv, preference, changes, stale, solved>>

\* A manager of its own asks (commands/utils.py): only what is read is kept for all.
AskApart(f) ==
    /\ uv # "nowhere" /\ loaded' = ReadUpTo(f)
    /\ UNCHANGED <<project, git, uv, installed, workspaces, projects, preference, changes, stale, solved>>

SetPreference(p) ==
    /\ p # preference /\ preference' = p
    /\ UNCHANGED <<project, loaded, git, uv, installed, workspaces, projects, changes, stale, solved>>

FilesChange(f, kind) ==
    /\ changes < MaxChanges /\ kind # project[f]
    /\ changes' = changes + 1
    /\ project' = [project EXCEPT ![f] = kind]
    /\ stale' = stale \cup {g \in f..Depth : workspaces[g] # NotAsked \/ projects[g] # NotAsked}
    /\ UNCHANGED <<loaded, git, uv, installed, workspaces, projects, preference, solved>>

Preferences == {"auto", "uv", "system"}

EnvNext ==
    \/ \E f \in Path :
          \/ \E g \in Preferences \cup {"none"} : SolvePreference(f, g)
          \/ ToWorkspace(f) \/ AskProject(f) \/ AskApart(f)
          \/ \E k \in Kinds : FilesChange(f, k)
    \/ \E p \in Preferences : SetPreference(p)

EnvSpec == EnvInit /\ [][EnvNext]_envVars

------------------------------------------------------------------------------
(* Properties                                                               *)

EnvTypeOK ==
    /\ project \in [Path -> Kinds] /\ loaded \in [Path -> {"unread", "plain", "workspace"}]
    /\ git \subseteq Path /\ stale \subseteq Path
    /\ \A f \in Path : {workspaces[f], projects[f]} \subseteq {NotAsked, 0} \cup 1..f
    /\ installed \in {"unknown", "yes", "no"} /\ changes \in 0..MaxChanges

\* Nobody runs under uv where there is no project, but who prefers uv.
UvOnlyInProjects ==
    solved.kind = "uv" => solved.pref = "uv" \/ (uv # "nowhere" /\ solved.workspace # 0)

\* The files on the way up from f are those that were read: none was changed since f was
\* asked about, nor before, after another folder had made them be read.
FilesAsRead(f) ==
    f \notin stale /\ \A p \in 1..f : project[p] = "none" \/ loaded[p] \in {"unread", project[p]}

\* What was found for fresh folders fits together: whoever has a project has a workspace,
\* at the project or above it, and every command below a workspace of uv runs at its root,
\* whichever folder it was asked for.  For folders whose files changed after they were
\* read, by this folder or by one beside it, it need not (uv_environment.py:47-92).
LookupsAgree ==
    \A f, g \in {h \in Path : FilesAsRead(h)} :
        /\ projects[f] # NotAsked => 0 < workspaces[f] /\ workspaces[f] <= projects[f]
        /\ f <= g /\ workspaces[f] > 0 /\ workspaces[g] > 0 =>
               workspaces[f] = workspaces[g] \/ project[workspaces[g]] = "workspace"
=============================================================================
