--------------------------- MODULE CommandRegistry ---------------------------
(***************************************************************************)
(* VimCommandAdapter (shared/command/app/impls/vim): Python functions      *)
(* registered as commands and as sub-commands of groups, and the command   *)
(* that the editor has under each name.  The decorators run once per       *)
(* function while modules are imported, and again when one is reloaded.    *)
(***************************************************************************)
CONSTANTS
    Names,          \* names of commands and groups, normalized
    SubCommands,    \* names of sub-commands
    Decorated,      \* the functions decorated
    Refused,        \* those of which CommandModel.from_callable raises
    NoFunction

VARIABLES
    commands,   \* COMMAND_MAPS
    groups,     \* GROUP_MAPS: per name <<>>, or one function from sub-commands
    editor,     \* the method that the editor's command of a name calls, or "none"
    latest      \* history: the function registered last under a name and sub-command ("" for none)

regVars == <<commands, groups, editor, latest>>

NoSubCommand == "(no sub-command)"
EmptyGroup   == [s \in SubCommands |-> NoFunction]

ASSUME NamesAssumption == NoSubCommand \notin SubCommands /\ NoFunction \notin Decorated

RegInit ==
    /\ commands = [n \in Names |-> NoFunction]
    /\ groups   = [n \in Names |-> <<>>]
    /\ editor   = [n \in Names |-> "none"]
    /\ latest   = [n \in Names |-> [s \in SubCommands \cup {NoSubCommand} |-> NoFunction]]

IsRegistered(n)       == commands[n] # NoFunction \/ groups[n] # <<>>
IsRegisteredSub(n, s) == groups[n] # <<>> /\ groups[n][1][s] # NoFunction

\* The model is made first: a function that is refused leaves nothing behind.
RegisterCommand_Unmodelled(n, f, existsOk) ==
    /\ existsOk \/ ~IsRegistered(n)
    /\ commands' = [commands EXCEPT ![n] = f]
    /\ editor'   = [editor EXCEPT ![n] = "execute_command"]
    /\ latest'   = [latest EXCEPT ![n][NoSubCommand] = f]
    /\ UNCHANGED groups
RegisterCommand(n, f, existsOk) ==
    /\ existsOk \/ ~IsRegistered(n)
    /\ f \notin Refused
    /\ commands' = [commands EXCEPT ![n] = f]
    /\ editor'   = [editor EXCEPT ![n] = "execute_command"]
    /\ latest'   = [latest EXCEPT ![n][NoSubCommand] = f]
    /\ UNCHANGED groups

\* The first sub-command of a group makes the group and its command, before the
\* model is made; the others, and those registered again, find the group there.
MakeGroup_Later(n, f) ==
    IF groups[n] = <<>> /\ f \notin Refused THEN [editor EXCEPT ![n] = "execute_group"] ELSE editor
MakeGroup(n, f) ==
    IF groups[n] = <<>> THEN [editor EXCEPT ![n] = "execute_group"] ELSE editor

RegisterGroup(n, s, f, existsOk) ==
    /\ existsOk \/ ~IsRegisteredSub(n, s)
    /\ editor' = MakeGroup(n, f)
    /\ LET subs == IF groups[n] = <<>> THEN EmptyGroup ELSE groups[n][1]
       IN  IF f \in Refused
           THEN groups' = [groups EXCEPT ![n] = <<subs>>] /\ UNCHANGED latest
           ELSE /\ groups' = [groups EXCEPT ![n] = <<[subs EXCEPT ![s] = f]>>]
                /\ latest' = [latest EXCEPT ![n][s] = f]
    /\ UNCHANGED commands

RegNext == \E n \in Names, f \in Decorated, existsOk \in BOOLEAN :
               \/ RegisterCommand(n, f, existsOk)
               \/ \E s \in SubCommands : RegisterGroup(n, s, f, existsOk)

RegSpec == RegInit /\ [][RegNext]_regVars

\* The function that a line of name n reaches, s its first word if n is a group.
ExecuteCommand(n)   == commands[n]
ExecuteGroup(n, s)  == IF IsRegisteredSub(n, s) THEN groups[n][1][s] ELSE NoFunction
Reached(n, s) ==
    CASE editor[n] = "execute_command" -> ExecuteCommand(n)
      [] editor[n] = "execute_group"   -> ExecuteGroup(n, s)
      [] OTHER                         -> NoFunction

------------------------------------------------------------------------------
(* Properties                                                               *)

RegTypeOK ==
    /\ commands \in [Names -> (Decorated \ Refused) \cup {NoFunction}]
    /\ groups   \in [Names -> {<<>>} \cup {<<g>> : g \in [SubCommands -> (Decorated \ Refused) \cup {NoFunction}]}]
    /\ editor   \in [Names -> {"none", "execute_command", "execute_group"}]
    /\ latest   \in [Names -> [SubCommands \cup {NoSubCommand} -> (Decorated \ Refused) \cup {NoFunction}]]

\* Whatever was refused or registered again before, a line of a name that is not
\* used both as a command and as a group reaches the function registered last.
LatestIsReached ==
    \A n \in Names :
        /\ groups[n] = <<>> => Reached(n, NoSubCommand) = latest[n][NoSubCommand]
        /\ commands[n] = NoFunction => \A s \in SubCommands : Reached(n, s) = latest[n][s]
==============================================================================
