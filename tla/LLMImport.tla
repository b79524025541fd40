------------------------------ MODULE LLMImport ------------------------------
(***************************************************************************)
(* LLMImportResolver (bootstrap/import_resolvers.py): the libraries of the *)
(* LLM are imported in a thread that gives the start of the plugin a       *)
(* moment; who needs them waits for it, or imports when no thread was      *)
(* started.  An import may fail, with an ImportError, which is kept, or    *)
(* with anything else, which ends its thread.                              *)
(***************************************************************************)
EXTENDS FiniteSets

CONSTANTS Callers   \* threads that call ensure_import

VARIABLES
    done,       \* _import_done: "none", "made" or "set"
    capacity,   \* _moratorium_event
    imported,   \* _imported
    failure,    \* _import_error: "none" or "kept"
    thread,     \* the background thread: "none", "waits", "imports", "ended"
    asks,       \* each caller: "idle", "waits", "imports", "returned" or "raised"
    broke       \* history: an import ended in something other than an ImportError

importVars == <<done, capacity, imported, failure, thread, asks, broke>>

ImportInit ==
    /\ done = "none" /\ capacity = FALSE /\ imported = FALSE /\ failure = "none"
    /\ thread = "none" /\ asks = [c \in Callers |-> "idle"] /\ broke = FALSE

ImportBackground ==
    /\ done = "none"
    /\ done' = "made" /\ thread' = "waits"
    /\ UNCHANGED <<capacity, imported, failure, asks, broke>>

NotifyCapacity ==
    /\ ~capacity /\ capacity' = TRUE
    /\ UNCHANGED <<done, imported, failure, thread, asks, broke>>

\* The wait ends by the event or by its timeout.
EndMoratorium ==
    /\ thread = "waits" /\ thread' = "imports"
    /\ UNCHANGED <<done, capacity, imported, failure, asks, broke>>

\* _naive_import.
NaiveImport(result) ==
    CASE result = "imported" -> imported' = TRUE /\ UNCHANGED <<failure, broke>>
      [] result = "failed"   -> failure' = "kept" /\ UNCHANGED <<imported, broke>>
      [] result = "broke"    -> broke' = TRUE /\ UNCHANGED <<imported, failure>>
Results == {"imported", "failed", "broke"}

\* However the import ends, those who wait are told.
EndBackground_NotWhenBroken(result) ==
    /\ thread = "imports"
    /\ NaiveImport(result)
    /\ thread' = "ended" /\ done' = IF result = "broke" THEN done ELSE "set"
    /\ UNCHANGED <<capacity, asks>>
EndBackground(result) ==
    /\ thread = "imports"
    /\ NaiveImport(result)
    /\ thread' = "ended" /\ done' = "set"
    /\ UNCHANGED <<capacity, asks>>

Ask(c) ==
    /\ asks[c] \in {"idle", "returned", "raised"}
    /\ asks' = [asks EXCEPT ![c] = IF imported THEN "returned"
                                   ELSE IF done = "none" THEN "imports" ELSE "waits"]
    /\ UNCHANGED <<done, capacity, imported, failure, thread, broke>>

WaitIsOver(c) ==
    /\ asks[c] = "waits" /\ done = "set"
    /\ asks' = [asks EXCEPT ![c] = IF failure = "kept" THEN "raised" ELSE "returned"]
    /\ UNCHANGED <<done, capacity, imported, failure, thread, broke>>

\* An error that is kept is raised also when this import succeeded.
EndForeground(c, result) ==
    /\ asks[c] = "imports"
    /\ NaiveImport(result)
    /\ asks' = [asks EXCEPT ![c] = IF result = "broke" \/ failure' = "kept" THEN "raised" ELSE "returned"]
    /\ UNCHANGED <<done, capacity, thread>>

ImportNext ==
    \/ ImportBackground \/ NotifyCapacity \/ EndMoratorium
    \/ \E r \in Results : EndBackground(r)
    \/ \E c \in Callers : Ask(c) \/ WaitIsOver(c) \/ \E r \in Results : EndForeground(c, r)

ImportSpec == ImportInit /\ [][ImportNext]_importVars

------------------------------------------------------------------------------
(* Properties                                                               *)

ImportTypeOK ==
    /\ done \in {"none", "made", "set"} /\ failure \in {"none", "kept"}
    /\ thread \in {"none", "waits", "imports", "ended"}
    /\ asks \in [Callers -> {"idle", "waits", "imports", "returned", "raised"}]

\* Who was told that the libraries are there can use them, unless the import in
\* the thread ended in something that is no ImportError, which nobody hears of.
ToldTheTruth ==
    ~broke => \A c \in Callers : asks[c] = "returned" => imported

\* Nobody waits for a thread that has ended or was never started.
NobodyIsForgotten ==
    \A c \in Callers : asks[c] = "waits" =>
        \/ thread \in {"waits", "imports"} /\ done = "made"
        \/ done = "set"

\* Who waits for the import has a thread to wait for and is told the truth.
WaitersAreTold == NobodyIsForgotten /\ ToldTheTruth
==============================================================================
