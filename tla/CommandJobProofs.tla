--------------------------- MODULE CommandJobProofs ---------------------------
(***************************************************************************)
(* Proofs about CommandJob, for any jobs, kinds and number of lines, on    *)
(* Vim and on Neovim.                                                      *)
(***************************************************************************)
EXTENDS CommandJob, TLAPS

USE DEF output, wiring, manager, history

\* Nothing was done for a job that was never started.
Untouched ==
    \A j \in Jobs : proc[j] \in {"none", "failed"} =>
        /\ j \notin executions \cup attached \cup appending \cup cleanups
        /\ written[j] = 0 /\ unread[j] = 0 /\ captured[j] = 0 /\ shown[j] = 0

\* Until the exit of a job is reported its functions are there, all its
\* listeners are subscribed, and no hook was called.
Wired ==
    \A j \in Jobs : proc[j] \in {"running", "exited"} =>
        /\ j \in executions /\ j \in functions /\ j \notin cleanups
        /\ listeners[j] = Parts

\* The lines written were read or wait, except those that met no function.
LinesAddUp ==
    \A j \in Jobs :
        /\ shown[j] <= captured[j]
        /\ captured[j] + unread[j] <= written[j]
        /\ j \in functions => captured[j] + unread[j] = written[j]

\* The listeners still to be called are the last ones, and those called before
\* them have done their work.
InTurn ==
    /\ firing.job = None => firing = Idle
    /\ firing # Idle =>
          /\ firing.job \in Jobs /\ proc[firing.job] = "reported"
          /\ \A p, q \in Parts :
                p \in firing.todo /\ Subscribed[p] < Subscribed[q] => q \in firing.todo
          /\ firing.inHooks => "hooks" \in firing.todo /\ "runner" \notin firing.todo
          /\ "runner" \notin firing.todo => firing.job \notin appending
          /\ "deregister" \notin firing.todo => firing.job \notin executions
          /\ shown[firing.job] <= result[firing.job]
          /\ editor = "nvim" => result[firing.job] = written[firing.job]

\* Hooks are called after the exit was reported and the runner has let go.
HooksAreLate ==
    \A j \in Jobs : hooked[j] > 0 => proc[j] = "reported" /\ j \notin appending

IInv == /\ TypeOK
        /\ Untouched
        /\ Wired
        /\ LinesAddUp
        /\ InTurn
        /\ HooksAreLate
        /\ HooksKnowTheLines
        /\ FiledWhileItRuns

\* The invariant holds in the initial states.
LEMMA InitHolds == Init => IInv
BY NoneAssumption, EditorsAssumption, LinesAssumption
   DEF Init, IInv, TypeOK, Untouched, Wired, LinesAddUp, InTurn, HooksAreLate,
       HooksKnowTheLines, FiledWhileItRuns, Idle, Parts

\* A job that starts was untouched: it is filed and wired whole, its kind is free.
LEMMA RunKeeps ==
    ASSUME IInv, NEW j \in Jobs, NEW k \in Kinds, Run(j, k)
    PROVE  IInv'
<1>. USE NoneAssumption DEF IInv, Run, Execute, MainFree, OfKind, Idle
<1>1. TypeOK'
  BY DEF TypeOK, Parts
<1>2. Untouched'
  BY DEF TypeOK, Untouched, InTurn
<1>3. Wired'
  BY DEF TypeOK, Untouched, Wired, InTurn, Parts
<1>4. LinesAddUp'
  BY DEF TypeOK, Untouched, LinesAddUp
<1>5. InTurn'
  BY DEF TypeOK, InTurn, Parts
<1>6. HooksAreLate'
  BY DEF TypeOK, InTurn, HooksAreLate
<1>7. HooksKnowTheLines'
  BY DEF TypeOK, InTurn, HooksAreLate, HooksKnowTheLines
<1>8. FiledWhileItRuns'
  BY DEF TypeOK, Untouched, Wired, InTurn, FiledWhileItRuns
<1>. QED  BY <1>1, <1>2, <1>3, <1>4, <1>5, <1>6, <1>7, <1>8

\* A rerun may meet an execution of its kind, and is on record as a rerun.
LEMMA RerunKeeps ==
    ASSUME IInv, NEW j \in Jobs, NEW k \in Kinds, Rerun(j, k)
    PROVE  IInv'
<1>. USE NoneAssumption DEF IInv, Rerun, Execute, MainFree, Idle
<1>1. TypeOK'
  BY DEF TypeOK, Parts
<1>2. Untouched'
  BY DEF TypeOK, Untouched, InTurn
<1>3. Wired'
  BY DEF TypeOK, Untouched, Wired, InTurn, Parts
<1>4. LinesAddUp'
  BY DEF TypeOK, Untouched, LinesAddUp
<1>5. InTurn'
  BY DEF TypeOK, InTurn, Parts
<1>6. HooksAreLate'
  BY DEF TypeOK, InTurn, HooksAreLate
<1>7. HooksKnowTheLines'
  BY DEF TypeOK, InTurn, HooksAreLate, HooksKnowTheLines
<1>8. FiledWhileItRuns'
  BY DEF TypeOK, Untouched, Wired, InTurn, FiledWhileItRuns
<1>. QED  BY <1>1, <1>2, <1>3, <1>4, <1>5, <1>6, <1>7, <1>8

\* A job that cannot start leaves nothing but its functions.
LEMMA SpawnFailsKeeps ==
    ASSUME IInv, NEW j \in Jobs, NEW k \in Kinds, SpawnFails(j, k)
    PROVE  IInv'
<1>. USE NoneAssumption DEF IInv, SpawnFails, MainFree, Idle
<1>1. TypeOK'
  BY DEF TypeOK
<1>2. Untouched'
  BY DEF TypeOK, Untouched, InTurn
<1>3. Wired'
  BY DEF TypeOK, Untouched, Wired, InTurn
<1>4. LinesAddUp'
  BY DEF TypeOK, Untouched, LinesAddUp
<1>5. InTurn'
  BY DEF TypeOK, InTurn, Parts
<1>6. HooksAreLate'
  BY DEF TypeOK, InTurn, HooksAreLate
<1>7. HooksKnowTheLines'
  BY DEF TypeOK, InTurn, HooksAreLate, HooksKnowTheLines
<1>8. FiledWhileItRuns'
  BY DEF TypeOK, Untouched, Wired, InTurn, FiledWhileItRuns
<1>. QED  BY <1>1, <1>2, <1>3, <1>4, <1>5, <1>6, <1>7, <1>8

\* stop ends processes that are filed, and nothing else.
LEMMA StopKeeps ==
    ASSUME IInv, NEW k \in Kinds, Stop(k)
    PROVE  IInv'
<1>. USE NoneAssumption DEF IInv, Stop, MainFree, OfKind, Idle
<1>1. TypeOK'
  BY DEF TypeOK
<1>2. Untouched'
  BY DEF TypeOK, Untouched, InTurn
<1>3. Wired'
  BY DEF TypeOK, Untouched, Wired, InTurn
<1>4. LinesAddUp'
  BY DEF TypeOK, Untouched, LinesAddUp
<1>5. InTurn'
  BY DEF TypeOK, InTurn, Parts
<1>6. HooksAreLate'
  BY DEF TypeOK, InTurn, HooksAreLate
<1>7. HooksKnowTheLines'
  BY DEF TypeOK, InTurn, HooksAreLate, HooksKnowTheLines
<1>8. FiledWhileItRuns'
  BY DEF TypeOK, Untouched, Wired, InTurn, FiledWhileItRuns
<1>. QED  BY <1>1, <1>2, <1>3, <1>4, <1>5, <1>6, <1>7, <1>8

\* Lines written wait to be read.
LEMMA WriteKeeps ==
    ASSUME IInv, NEW j \in Jobs, Write(j)
    PROVE  IInv'
<1>. USE NoneAssumption DEF IInv, Write, Idle
<1>1. TypeOK'
  <2>1. written[j] \in 0 .. MaxLines /\ unread[j] \in 0 .. MaxLines /\ captured[j] \in 0 .. MaxLines
    BY DEF TypeOK
  <2>2. written[j] + 1 \in 0 .. MaxLines /\ unread[j] + 1 \in 0 .. MaxLines
    BY <2>1, LinesAssumption DEF LinesAddUp
  <2>. QED  BY <2>2 DEF TypeOK
<1>2. Untouched'
  BY DEF TypeOK, Untouched, InTurn
<1>3. Wired'
  BY DEF TypeOK, Untouched, Wired, InTurn
<1>4. LinesAddUp'
  BY DEF TypeOK, Untouched, LinesAddUp
<1>5. InTurn'
  BY DEF TypeOK, InTurn, Parts
<1>6. HooksAreLate'
  BY DEF TypeOK, InTurn, HooksAreLate
<1>7. HooksKnowTheLines'
  BY DEF TypeOK, InTurn, HooksAreLate, HooksKnowTheLines
<1>8. FiledWhileItRuns'
  BY DEF TypeOK, Untouched, Wired, InTurn, FiledWhileItRuns
<1>. QED  BY <1>1, <1>2, <1>3, <1>4, <1>5, <1>6, <1>7, <1>8

\* A process that ends is still filed and wired: its exit is not reported yet.
LEMMA ExitKeeps ==
    ASSUME IInv, NEW j \in Jobs, Exit(j)
    PROVE  IInv'
<1>. USE NoneAssumption DEF IInv, Exit, Idle
<1>1. TypeOK'
  BY DEF TypeOK
<1>2. Untouched'
  BY DEF TypeOK, Untouched, InTurn
<1>3. Wired'
  BY DEF TypeOK, Untouched, Wired, InTurn
<1>4. LinesAddUp'
  BY DEF TypeOK, Untouched, LinesAddUp
<1>5. InTurn'
  BY DEF TypeOK, InTurn, Parts
<1>6. HooksAreLate'
  BY DEF TypeOK, InTurn, HooksAreLate
<1>7. HooksKnowTheLines'
  BY DEF TypeOK, InTurn, HooksAreLate, HooksKnowTheLines
<1>8. FiledWhileItRuns'
  BY DEF TypeOK, Untouched, Wired, InTurn, FiledWhileItRuns
<1>. QED  BY <1>1, <1>2, <1>3, <1>4, <1>5, <1>6, <1>7, <1>8

\* A wiped buffer shows no more lines than before.
LEMMA WipeKeeps ==
    ASSUME IInv, NEW j \in Jobs, Wipe(j)
    PROVE  IInv'
<1>. USE NoneAssumption DEF IInv, Wipe, MainFree, Idle
<1>1. TypeOK'
  BY DEF TypeOK
<1>2. Untouched'
  BY DEF TypeOK, Untouched, InTurn
<1>3. Wired'
  BY DEF TypeOK, Untouched, Wired, InTurn
<1>4. LinesAddUp'
  BY DEF TypeOK, Untouched, LinesAddUp
<1>5. InTurn'
  BY DEF TypeOK, InTurn, Parts
<1>6. HooksAreLate'
  BY DEF TypeOK, InTurn, HooksAreLate
<1>7. HooksKnowTheLines'
  BY DEF TypeOK, InTurn, HooksAreLate, HooksKnowTheLines
<1>8. FiledWhileItRuns'
  BY DEF TypeOK, Untouched, Wired, InTurn, FiledWhileItRuns
<1>. QED  BY <1>1, <1>2, <1>3, <1>4, <1>5, <1>6, <1>7, <1>8

\* A line is counted once, in the output and in the buffer.
LEMMA ReadKeeps ==
    ASSUME IInv, NEW j \in Jobs, Read(j)
    PROVE  IInv'
<1>. USE NoneAssumption DEF IInv, Read, Idle
<1>1. TypeOK'
  <2>1. /\ written[j] \in 0 .. MaxLines /\ unread[j] \in 0 .. MaxLines
        /\ captured[j] \in 0 .. MaxLines /\ shown[j] \in 0 .. MaxLines
    BY DEF TypeOK
  <2>2. /\ unread[j] - 1 \in 0 .. MaxLines /\ captured[j] + 1 \in 0 .. MaxLines
        /\ shown[j] + 1 \in 0 .. MaxLines
    BY <2>1, LinesAssumption DEF LinesAddUp
  <2>. QED  BY <2>2 DEF TypeOK
<1>2. Untouched'
  BY DEF TypeOK, Untouched, InTurn
<1>3. Wired'
  BY DEF TypeOK, Untouched, Wired, InTurn
<1>4. LinesAddUp'
  <2>. SUFFICES ASSUME NEW i \in Jobs
                PROVE  /\ shown'[i] <= captured'[i]
                       /\ captured'[i] + unread'[i] <= written'[i]
                       /\ i \in functions' => captured'[i] + unread'[i] = written'[i]
    BY DEF LinesAddUp
  <2>1. /\ written[i] \in Nat /\ unread[i] \in Nat /\ captured[i] \in Nat /\ shown[i] \in Nat
        /\ written' = written /\ functions' = functions
    BY DEF TypeOK
  <2>2. CASE i # j
    <3>1. unread'[i] = unread[i] /\ captured'[i] = captured[i] /\ shown'[i] = shown[i]
      BY <2>2 DEF TypeOK
    <3>. QED  BY <2>1, <3>1 DEF LinesAddUp
  <2>3. CASE i = j
    <3>1. /\ unread'[i] = unread[i] - 1
          /\ captured'[i] = (IF i \in functions THEN captured[i] + 1 ELSE captured[i])
          /\ shown'[i] = (IF i \in functions \cap appending THEN shown[i] + 1 ELSE shown[i])
      BY <2>3 DEF TypeOK
    <3>. QED  BY <2>1, <3>1 DEF LinesAddUp
  <2>. QED  BY <2>2, <2>3
<1>5. InTurn'
  BY DEF TypeOK, InTurn, Parts
<1>6. HooksAreLate'
  BY DEF TypeOK, InTurn, HooksAreLate
<1>7. HooksKnowTheLines'
  BY DEF TypeOK, InTurn, HooksAreLate, HooksKnowTheLines
<1>8. FiledWhileItRuns'
  BY DEF TypeOK, Untouched, Wired, InTurn, FiledWhileItRuns
<1>. QED  BY <1>1, <1>2, <1>3, <1>4, <1>5, <1>6, <1>7, <1>8

\* The snapshot is taken before any listener is called, and all of them are to be called.
LEMMA EmitExitKeeps ==
    ASSUME IInv, NEW j \in Jobs, EmitExit(j)
    PROVE  IInv'
<1>. USE NoneAssumption DEF IInv, EmitExit, Idle
<1>1. TypeOK'
  BY DEF TypeOK, Parts
<1>2. Untouched'
  BY DEF TypeOK, Untouched, InTurn, Parts
<1>3. Wired'
  BY DEF TypeOK, Untouched, Wired, InTurn, Parts
<1>4. LinesAddUp'
  BY DEF TypeOK, Untouched, LinesAddUp, Parts
<1>5. InTurn'
  BY DEF TypeOK, InTurn, Wired, LinesAddUp, Untouched, Parts
<1>6. HooksAreLate'
  BY DEF TypeOK, InTurn, HooksAreLate, Parts
<1>7. HooksKnowTheLines'
  BY DEF TypeOK, InTurn, HooksAreLate, HooksKnowTheLines, Wired, LinesAddUp, Parts
<1>8. FiledWhileItRuns'
  BY DEF TypeOK, Untouched, Wired, InTurn, FiledWhileItRuns, Parts
<1>. QED  BY <1>1, <1>2, <1>3, <1>4, <1>5, <1>6, <1>7, <1>8

\* Functions go after the exit was reported: what is read later is lost to all alike.
LEMMA CleanupKeeps ==
    ASSUME IInv, NEW j \in Jobs, Cleanup(j)
    PROVE  IInv'
<1>. USE NoneAssumption DEF IInv, Cleanup, Idle
<1>1. TypeOK'
  BY DEF TypeOK
<1>2. Untouched'
  BY DEF TypeOK, Untouched, InTurn
<1>3. Wired'
  BY DEF TypeOK, Untouched, Wired, InTurn
<1>4. LinesAddUp'
  BY DEF TypeOK, Untouched, LinesAddUp
<1>5. InTurn'
  BY DEF TypeOK, InTurn, Parts
<1>6. HooksAreLate'
  BY DEF TypeOK, InTurn, HooksAreLate
<1>7. HooksKnowTheLines'
  BY DEF TypeOK, InTurn, HooksAreLate, HooksKnowTheLines
<1>8. FiledWhileItRuns'
  BY DEF TypeOK, Untouched, Wired, InTurn, FiledWhileItRuns
<1>. QED  BY <1>1, <1>2, <1>3, <1>4, <1>5, <1>6, <1>7, <1>8

\* The first listener to be called schedules the cleanup of a job whose exit was reported.
LEMMA ScheduleCleanupKeeps ==
    ASSUME IInv, ScheduleCleanup
    PROVE  IInv'
<1>. USE NoneAssumption DEF IInv, ScheduleCleanup, Turn, Called, Idle
<1>1. TypeOK'
  <2>1. firing.job \in Jobs
    BY DEF InTurn
  <2>. QED  BY <2>1 DEF TypeOK
<1>2. Untouched'
  BY DEF TypeOK, Untouched, InTurn, Parts
<1>3. Wired'
  BY DEF TypeOK, Untouched, Wired, InTurn, Parts
<1>4. LinesAddUp'
  BY DEF TypeOK, Untouched, LinesAddUp, Parts
<1>5. InTurn'
  BY DEF TypeOK, InTurn, Parts, Subscribed
<1>6. HooksAreLate'
  BY DEF TypeOK, InTurn, HooksAreLate, Parts, Subscribed
<1>7. HooksKnowTheLines'
  BY DEF TypeOK, InTurn, HooksAreLate, HooksKnowTheLines, Parts, Subscribed
<1>8. FiledWhileItRuns'
  BY DEF TypeOK, Untouched, Wired, InTurn, FiledWhileItRuns, Parts, Subscribed
<1>. QED  BY <1>1, <1>2, <1>3, <1>4, <1>5, <1>6, <1>7, <1>8

\* The second lets the runner go, before the hooks are called.
LEMMA DisposeJobKeeps ==
    ASSUME IInv, DisposeJob
    PROVE  IInv'
<1>. USE NoneAssumption DEF IInv, DisposeJob, Turn, Called, Idle
<1>1. TypeOK'
  <2>1. firing.job \in Jobs
    BY DEF InTurn
  <2>. QED  BY <2>1 DEF TypeOK
<1>2. Untouched'
  BY DEF TypeOK, Untouched, InTurn, Parts
<1>3. Wired'
  BY DEF TypeOK, Untouched, Wired, InTurn, Parts
<1>4. LinesAddUp'
  BY DEF TypeOK, Untouched, LinesAddUp, Parts
<1>5. InTurn'
  BY DEF TypeOK, InTurn, Parts, Subscribed
<1>6. HooksAreLate'
  BY DEF TypeOK, InTurn, HooksAreLate, Parts, Subscribed
<1>7. HooksKnowTheLines'
  BY DEF TypeOK, InTurn, HooksAreLate, HooksKnowTheLines, Parts, Subscribed
<1>8. FiledWhileItRuns'
  BY DEF TypeOK, Untouched, Wired, InTurn, FiledWhileItRuns, Parts, Subscribed
<1>. QED  BY <1>1, <1>2, <1>3, <1>4, <1>5, <1>6, <1>7, <1>8

\* The hooks are called with what the buffer shows, which does not grow any more.
LEMMA CallHooksKeeps ==
    ASSUME IInv, CallHooks
    PROVE  IInv'
<1>. USE NoneAssumption DEF IInv, CallHooks, Turn, Idle
<1>1. TypeOK'
  <2>1. firing.job \in Jobs
    BY DEF InTurn
  <2>2. hooked' \in [Jobs -> Nat]
    BY <2>1 DEF TypeOK
  <2>3. firing' \in [job : Jobs \cup {None}, todo : SUBSET Parts, inHooks : BOOLEAN]
    <3>1. firing' = [firing EXCEPT !.inHooks = TRUE]
      OBVIOUS
    <3>. QED  BY <3>1 DEF TypeOK
  <2>4. UNCHANGED <<editor, proc, kind, output, wiring, manager, result, rerun, raised>>
    OBVIOUS
  <2>. QED  BY <2>2, <2>3, <2>4 DEF TypeOK
<1>2. Untouched'
  BY DEF TypeOK, Untouched, InTurn, Parts
<1>3. Wired'
  BY DEF TypeOK, Untouched, Wired, InTurn, Parts
<1>4. LinesAddUp'
  BY DEF TypeOK, Untouched, LinesAddUp, Parts
<1>5. InTurn'
  BY DEF TypeOK, InTurn, Parts, Subscribed
<1>6. HooksAreLate'
  BY DEF TypeOK, InTurn, HooksAreLate, Parts, Subscribed
<1>7. HooksKnowTheLines'
  BY DEF TypeOK, InTurn, HooksAreLate, HooksKnowTheLines, Parts, Subscribed
<1>8. FiledWhileItRuns'
  BY DEF TypeOK, Untouched, Wired, InTurn, FiledWhileItRuns, Parts, Subscribed
<1>. QED  BY <1>1, <1>2, <1>3, <1>4, <1>5, <1>6, <1>7, <1>8

\* The last listener takes the execution out of the files.
LEMMA DeregisterKeeps ==
    ASSUME IInv, Deregister
    PROVE  IInv'
<1>. USE NoneAssumption DEF IInv, Deregister, Turn, Called, Idle
<1>1. TypeOK'
  <2>1. firing.job \in Jobs
    BY DEF InTurn
  <2>. QED  BY <2>1 DEF TypeOK
<1>2. Untouched'
  BY DEF TypeOK, Untouched, InTurn, Parts
<1>3. Wired'
  BY DEF TypeOK, Untouched, Wired, InTurn, Parts
<1>4. LinesAddUp'
  BY DEF TypeOK, Untouched, LinesAddUp, Parts
<1>5. InTurn'
  BY DEF TypeOK, InTurn, Parts, Subscribed
<1>6. HooksAreLate'
  BY DEF TypeOK, InTurn, HooksAreLate, Parts, Subscribed
<1>7. HooksKnowTheLines'
  BY DEF TypeOK, InTurn, HooksAreLate, HooksKnowTheLines, Parts, Subscribed
<1>8. FiledWhileItRuns'
  BY DEF TypeOK, Untouched, Wired, InTurn, FiledWhileItRuns, Parts, Subscribed
<1>. QED  BY <1>1, <1>2, <1>3, <1>4, <1>5, <1>6, <1>7, <1>8

\* After the last listener the execution is not filed any more.
LEMMA EndOfWalkKeeps ==
    ASSUME IInv, EndOfWalk
    PROVE  IInv'
<1>. USE NoneAssumption DEF IInv, EndOfWalk, Idle
<1>1. TypeOK'
  BY DEF TypeOK
<1>2. Untouched'
  BY DEF TypeOK, Untouched, InTurn
<1>3. Wired'
  BY DEF TypeOK, Untouched, Wired, InTurn
<1>4. LinesAddUp'
  BY DEF TypeOK, Untouched, LinesAddUp
<1>5. InTurn'
  BY DEF TypeOK, InTurn, Parts
<1>6. HooksAreLate'
  BY DEF TypeOK, InTurn, HooksAreLate
<1>7. HooksKnowTheLines'
  BY DEF TypeOK, InTurn, HooksAreLate, HooksKnowTheLines
<1>8. FiledWhileItRuns'
  BY DEF TypeOK, Untouched, Wired, InTurn, FiledWhileItRuns
<1>. QED  BY <1>1, <1>2, <1>3, <1>4, <1>5, <1>6, <1>7, <1>8

\* After the hooks there is only the manager to be called.
LEMMA HooksReturnKeeps ==
    ASSUME IInv, HooksReturn
    PROVE  IInv'
<1>. USE NoneAssumption DEF IInv, HooksReturn, Called, Idle
<1>1. TypeOK'
  BY DEF TypeOK
<1>2. Untouched'
  BY DEF TypeOK, Untouched, InTurn
<1>3. Wired'
  BY DEF TypeOK, Untouched, Wired, InTurn
<1>4. LinesAddUp'
  BY DEF TypeOK, Untouched, LinesAddUp
<1>5. InTurn'
  <2>1. firing # Idle /\ firing.job \in Jobs
    BY DEF InTurn
  <2>2. /\ firing'.job = firing.job /\ ~firing'.inHooks
        /\ firing'.todo = firing.todo \ {"hooks"}
    BY DEF TypeOK
  <2>3. ASSUME NEW p \in Parts, NEW q \in Parts,
               p \in firing'.todo, Subscribed[p] < Subscribed[q]
        PROVE  q \in firing'.todo
    BY <2>1, <2>2, <2>3 DEF InTurn, Subscribed, Parts
  <2>. QED  BY <2>1, <2>2, <2>3, NoneAssumption DEF InTurn
<1>6. HooksAreLate'
  BY DEF TypeOK, InTurn, HooksAreLate
<1>7. HooksKnowTheLines'
  BY DEF TypeOK, InTurn, HooksAreLate, HooksKnowTheLines
<1>8. FiledWhileItRuns'
  BY DEF TypeOK, Untouched, Wired, InTurn, FiledWhileItRuns
<1>. QED  BY <1>1, <1>2, <1>3, <1>4, <1>5, <1>6, <1>7, <1>8

\* The execution of a hook that raises stays filed, and is on record.
LEMMA HookRaisesKeeps ==
    ASSUME IInv, HookRaises
    PROVE  IInv'
<1>. USE NoneAssumption DEF IInv, HookRaises, Idle
<1>1. TypeOK'
  <2>1. firing.job \in Jobs
    BY DEF InTurn
  <2>2. firing' \in [job : Jobs \cup {None}, todo : SUBSET Parts, inHooks : BOOLEAN]
    BY DEF TypeOK, Parts
  <2>. QED  BY <2>1, <2>2 DEF TypeOK
<1>2. Untouched'
  BY DEF TypeOK, Untouched, InTurn
<1>3. Wired'
  BY DEF TypeOK, Untouched, Wired, InTurn
<1>4. LinesAddUp'
  BY DEF TypeOK, Untouched, LinesAddUp
<1>5. InTurn'
  BY DEF TypeOK, InTurn, Parts
<1>6. HooksAreLate'
  BY DEF TypeOK, InTurn, HooksAreLate
<1>7. HooksKnowTheLines'
  BY DEF TypeOK, InTurn, HooksAreLate, HooksKnowTheLines
<1>8. FiledWhileItRuns'
  BY DEF TypeOK, Untouched, Wired, InTurn, FiledWhileItRuns
<1>. QED  BY <1>1, <1>2, <1>3, <1>4, <1>5, <1>6, <1>7, <1>8

-----------------------------------------------------------------------------
\* The invariant holds in every reachable state.
THEOREM Invariance == Spec => []IInv
<1>1. ASSUME IInv, [Next]_vars PROVE IInv'
  <2>1. ASSUME NEW j \in Jobs, NEW k \in Kinds, Run(j, k) \/ Rerun(j, k) \/ SpawnFails(j, k)
        PROVE  IInv'
    BY <1>1, <2>1, RunKeeps, RerunKeeps, SpawnFailsKeeps
  <2>2. ASSUME NEW k \in Kinds, Stop(k) PROVE IInv'
    BY <1>1, <2>2, StopKeeps
  <2>3. ASSUME NEW j \in Jobs, Write(j) \/ Exit(j) \/ Wipe(j) \/ Read(j) PROVE IInv'
    BY <1>1, <2>3, WriteKeeps, ExitKeeps, WipeKeeps, ReadKeeps
  <2>4. ASSUME NEW j \in Jobs, EmitExit(j) \/ Cleanup(j) PROVE IInv'
    BY <1>1, <2>4, EmitExitKeeps, CleanupKeeps
  <2>5. CASE Walk
    BY <1>1, <2>5, ScheduleCleanupKeeps, DisposeJobKeeps, CallHooksKeeps, DeregisterKeeps,
       EndOfWalkKeeps DEF Walk
  <2>6. CASE HooksReturn \/ HookRaises
    BY <1>1, <2>6, HooksReturnKeeps, HookRaisesKeeps
  <2>7. CASE UNCHANGED vars
    BY <1>1, <2>7
    DEF vars, IInv, TypeOK, Untouched, Wired, LinesAddUp, InTurn, HooksAreLate,
        HooksKnowTheLines, FiledWhileItRuns
  <2>. QED  BY <1>1, <2>1, <2>2, <2>3, <2>4, <2>5, <2>6, <2>7 DEF Next
<1>. QED  BY InitHolds, <1>1, PTL DEF Spec

\* TypeOK holds in every reachable state.
THEOREM TypeCorrect == Spec => []TypeOK
<1>1. IInv => TypeOK
  BY DEF IInv
<1>. QED  BY <1>1, Invariance, PTL

\* Whatever hooks do, a process that runs is filed, and what is filed runs or is
\* being dealt with unless its hook raised: FiledWhileItRuns holds in every
\* reachable state.
THEOREM RunsAreFiled == Spec => []FiledWhileItRuns
<1>1. IInv => FiledWhileItRuns
  BY DEF IInv
<1>. QED  BY <1>1, Invariance, PTL

\* However reads, wiped buffers and exits interleave, the hooks are given every
\* line the buffer shows: HooksKnowTheLines holds in every reachable state.
THEOREM ResultsAreWhole == Spec => []HooksKnowTheLines
<1>1. IInv => HooksKnowTheLines
  BY DEF IInv
<1>. QED  BY <1>1, Invariance, PTL

===============================================================================
