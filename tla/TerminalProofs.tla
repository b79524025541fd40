---------------------------- MODULE TerminalProofs ----------------------------
(***************************************************************************)
(* Proofs about Terminal, for any jobs, buffers, editors and recursion     *)
(* limit.                                                                  *)
(***************************************************************************)
EXTENDS Terminal, TLAPS

USE DEF process, wiring, history

\* The main thread has this step before it.
Pending(step) == Contains(main.todo, step)

\* What has been done for a job was done for one that began; a runner holds only
\* jobs that are filed.
Untouched ==
    /\ attached \subseteq executions
    /\ \A j \in Jobs : hooked[j] > 0 => Begun(j)
    /\ main # Idle => Begun(main.job)

\* The listeners of a job are all there, or none, or the manager's; while a
\* runner holds the job its own come first.  On Vim a job that knows its process
\* has some.
Wired ==
    \A j \in Jobs :
        /\ listeners[j] \in {<<>>, <<"deregister">>, Subscribed}
        /\ j \in attached => listeners[j] # <<"deregister">>
        /\ editor = "vim" /\ j \in handle => listeners[j] # <<>>

\* A buffer is answered with one terminal.
OnePerBuffer ==
    \A i, j \in executions : buffer[i] = buffer[j] => i = j

\* Wherever hooks or a deregistration wait, the runner lets go of the job before.
ReleasedFirst ==
    \A k \in 1 .. Len(main.todo) : main.todo[k] \in {"hooks", "deregister"} =>
        \/ main.job \notin attached
        \/ \E i \in 1 .. (k - 1) : main.todo[i] \in {"runner", "release"}

\* An exit is fired only for a process that has ended or was told to.
StoppedFirst ==
    Pending("fire") \/ Pending("deregister") =>
        proc[main.job] # "running" \/ main.job \in asked

\* On Neovim the exit is fired once, when it is reported.
FiredOnce ==
    editor = "nvim" =>
        /\ \A j \in Jobs : hooked[j] > 0 => proc[j] = "reported"
        /\ \A k \in 1 .. Len(main.todo) : main.todo[k] \in {"fire", "hooks"} =>
              /\ proc[main.job] = "reported" /\ hooked[main.job] = 0
              /\ \A i \in 1 .. Len(main.todo) : main.todo[i] \in {"fire", "hooks"} => i = k

\* The main thread will come to take the job out.
WillDeregister(j) ==
    /\ main # Idle /\ main.job = j
    /\ Pending("deregister") \/ (Head(main.todo) = "fire" /\ listeners[j] # <<>>)

\* The job was disposed of, or is to be.
Disposed(j) == j \in cleanups \/ (main # Idle /\ main.job = j /\ Pending("dispose"))

\* Before its exit is reported, a job that is filed is disposed of only on Vim,
\* and only when it is to be taken out, too.
FiledUntilDisposed ==
    \A j \in Jobs : proc[j] # "reported" =>
        /\ editor # "vim" => ~Disposed(j)
        /\ editor = "vim" /\ j \in executions \ cut /\ (j \notin handle \/ Disposed(j)) =>
              WillDeregister(j)

IInv ==
    /\ TypeOK
    /\ Untouched
    /\ Wired
    /\ OnePerBuffer
    /\ ReleasedFirst
    /\ StoppedFirst
    /\ FiredOnce
    /\ FiledUntilDisposed
    /\ UnfiledIsStopped
    /\ HooksComeAfterRelease
    /\ ExitIsHeard


-----------------------------------------------------------------------------
(***************************************************************************)
(* The stack of the main thread.                                           *)
(***************************************************************************)

\* In a state of the right types the main thread is idle with nothing to do, or
\* works on a job.
LEMMA MainIsTyped ==
    ASSUME TypeOK
    PROVE  /\ main = Idle => main.todo = <<>> /\ Len(main.todo) = 0
           /\ main # Idle => /\ main.job \in Jobs /\ main.todo \in Seq(Steps)
                             /\ main.todo # <<>> /\ Len(main.todo) \in Nat \ {0}
                             /\ Head(main.todo) = main.todo[1]
                             /\ Head(main.todo) \in Steps
<1>1. main = Idle => main.todo = <<>> /\ Len(main.todo) = 0
  BY DEF Idle
<1>2. ASSUME main # Idle
      PROVE  main.job \in Jobs /\ main.todo \in Seq(Steps) /\ main.todo # <<>>
  BY <1>2 DEF TypeOK
<1>3. ASSUME main # Idle
      PROVE  Len(main.todo) \in Nat \ {0} /\ Head(main.todo) = main.todo[1]
             /\ Head(main.todo) \in Steps
  <2>1. main.todo \in Seq(Steps) /\ main.todo # <<>>
    BY <1>3, <1>2
  <2>. QED  BY <2>1
<1>. QED  BY <1>1, <1>2, <1>3

\* What the main thread has to do when the first step makes way for calls: the
\* calls, and then the rest.
LEMMA ThenStack ==
    ASSUME TypeOK, main # Idle, NEW calls \in Seq(Steps), Then(calls)
    PROVE  /\ main' = Idle \/ main' \in [job : Jobs, todo : Seq(Steps) \ {<<>>}]
           /\ main' # Idle => main'.job = main.job
           /\ Len(main'.todo) = Len(calls) + Len(main.todo) - 1
           /\ \A k \in 1 .. Len(calls) : main'.todo[k] = calls[k]
           /\ \A k \in 2 .. Len(main.todo) : main'.todo[Len(calls) + k - 1] = main.todo[k]
           /\ \A k \in 1 .. Len(main'.todo) : k > Len(calls) =>
                  main'.todo[k] = main.todo[k - Len(calls) + 1]
<1>1. main.job \in Jobs /\ main.todo \in Seq(Steps) /\ main.todo # <<>>
  BY MainIsTyped
<1>. DEFINE todo == calls \o Tail(main.todo)
<1>2. Tail(main.todo) \in Seq(Steps) /\ Len(Tail(main.todo)) = Len(main.todo) - 1
      /\ \A k \in 1 .. Len(main.todo) - 1 : Tail(main.todo)[k] = main.todo[k + 1]
  BY <1>1
<1>3. /\ todo \in Seq(Steps)
      /\ Len(todo) = Len(calls) + Len(main.todo) - 1
      /\ \A k \in 1 .. Len(calls) : todo[k] = calls[k]
      /\ \A k \in 1 .. Len(todo) : k > Len(calls) => todo[k] = main.todo[k - Len(calls) + 1]
  BY <1>1, <1>2
<1>4. main' = IF todo = <<>> THEN Idle ELSE [main EXCEPT !.todo = todo]
  BY DEF Then
<1>5. main \in [job : Jobs, todo : Seq(Steps) \ {<<>>}]
  BY DEF TypeOK
<1>. HIDE DEF todo
<1>6. main'.todo = todo /\ (main' # Idle => main' = [main EXCEPT !.todo = todo] /\ todo # <<>>)
  BY <1>4, <1>5 DEF Idle
<1>7. main' = Idle \/ main' \in [job : Jobs, todo : Seq(Steps) \ {<<>>}]
  BY <1>3, <1>5, <1>6
<1>8. main' # Idle => main'.job = main.job
  BY <1>5, <1>6
<1>9. ASSUME NEW k \in 2 .. Len(main.todo)
      PROVE  todo[Len(calls) + k - 1] = main.todo[k]
  <2>. Len(calls) \in Nat /\ Len(main.todo) \in Nat
    BY <1>1
  <2>. DEFINE i == Len(calls) + k - 1
  <2>. i \in 1 .. Len(todo) /\ i > Len(calls) /\ i - Len(calls) + 1 = k
    BY <1>3
  <2>. QED  BY <1>3
<1>. QED
  BY <1>3, <1>6, <1>7, <1>8, <1>9

\* A step is pending then if it is among the calls or was pending behind the first.
LEMMA ThenPending ==
    ASSUME TypeOK, main # Idle, NEW calls \in Seq(Steps), Then(calls), NEW step
    PROVE  /\ Contains(calls, step) => Pending(step)'
           /\ Pending(step) /\ Head(main.todo) # step => Pending(step)'
           /\ Pending(step)' => Contains(calls, step) \/ Pending(step)
<1>. DEFINE n == Len(calls)
            m == Len(main.todo)
<1>1. n \in Nat /\ m \in Nat \ {0} /\ Head(main.todo) = main.todo[1]
  BY MainIsTyped
<1>2. /\ Len(main'.todo) = n + m - 1
      /\ \A k \in 1 .. n : main'.todo[k] = calls[k]
      /\ \A k \in 2 .. m : main'.todo[n + k - 1] = main.todo[k]
      /\ \A k \in 1 .. Len(main'.todo) : k > n => main'.todo[k] = main.todo[k - n + 1]
  BY ThenStack
<1>. HIDE DEF n, m
<1>3. ASSUME Contains(calls, step)  PROVE Pending(step)'
  BY <1>1, <1>2, <1>3 DEF Pending, Contains, n
<1>4. ASSUME Pending(step), Head(main.todo) # step  PROVE Pending(step)'
  <2>1. PICK k \in 2 .. m : main.todo[k] = step
    BY <1>1, <1>4 DEF Pending, Contains, m
  <2>2. n + k - 1 \in 1 .. Len(main'.todo) /\ main'.todo[n + k - 1] = step
    BY <1>1, <1>2, <2>1
  <2>. QED  BY <2>2 DEF Pending, Contains
<1>5. ASSUME Pending(step)'  PROVE Contains(calls, step) \/ Pending(step)
  <2>1. PICK k \in 1 .. Len(main'.todo) : main'.todo[k] = step
    BY <1>5 DEF Pending, Contains
  <2>2. CASE k <= n
    BY <1>1, <1>2, <2>1, <2>2 DEF Contains, n
  <2>3. CASE k > n
    <3>1. k - n + 1 \in 1 .. m
      BY <1>1, <1>2, <2>3
    <3>2. main.todo[k - n + 1] = step
      BY <1>2, <2>1, <2>3
    <3>. QED  BY <3>1, <3>2 DEF Pending, Contains, m
  <2>. QED  BY <1>1, <1>2, <2>2, <2>3
<1>. QED  BY <1>3, <1>4, <1>5

\* ReleasedFirst survives calls that bring a release with their hooks, and in the
\* place of a release.
LEMMA ThenReleased ==
    ASSUME TypeOK, main # Idle, NEW calls \in Seq(Steps), Then(calls),
           ReleasedFirst, attached' \subseteq attached,
           Head(main.todo) \in {"runner", "release"} =>
               main.job \notin attached' \/ Contains(calls, "release"),
           \A k \in 1 .. Len(calls) : calls[k] \in {"hooks", "deregister"} =>
               main.job \notin attached' \/ (calls[1] = "runner" /\ k > 1)
    PROVE  ReleasedFirst'
<1>. DEFINE n == Len(calls)
            m == Len(main.todo)
<1>1. n \in Nat /\ m \in Nat \ {0} /\ Head(main.todo) = main.todo[1]
  BY MainIsTyped
<1>2. /\ Len(main'.todo) = n + m - 1
      /\ main' # Idle => main'.job = main.job
      /\ \A k \in 1 .. n : main'.todo[k] = calls[k]
      /\ \A k \in 2 .. m : main'.todo[n + k - 1] = main.todo[k]
      /\ \A k \in 1 .. Len(main'.todo) : k > n => main'.todo[k] = main.todo[k - n + 1]
  BY ThenStack
<1>3. main' = Idle => Len(main'.todo) = 0
  BY DEF Idle
<1>. SUFFICES ASSUME NEW k \in 1 .. Len(main'.todo),
                     main'.todo[k] \in {"hooks", "deregister"},
                     main.job \in attached'
              PROVE  \E i \in 1 .. (k - 1) : main'.todo[i] \in {"runner", "release"}
  BY <1>1, <1>2, <1>3 DEF ReleasedFirst
<1>4. CASE k <= n
  BY <1>1, <1>2, <1>4
<1>5. CASE k > n
  <2>. DEFINE l == k - n + 1
  <2>1. l \in 2 .. m /\ l - 1 = k - n /\ main.todo[l] \in {"hooks", "deregister"}
    BY <1>1, <1>2, <1>5
  <2>. HIDE DEF l
  <2>2. PICK i \in 1 .. (k - n) : main.todo[i] \in {"runner", "release"}
    <3>1. l \in 1 .. Len(main.todo) /\ main.job \in attached
      BY <1>1, <2>1 DEF m
    <3>. QED  BY <2>1, <3>1 DEF ReleasedFirst
  <2>3. CASE i = 1
    <3>1. PICK h \in 1 .. n : calls[h] = "release"
      BY <1>1, <2>2, <2>3 DEF Contains
    <3>2. h \in 1 .. (k - 1) /\ main'.todo[h] = "release"
      BY <1>1, <1>2, <1>5, <3>1
    <3>. QED  BY <3>2
  <2>4. CASE i > 1
    <3>1. n + i - 1 \in 1 .. (k - 1) /\ i \in 2 .. m
      BY <1>1, <1>5, <2>1, <2>2, <2>4
    <3>2. main'.todo[n + i - 1] = main.todo[i]
      BY <1>2, <3>1
    <3>. QED  BY <2>2, <3>1, <3>2
  <2>. QED  BY <2>3, <2>4
<1>. QED  BY <1>1, <1>2, <1>4, <1>5

\* FiredOnce survives calls that fire nothing, and one listener's hooks in the
\* place of the exit that is fired.
LEMMA ThenFired ==
    ASSUME TypeOK, main # Idle, NEW calls \in Seq(Steps), Then(calls), FiredOnce,
           editor' = editor, proc' = proc, hooked' = hooked,
           editor = "nvim" => \A k \in 1 .. Len(calls) : calls[k] \in {"fire", "hooks"} =>
               /\ Head(main.todo) = "fire"
               /\ \A i \in 1 .. Len(calls) : calls[i] \in {"fire", "hooks"} => i = k
    PROVE  FiredOnce'
<1>. DEFINE n == Len(calls)
            m == Len(main.todo)
            last == {"fire", "hooks"}
<1>1. n \in Nat /\ m \in Nat \ {0} /\ Head(main.todo) = main.todo[1]
  BY MainIsTyped
<1>2. /\ Len(main'.todo) = n + m - 1
      /\ main' # Idle => main'.job = main.job
      /\ \A k \in 1 .. n : main'.todo[k] = calls[k]
      /\ \A k \in 1 .. Len(main'.todo) : k > n => main'.todo[k] = main.todo[k - n + 1]
  BY ThenStack
<1>3. main' = Idle => Len(main'.todo) = 0
  BY DEF Idle
<1>. SUFFICES ASSUME editor = "nvim",
                     NEW k \in 1 .. Len(main'.todo), main'.todo[k] \in last
              PROVE  /\ proc[main.job] = "reported" /\ hooked[main.job] = 0
                     /\ \A i \in 1 .. Len(main'.todo) : main'.todo[i] \in last => i = k
  BY <1>1, <1>2, <1>3 DEF FiredOnce
<1>. DEFINE was(i) == IF i > n THEN i - n + 1 ELSE 1
<1>4. ASSUME NEW i \in 1 .. Len(main'.todo), main'.todo[i] \in last
      PROVE  was(i) \in 1 .. m /\ main.todo[was(i)] \in last
  <2>1. CASE i <= n
    BY <1>1, <1>2, <1>4, <2>1
  <2>2. CASE i > n
    BY <1>1, <1>2, <1>4, <2>2
  <2>. QED  BY <1>1, <2>1, <2>2
<1>5. ASSUME NEW i \in 1 .. Len(main'.todo), main'.todo[i] \in last,
             NEW l \in 1 .. Len(main'.todo), main'.todo[l] \in last
      PROVE  was(i) = was(l)
  BY <1>1, <1>4, <1>5 DEF FiredOnce
<1>6. proc[main.job] = "reported" /\ hooked[main.job] = 0
  BY <1>1, <1>4 DEF FiredOnce
<1>7. ASSUME NEW i \in 1 .. Len(main'.todo), main'.todo[i] \in last
      PROVE  i = k
  <2>1. was(i) = was(k)
    BY <1>5, <1>7
  <2>2. CASE i > n \/ k > n
    BY <1>1, <1>2, <2>1, <2>2
  <2>3. CASE i <= n /\ k <= n
    BY <1>1, <1>2, <1>7, <2>3
  <2>. QED  BY <1>1, <1>2, <2>2, <2>3
<1>. QED  BY <1>6, <1>7

\* FiledUntilDisposed survives a step of the main thread that schedules nothing
\* for other jobs, if it holds of the job the thread works on.
LEMMA ThenFiled ==
    ASSUME TypeOK, main # Idle, NEW calls \in Seq(Steps), Then(calls), FiledUntilDisposed,
           editor' = editor, proc' = proc, executions' \subseteq executions, cut \subseteq cut',
           \A i \in Jobs \ {main.job} :
               (i \in cleanups' => i \in cleanups) /\ (i \in handle => i \in handle'),
           proc[main.job] # "reported" =>
               /\ editor # "vim" => ~Contains(calls, "dispose")
               /\ editor # "vim" /\ main.job \in cleanups' => main.job \in cleanups
               /\ editor = "vim" /\ main.job \in executions' \ cut'
                    /\ (main.job \notin handle' \/ main.job \in cleanups' \/ Pending("dispose")')
                    => Pending("deregister")' \/ (calls # <<>> /\ calls[1] = "fire"
                                                      /\ listeners'[main.job] # <<>>)
    PROVE  FiledUntilDisposed'
<1>1. main' # Idle => main'.job = main.job
  BY ThenStack
<1>2. Pending("dispose")' => Contains(calls, "dispose") \/ Pending("dispose")
  BY ThenPending
<1>. SUFFICES ASSUME NEW i \in Jobs, proc[i] # "reported"
              PROVE  /\ editor # "vim" => ~Disposed(i)'
                     /\ editor = "vim" /\ i \in executions' \ cut'
                          /\ (i \notin handle' \/ Disposed(i)') => WillDeregister(i)'
  BY DEF FiledUntilDisposed
<1>3. CASE i # main.job
  <2>1. Disposed(i)' => Disposed(i)
    BY <1>1, <1>3 DEF Disposed
  <2>2. ~WillDeregister(i)
    BY <1>3 DEF WillDeregister
  <2>. QED  BY <1>3, <2>1, <2>2 DEF FiledUntilDisposed
<1>4. CASE i = main.job /\ editor # "vim"
  BY <1>2, <1>4 DEF FiledUntilDisposed, Disposed
<1>5. CASE i = main.job /\ editor = "vim"
  <2>. SUFFICES ASSUME i \in executions' \ cut', i \notin handle' \/ Disposed(i)'
                PROVE  WillDeregister(i)'
    BY <1>5
  <2>1. \/ Pending("deregister")'
        \/ calls # <<>> /\ calls[1] = "fire" /\ listeners'[i] # <<>>
    BY <1>5 DEF Disposed
  <2>2. CASE Pending("deregister")'
    <3>1. main' # Idle
      BY <2>2 DEF Pending, Contains, Idle
    <3>. QED  BY <1>1, <1>5, <2>2, <3>1 DEF WillDeregister
  <2>3. CASE calls # <<>> /\ calls[1] = "fire" /\ listeners'[i] # <<>>
    <3>1. Len(calls) \in Nat \ {0}
      BY <2>3
    <3>2. Len(main.todo) \in Nat \ {0}
      BY MainIsTyped
    <3>3. Len(main'.todo) = Len(calls) + Len(main.todo) - 1 /\ main'.todo[1] = "fire"
      BY <2>3, <3>1, ThenStack
    <3>4. main' # Idle /\ main'.todo \in Seq(Steps) /\ main'.todo # <<>>
      BY <3>1, <3>2, <3>3, ThenStack DEF Idle
    <3>5. Head(main'.todo) = "fire"
      BY <3>3, <3>4
    <3>. QED  BY <1>1, <1>5, <2>3, <3>4, <3>5 DEF WillDeregister
  <2>. QED  BY <2>1, <2>2, <2>3
<1>. QED  BY <1>3, <1>4, <1>5

-----------------------------------------------------------------------------
(***************************************************************************)
(* The invariant holds at first, and every action keeps it.  First those   *)
(* that begin when the main thread is idle, or beside it.                  *)
(***************************************************************************)

\* The invariant holds in the initial states.
LEMMA InitHolds == Init => IInv
<1>. SUFFICES ASSUME Init PROVE IInv
  OBVIOUS
<1>1. ~Pending("fire") /\ ~Pending("deregister") /\ main.todo = <<>> /\ Len(main.todo) = 0
  BY DEF Init, Pending, Contains, Idle
<1>2. TypeOK
  BY DEF Init, TypeOK
<1>. QED
  BY <1>1, <1>2 DEF Init, IInv, Untouched, Wired, OnePerBuffer, ReleasedFirst, StoppedFirst,
     FiredOnce, FiledUntilDisposed, Disposed, WillDeregister, UnfiledIsStopped,
     HooksComeAfterRelease, ExitIsHeard, Begun

\* What the parts of the invariant say when the main thread has nothing to do.
LEMMA WhenIdle ==
    ASSUME main = Idle
    PROVE  /\ ReleasedFirst /\ StoppedFirst
           /\ \A step : ~Pending(step)
           /\ \A j \in Jobs : ~WillDeregister(j) /\ (Disposed(j) <=> j \in cleanups)
<1>1. Len(main.todo) = 0
  BY DEF Idle
<1>. QED  BY <1>1 DEF ReleasedFirst, StoppedFirst, Pending, Contains, WillDeregister, Disposed

\* A terminal is launched in a buffer that is free.
LEMMA LaunchKeeps ==
    ASSUME IInv, NEW j \in Jobs, NEW b \in Buffers, Launch(j, b)
    PROVE  IInv'
<1>. USE DEF Launch, Start, Begun
<1>1. main = Idle /\ main' = Idle /\ editor' = editor /\ editor \in {"vim", "nvim", "vscode"}
  BY EditorsAssumption DEF IInv, TypeOK
<1>2. TypeOK'
  BY <1>1 DEF IInv, TypeOK, Subscribed
<1>3. j \notin handle \cup attached \cup executions \cup cleanups \cup asked /\ hooked[j] = 0
  BY DEF IInv, TypeOK, Untouched
<1>4. Untouched' /\ Wired'
  BY <1>1, <1>3 DEF IInv, TypeOK, Untouched, Wired, Subscribed
<1>5. OnePerBuffer'
  BY <1>3 DEF IInv, TypeOK, OnePerBuffer, OnBuffer
<1>6. ReleasedFirst' /\ StoppedFirst' /\ FiredOnce'
  <2>1. Len(main.todo) = 0
    BY <1>1 DEF Idle
  <2>2. FiredOnce'
    BY <1>1, <1>3, <2>1 DEF IInv, TypeOK, FiredOnce
  <2>. QED  BY <1>1, <2>1, <2>2 DEF ReleasedFirst, StoppedFirst, Pending, Contains
<1>7. FiledUntilDisposed'
  <2>1. \A i \in Jobs : ~WillDeregister(i) /\ (Disposed(i) <=> i \in cleanups)
    BY <1>1, WhenIdle
  <2>2. \A i \in Jobs : Disposed(i)' <=> i \in cleanups
    BY <1>1 DEF Disposed
  <2>3. \A i \in Jobs : i # j => proc'[i] = proc[i]
    BY DEF IInv, TypeOK
  <2>. QED  BY <1>1, <1>3, <2>1, <2>2, <2>3 DEF IInv, FiledUntilDisposed
<1>8. UnfiledIsStopped' /\ HooksComeAfterRelease' /\ ExitIsHeard'
  BY <1>3 DEF IInv, TypeOK, UnfiledIsStopped, HooksComeAfterRelease, ExitIsHeard
<1>. QED  BY <1>2, <1>4, <1>5, <1>6, <1>7, <1>8 DEF IInv

\* A failed launch leaves only registered functions behind.
LEMMA LaunchFailsKeeps ==
    ASSUME IInv, NEW j \in Jobs, NEW b \in Buffers, LaunchFails(j, b)
    PROVE  IInv'
<1>. USE DEF LaunchFails, Begun
<1>1. main = Idle /\ main' = Idle /\ Len(main.todo) = 0
  BY DEF Idle
<1>2. TypeOK'
  BY <1>1 DEF IInv, TypeOK
<1>3. j \notin handle \cup attached \cup executions \cup cleanups \cup asked /\ hooked[j] = 0
  BY DEF IInv, TypeOK, Untouched
<1>4. Untouched' /\ Wired' /\ OnePerBuffer' /\ ReleasedFirst' /\ StoppedFirst' /\ FiredOnce'
  BY <1>1, <1>3 DEF IInv, TypeOK, Untouched, Wired, OnePerBuffer, ReleasedFirst, StoppedFirst,
     FiredOnce, Pending, Contains
<1>5. FiledUntilDisposed'
  <2>1. \A i \in Jobs : ~WillDeregister(i) /\ (Disposed(i) <=> i \in cleanups)
    BY <1>1, WhenIdle
  <2>2. \A i \in Jobs : Disposed(i)' <=> i \in cleanups
    BY <1>1 DEF Disposed
  <2>3. \A i \in Jobs : i # j => proc'[i] = proc[i]
    BY DEF IInv, TypeOK
  <2>. QED  BY <1>1, <1>3, <2>1, <2>2, <2>3 DEF IInv, FiledUntilDisposed
<1>6. UnfiledIsStopped' /\ HooksComeAfterRelease' /\ ExitIsHeard'
  BY <1>3 DEF IInv, TypeOK, UnfiledIsStopped, HooksComeAfterRelease, ExitIsHeard
<1>. QED  BY <1>2, <1>4, <1>5, <1>6 DEF IInv

\* A process ends, whatever the main thread is doing.
LEMMA DiesKeeps ==
    ASSUME IInv, NEW j \in Jobs, Dies(j)
    PROVE  IInv'
<1>. USE DEF Dies, Begun
<1>1. TypeOK'
  BY DEF IInv, TypeOK
<1>2. \A i \in Jobs : i # j => proc'[i] = proc[i]
  BY DEF IInv, TypeOK
<1>3. proc[j] = "running" /\ proc'[j] = "dead"
  BY DEF IInv, TypeOK
<1>4. main # Idle => main.job \in Jobs
  BY MainIsTyped DEF IInv
<1>5. main = Idle => Len(main.todo) = 0
  BY DEF Idle
<1>6. Untouched' /\ Wired' /\ OnePerBuffer' /\ ReleasedFirst'
  BY <1>2, <1>3, <1>4 DEF IInv, Untouched, Wired, OnePerBuffer, ReleasedFirst
<1>7. StoppedFirst'
  BY <1>2, <1>3, <1>4, <1>5 DEF IInv, StoppedFirst, Pending, Contains
<1>8. FiredOnce'
  BY <1>2, <1>3, <1>4, <1>5 DEF IInv, FiredOnce
<1>9. FiledUntilDisposed'
  <2>1. \A i \in Jobs : (Disposed(i)' <=> Disposed(i)) /\ (WillDeregister(i)' <=> WillDeregister(i))
    BY DEF Disposed, WillDeregister, Pending
  <2>. QED  BY <1>2, <1>3, <2>1 DEF IInv, FiledUntilDisposed
<1>10. UnfiledIsStopped' /\ HooksComeAfterRelease' /\ ExitIsHeard'
  BY <1>2, <1>3 DEF IInv, UnfiledIsStopped, HooksComeAfterRelease, ExitIsHeard
<1>. QED  BY <1>1, <1>6, <1>7, <1>8, <1>9, <1>10 DEF IInv

\* The exit of a process that ended is reported, to a function or to nobody.
LEMMA ReportExitKeeps ==
    ASSUME IInv, NEW j \in Jobs, ReportExit(j)
    PROVE  IInv'
<1>. USE DEF ReportExit, Begun
<1>. DEFINE calls == <<"fire", "dispose">>
<1>1. main = Idle /\ Len(main.todo) = 0 /\ editor' = editor
  BY DEF Idle
<1>2. main' = Idle \/ main' = [job |-> j, todo |-> calls]
  OBVIOUS
<1>3. calls \in Seq(Steps) \ {<<>>} /\ Len(calls) = 2 /\ calls[1] = "fire" /\ calls[2] = "dispose"
  BY DEF Steps
<1>4. /\ main' # Idle => main'.job = j /\ main'.todo = calls
      /\ main' = Idle => Len(main'.todo) = 0
  BY <1>2 DEF Idle
<1>5. TypeOK'
  BY <1>2, <1>3 DEF IInv, TypeOK
<1>6. \A i \in Jobs : i # j => proc'[i] = proc[i]
  BY DEF IInv, TypeOK
<1>7. proc[j] = "dead" /\ proc'[j] = "reported"
  BY DEF IInv, TypeOK
<1>8. Untouched' /\ Wired' /\ OnePerBuffer'
  BY <1>4, <1>6, <1>7 DEF IInv, Untouched, Wired, OnePerBuffer
<1>9. ReleasedFirst' /\ StoppedFirst'
  BY <1>3, <1>4, <1>7 DEF ReleasedFirst, StoppedFirst, Pending, Contains
<1>10. FiredOnce'
  <2>1. editor = "nvim" => hooked[j] = 0
    <3>1. hooked[j] \in Nat
      BY DEF IInv, TypeOK
    <3>. QED  BY <1>7, <3>1 DEF IInv, FiredOnce
  <2>2. \A k \in 1 .. Len(main'.todo) : main'.todo[k] \in {"fire", "hooks"} => main' # Idle /\ k = 1
    BY <1>3, <1>4
  <2>3. editor = "nvim" => \A i \in Jobs : hooked[i] > 0 => proc'[i] = "reported"
    BY <1>6, <1>7 DEF IInv, FiredOnce
  <2>. QED  BY <1>1, <1>4, <1>7, <2>1, <2>2, <2>3 DEF FiredOnce
<1>11. FiledUntilDisposed'
  <2>1. \A i \in Jobs : ~WillDeregister(i) /\ (Disposed(i) <=> i \in cleanups)
    BY <1>1, WhenIdle
  <2>2. \A i \in Jobs : i # j => (Disposed(i)' <=> i \in cleanups)
    BY <1>4 DEF Disposed
  <2>. QED  BY <1>1, <1>6, <1>7, <2>1, <2>2 DEF IInv, FiledUntilDisposed
<1>12. UnfiledIsStopped' /\ HooksComeAfterRelease' /\ ExitIsHeard'
  BY <1>6, <1>7 DEF IInv, UnfiledIsStopped, HooksComeAfterRelease, ExitIsHeard
<1>. QED  BY <1>5, <1>8, <1>9, <1>10, <1>11, <1>12 DEF IInv

\* The main thread begins on one step that is not about listeners.
LEMMA BeginKeeps ==
    ASSUME IInv, NEW j \in Jobs, NEW step \in {"runner", "terminate"},
           main = Idle, j \in attached, main' = [job |-> j, todo |-> <<step>>],
           UNCHANGED <<editor, process, wiring, history>>
    PROVE  IInv'
<1>. USE DEF Begun
<1>1. Len(main.todo) = 0
  BY DEF Idle
<1>2. <<step>> \in Seq(Steps) \ {<<>>} /\ Len(<<step>>) = 1 /\ <<step>>[1] = step
  BY DEF Steps
<1>3. main'.job = j /\ main'.todo = <<step>>
  OBVIOUS
<1>4. TypeOK'
  BY <1>2 DEF IInv, TypeOK
<1>5. Untouched' /\ Wired' /\ OnePerBuffer'
  BY <1>3 DEF IInv, TypeOK, Untouched, Wired, OnePerBuffer
<1>6. ReleasedFirst' /\ StoppedFirst' /\ FiredOnce'
  BY <1>1, <1>2, <1>3 DEF IInv, ReleasedFirst, StoppedFirst, FiredOnce, Pending, Contains
<1>7. FiledUntilDisposed'
  <2>1. \A i \in Jobs : ~WillDeregister(i) /\ (Disposed(i) <=> i \in cleanups)
    BY WhenIdle
  <2>2. \A i \in Jobs : Disposed(i)' <=> i \in cleanups
    BY <1>2, <1>3 DEF Disposed, Pending, Contains
  <2>. QED  BY <2>1, <2>2 DEF IInv, FiledUntilDisposed
<1>8. UnfiledIsStopped' /\ HooksComeAfterRelease' /\ ExitIsHeard'
  BY DEF IInv, UnfiledIsStopped, HooksComeAfterRelease, ExitIsHeard
<1>. QED  BY <1>4, <1>5, <1>6, <1>7, <1>8 DEF IInv

LEMMA WipeKeeps ==
    ASSUME IInv, NEW j \in Jobs, Wipe(j)
    PROVE  IInv'
BY BeginKeeps DEF Wipe

LEMMA TerminateKeeps ==
    ASSUME IInv, NEW j \in Jobs, Terminate(j)
    PROVE  IInv'
BY BeginKeeps DEF Terminate

\* The one-shot deregisters the functions of a job that was disposed of.
LEMMA CleanupKeeps ==
    ASSUME IInv, NEW j \in Jobs, Cleanup(j)
    PROVE  IInv'
<1>. USE DEF Cleanup
<1>1. TypeOK'
  BY DEF IInv, TypeOK, Begun
<1>2. \A i \in Jobs : ~WillDeregister(i) /\ (Disposed(i) <=> i \in cleanups)
  BY WhenIdle
<1>3. \A i \in Jobs : ~WillDeregister(i)' /\ (Disposed(i)' <=> i \in cleanups')
  BY DEF WillDeregister, Disposed
<1>4. FiledUntilDisposed'
  BY <1>2, <1>3 DEF IInv, FiledUntilDisposed
<1>5. ExitIsHeard'
  <2>1. proc[j] = "reported" \/ j \notin executions \ cut
    BY <1>2 DEF IInv, FiledUntilDisposed
  <2>. QED  BY <2>1 DEF IInv, ExitIsHeard
<1>6. Untouched' /\ Wired' /\ OnePerBuffer' /\ ReleasedFirst' /\ StoppedFirst' /\ FiredOnce'
  BY DEF IInv, Untouched, Begun, Wired, OnePerBuffer, ReleasedFirst, StoppedFirst, FiredOnce,
     Pending
<1>7. UnfiledIsStopped' /\ HooksComeAfterRelease'
  BY DEF IInv, UnfiledIsStopped, HooksComeAfterRelease, Begun
<1>. QED  BY <1>1, <1>4, <1>5, <1>6, <1>7 DEF IInv

-----------------------------------------------------------------------------
(***************************************************************************)
(* Then the steps of the main thread.                                      *)
(***************************************************************************)

\* The main thread is at a step of a job.
LEMMA DoingIt ==
    ASSUME IInv, NEW j \in Jobs, NEW step, Doing(j, step)
    PROVE  /\ TypeOK /\ main # Idle /\ main.job = j /\ Head(main.todo) = step
           /\ Len(main.todo) \in Nat \ {0} /\ main.todo[1] = step /\ Pending(step)
           /\ Begun(j) /\ (step \in {"hooks", "deregister"} => j \notin attached)
           /\ editor \in {"vim", "nvim", "vscode"}
<1>1. TypeOK /\ main # Idle /\ main.job = j /\ Head(main.todo) = step
  BY DEF IInv, Doing, Idle
<1>2. Len(main.todo) \in Nat \ {0} /\ main.todo[1] = step
  BY <1>1, MainIsTyped
<1>3. Pending(step)
  BY <1>2 DEF Pending, Contains
<1>4. Begun(j)
  BY <1>1 DEF IInv, Untouched
<1>5. step \in {"hooks", "deregister"} => j \notin attached
  BY <1>1, <1>2 DEF IInv, ReleasedFirst
<1>. QED  BY <1>1, <1>2, <1>3, <1>4, <1>5, EditorsAssumption DEF TypeOK

\* The process is told to stop; on Vim its exit is fired at once.
LEMMA StopProcessKeeps ==
    ASSUME IInv, NEW j \in Jobs, StopProcess(j)
    PROVE  IInv'
<1>. DEFINE calls == IF editor = "vim" THEN <<"fire", "dispose", "dispose">> ELSE <<>>
<1>. USE DEF StopProcess
<1>1. /\ TypeOK /\ main # Idle /\ main.job = j /\ Head(main.todo) = "terminate"
      /\ Begun(j) /\ editor \in {"vim", "nvim", "vscode"}
  BY DoingIt
<1>2. /\ calls \in Seq(Steps) /\ Then(calls)
      /\ editor = "vim" => Len(calls) = 3 /\ calls[1] = "fire" /\ calls[2] = "dispose"
                             /\ calls[3] = "dispose"
      /\ editor # "vim" => calls = <<>> /\ Len(calls) = 0
  <2>1. Then(calls)
    OBVIOUS
  <2>2. CASE editor = "vim"
    BY <2>2 DEF Steps
  <2>3. CASE editor # "vim"
    BY <2>3
  <2>. QED  BY <2>1, <2>2, <2>3
<1>. HIDE DEF calls
<1>3. main' = Idle \/ (main' \in [job : Jobs, todo : Seq(Steps) \ {<<>>}] /\ main'.job = j)
  BY <1>1, <1>2, ThenStack
<1>4. TypeOK'
  BY <1>1, <1>3 DEF TypeOK, Begun
<1>5. Untouched' /\ Wired' /\ OnePerBuffer'
  BY <1>1, <1>3 DEF IInv, Untouched, Wired, OnePerBuffer, Begun
<1>6. ReleasedFirst'
  BY <1>1, <1>2, ThenReleased DEF IInv
<1>7. StoppedFirst'
  <2>1. Pending("fire")' \/ Pending("deregister")' => main' # Idle
    BY DEF Pending, Contains, Idle
  <2>. QED  BY <1>1, <1>3, <2>1 DEF StoppedFirst
<1>8. FiredOnce'
  BY <1>1, <1>2, ThenFired DEF IInv
<1>9. FiledUntilDisposed'
  <2>1. editor = "vim" => j \in handle /\ listeners'[j] # <<>>
    BY DEF IInv, Wired, Alive
  <2>2. editor # "vim" => ~Contains(calls, "dispose")
    BY <1>2 DEF Contains
  <2>3. editor = "vim" => calls # <<>>
    BY <1>2
  <2>. QED  BY <1>1, <1>2, <2>1, <2>2, <2>3, ThenFiled DEF IInv
<1>10. UnfiledIsStopped' /\ HooksComeAfterRelease' /\ ExitIsHeard'
  BY DEF IInv, UnfiledIsStopped, HooksComeAfterRelease, ExitIsHeard, Begun
<1>. QED  BY <1>4, <1>5, <1>6, <1>7, <1>8, <1>9, <1>10 DEF IInv

\* What the main thread was doing for a job is given up, and the job is cut.
LEMMA GivingUpKeeps ==
    ASSUME IInv, NEW j \in Jobs, main # Idle, main.job = j, main' = Idle,
           cut' = cut \cup {j}, asked' \in {asked, asked \cup {j}},
           UNCHANGED <<editor, proc, buffer, wiring, hooked>>
    PROVE  IInv'
<1>1. Len(main'.todo) = 0
  BY DEF Idle
<1>2. TypeOK' /\ Untouched' /\ Wired' /\ OnePerBuffer'
  BY DEF IInv, TypeOK, Untouched, Wired, OnePerBuffer, Begun
<1>3. ReleasedFirst' /\ StoppedFirst' /\ FiredOnce'
  BY <1>1 DEF IInv, ReleasedFirst, StoppedFirst, FiredOnce, Pending, Contains
<1>4. FiledUntilDisposed'
  <2>1. \A i \in Jobs : i # j => ~WillDeregister(i)
    BY DEF WillDeregister
  <2>2. \A i \in Jobs : Disposed(i)' => Disposed(i)
    BY DEF Disposed
  <2>. QED  BY <2>1, <2>2 DEF IInv, FiledUntilDisposed
<1>5. UnfiledIsStopped' /\ HooksComeAfterRelease' /\ ExitIsHeard'
  BY DEF IInv, UnfiledIsStopped, HooksComeAfterRelease, ExitIsHeard, Begun
<1>. QED  BY <1>2, <1>3, <1>4, <1>5 DEF IInv

LEMMA TooDeepKeeps ==
    ASSUME IInv, NEW j \in Jobs, TooDeep(j)
    PROVE  IInv'
BY DoingIt, GivingUpKeeps DEF TooDeep

\* There is no process to stop: on Vim the job is disposed of all the same.
LEMMA NothingToStopKeeps ==
    ASSUME IInv, NEW j \in Jobs, NothingToStop(j)
    PROVE  IInv'
<1>. DEFINE calls == IF editor = "vim" THEN <<"dispose">> ELSE <<>>
<1>. USE DEF NothingToStop
<1>1. /\ TypeOK /\ main # Idle /\ main.job = j /\ Head(main.todo) = "terminate"
      /\ Begun(j) /\ editor \in {"vim", "nvim", "vscode"}
  BY DoingIt
<1>2. /\ calls \in Seq(Steps) /\ Then(calls)
      /\ editor = "vim" => Len(calls) = 1 /\ calls[1] = "dispose"
      /\ editor # "vim" => calls = <<>> /\ Len(calls) = 0
  <2>1. Then(calls)
    OBVIOUS
  <2>2. CASE editor = "vim"
    BY <2>2 DEF Steps
  <2>3. CASE editor # "vim"
    BY <2>3
  <2>. QED  BY <2>1, <2>2, <2>3
<1>. HIDE DEF calls
<1>3. main' = Idle \/ (main' \in [job : Jobs, todo : Seq(Steps) \ {<<>>}] /\ main'.job = j)
  BY <1>1, <1>2, ThenStack
<1>4. \A step \in {"fire", "hooks", "deregister"} : Pending(step)' => Pending(step)
  BY <1>1, <1>2, ThenPending DEF Contains
<1>5. TypeOK'
  BY <1>1, <1>3 DEF TypeOK, Begun
<1>6. Untouched' /\ Wired' /\ OnePerBuffer'
  BY <1>1, <1>3 DEF IInv, Untouched, Wired, OnePerBuffer, Begun
<1>7. ReleasedFirst'
  BY <1>1, <1>2, ThenReleased DEF IInv
<1>8. StoppedFirst'
  <2>1. Pending("fire")' \/ Pending("deregister")' => main' # Idle
    BY DEF Pending, Contains, Idle
  <2>. QED  BY <1>1, <1>3, <1>4, <2>1 DEF IInv, StoppedFirst
<1>9. FiredOnce'
  BY <1>1, <1>2, ThenFired DEF IInv
<1>10. FiledUntilDisposed'
  <2>1. editor # "vim" => ~Contains(calls, "dispose")
    BY <1>2 DEF Contains
  <2>2. ASSUME editor = "vim", proc[j] # "reported", j \in executions \ cut'
        PROVE  Pending("deregister")'
    <3>1. proc[j] \in {"running", "dead"}
      BY <1>1, <2>2 DEF TypeOK, Begun
    <3>2. CASE proc[j] = "dead"
      <4>1. Pending("deregister")
        BY <2>2, <3>2 DEF Pending
      <4>. QED  BY <1>1, <1>2, <4>1, ThenPending
    <3>3. CASE proc[j] = "running"
      <4>1. j \notin handle /\ j \notin cut
        BY <2>2, <3>3 DEF Alive
      <4>2. WillDeregister(j)
        BY <2>2, <4>1 DEF IInv, FiledUntilDisposed
      <4>3. Pending("deregister")
        BY <1>1, <4>2 DEF WillDeregister
      <4>. QED  BY <1>1, <1>2, <4>3, ThenPending
    <3>. QED  BY <3>1, <3>2, <3>3
  <2>. QED  BY <1>1, <1>2, <2>1, <2>2, ThenFiled DEF IInv
<1>11. UnfiledIsStopped' /\ HooksComeAfterRelease' /\ ExitIsHeard'
  BY DEF IInv, UnfiledIsStopped, HooksComeAfterRelease, ExitIsHeard, Begun
<1>. QED  BY <1>5, <1>6, <1>7, <1>8, <1>9, <1>10, <1>11 DEF IInv

\* A step that only has others follow it, none of them about what was disposed of.
LEMMA GoingOnKeeps ==
    ASSUME IInv, NEW j \in Jobs, main # Idle, main.job = j,
           NEW calls \in Seq(Steps), Then(calls),
           UNCHANGED <<editor, process, wiring, history>>,
           ReleasedFirst', StoppedFirst', FiredOnce',
           ~Contains(calls, "dispose"),
           WillDeregister(j) => Pending("deregister")'
    PROVE  IInv'
<1>1. TypeOK /\ TypeOK'
  BY ThenStack DEF IInv, TypeOK, Begun
<1>2. Untouched' /\ Wired' /\ OnePerBuffer'
  BY <1>1, ThenStack DEF IInv, Untouched, Wired, OnePerBuffer, Begun
<1>3. FiledUntilDisposed'
  <2>1. Pending("dispose")' => Disposed(j)
    BY <1>1, ThenPending DEF Disposed
  <2>2. j \in cleanups => Disposed(j)
    BY DEF Disposed
  <2>3. /\ proc[j] # "reported"
        /\ editor = "vim" /\ j \in executions \ cut
        /\ j \notin handle \/ j \in cleanups \/ Pending("dispose")'
        => WillDeregister(j)
    BY <2>1, <2>2 DEF IInv, FiledUntilDisposed
  <2>. QED  BY <1>1, <2>3, ThenFiled DEF IInv
<1>4. UnfiledIsStopped' /\ HooksComeAfterRelease' /\ ExitIsHeard'
  BY DEF IInv, UnfiledIsStopped, HooksComeAfterRelease, ExitIsHeard, Begun
<1>. QED  BY <1>1, <1>2, <1>3, <1>4 DEF IInv

\* The listeners of the exit are called.
LEMMA FireKeeps ==
    ASSUME IInv, NEW j \in Jobs, Fire(j)
    PROVE  IInv'
<1>. DEFINE calls == listeners[j]
<1>. USE DEF Fire
<1>1. TypeOK /\ main # Idle /\ main.job = j /\ Head(main.todo) = "fire" /\ Pending("fire")
  BY DoingIt
<1>2. /\ calls \in {<<>>, <<"deregister">>, <<"runner", "hooks", "deregister">>}
      /\ j \in attached => calls # <<"deregister">>
  BY DEF IInv, Wired, Subscribed
<1>3. Then(calls)
  OBVIOUS
<1>. HIDE DEF calls
<1>4. calls \in Seq(Steps)
  <2>1. <<>> \in Seq(Steps) /\ <<"deregister">> \in Seq(Steps)
    BY DEF Steps
  <2>2. <<"runner", "hooks", "deregister">> \in Seq(Steps)
    BY DEF Steps
  <2>. QED  BY <1>2, <2>1, <2>2
<1>5. \/ calls = <<>> /\ Len(calls) = 0
      \/ Len(calls) = 1 /\ calls[1] = "deregister"
      \/ /\ Len(calls) = 3 /\ calls # <<"deregister">>
         /\ calls[1] = "runner" /\ calls[2] = "hooks" /\ calls[3] = "deregister"
  BY <1>2
<1>6. ReleasedFirst'
  <2>1. ASSUME NEW k \in 1 .. Len(calls), calls[k] \in {"hooks", "deregister"}
        PROVE  main.job \notin attached' \/ (calls[1] = "runner" /\ k > 1)
    BY <1>1, <1>2, <1>5, <2>1
  <2>. QED  BY <1>1, <1>3, <1>4, <2>1, ThenReleased DEF IInv
<1>7. StoppedFirst'
  <2>1. Pending("fire")' \/ Pending("deregister")' => main' # Idle
    BY DEF Pending, Contains, Idle
  <2>2. main' # Idle => main'.job = j
    BY <1>1, <1>3, <1>4, ThenStack
  <2>. QED  BY <1>1, <2>1, <2>2 DEF IInv, StoppedFirst
<1>8. FiredOnce'
  <2>1. ASSUME NEW k \in 1 .. Len(calls), calls[k] \in {"fire", "hooks"},
               NEW i \in 1 .. Len(calls), calls[i] \in {"fire", "hooks"}
        PROVE  i = k
    BY <1>5, <2>1
  <2>. QED  BY <1>1, <1>3, <1>4, <2>1, ThenFired DEF IInv
<1>9. ~Contains(calls, "dispose")
  BY <1>5 DEF Contains
<1>10. ASSUME WillDeregister(j)  PROVE Pending("deregister")'
  <2>1. Pending("deregister") \/ calls # <<>>
    BY <1>10 DEF WillDeregister, calls
  <2>2. calls # <<>> => Contains(calls, "deregister")
    <3>1. calls # <<>> => Len(calls) \in 1 .. Len(calls) /\ calls[Len(calls)] = "deregister"
      BY <1>5
    <3>. QED  BY <3>1 DEF Contains
  <2>3. /\ Contains(calls, "deregister") => Pending("deregister")'
        /\ Pending("deregister") => Pending("deregister")'
    <3>1. TypeOK /\ main # Idle /\ Head(main.todo) # "deregister" /\ calls \in Seq(Steps)
          /\ Then(calls)
      BY <1>1, <1>3, <1>4
    <3>. QED  BY <3>1, ThenPending
  <2>. QED  BY <2>1, <2>2, <2>3
<1>. QED  BY <1>1, <1>3, <1>4, <1>6, <1>7, <1>8, <1>9, <1>10, GoingOnKeeps

\* The runner's listener terminates the job it holds, and then lets go of it.
LEMMA DisposeJobKeeps ==
    ASSUME IInv, NEW j \in Jobs, DisposeJob(j)
    PROVE  IInv'
<1>. DEFINE calls == IF j \in attached THEN <<"terminate", "release">> ELSE <<"release">>
<1>. USE DEF DisposeJob
<1>1. TypeOK /\ main # Idle /\ main.job = j /\ Head(main.todo) = "runner"
  BY DoingIt
<1>2. calls \in Seq(Steps) /\ Then(calls)
  <2>1. Then(calls)
    OBVIOUS
  <2>2. CASE j \in attached
    BY <2>1, <2>2 DEF Steps
  <2>3. CASE j \notin attached
    BY <2>1, <2>3 DEF Steps
  <2>. QED  BY <2>2, <2>3
<1>3. \/ Len(calls) = 2 /\ calls[1] = "terminate" /\ calls[2] = "release"
      \/ Len(calls) = 1 /\ calls[1] = "release"
  OBVIOUS
<1>. HIDE DEF calls
<1>4. Contains(calls, "release") /\ ~Contains(calls, "dispose")
      /\ ~Contains(calls, "fire") /\ ~Contains(calls, "deregister")
  BY <1>3 DEF Contains
<1>5. ReleasedFirst'
  BY <1>1, <1>2, <1>3, <1>4, ThenReleased DEF IInv
<1>6. StoppedFirst'
  <2>1. Pending("fire")' \/ Pending("deregister")' => main' # Idle
    BY DEF Pending, Contains, Idle
  <2>2. main' # Idle => main'.job = j
    BY <1>1, <1>2, ThenStack
  <2>3. (Pending("fire")' => Pending("fire")) /\ (Pending("deregister")' => Pending("deregister"))
    BY <1>1, <1>2, <1>4, ThenPending
  <2>. QED  BY <1>1, <2>1, <2>2, <2>3 DEF IInv, StoppedFirst
<1>7. FiredOnce'
  BY <1>1, <1>2, <1>3, ThenFired DEF IInv
<1>8. WillDeregister(j) => Pending("deregister")'
  BY <1>1, <1>2, ThenPending DEF WillDeregister
<1>. QED  BY <1>1, <1>2, <1>4, <1>5, <1>6, <1>7, <1>8, GoingOnKeeps

\* The step is over and calls nothing.
LEMMA OverKeeps ==
    ASSUME IInv, main # Idle, Then(<<>>),
           Head(main.todo) \in {"runner", "release"} => main.job \notin attached',
           editor' = editor, proc' = proc, asked \subseteq asked', attached' \subseteq attached
    PROVE  /\ <<>> \in Seq(Steps) /\ Len(<<>>) = 0
           /\ ReleasedFirst' /\ StoppedFirst' /\ (hooked' = hooked => FiredOnce')
           /\ main' = Idle \/ (main' \in [job : Jobs, todo : Seq(Steps) \ {<<>>}]
                                 /\ main'.job = main.job)
           /\ \A step : Pending(step)' => Pending(step)
           /\ \A step : Pending(step) /\ Head(main.todo) # step => Pending(step)'
<1>1. <<>> \in Seq(Steps) /\ Len(<<>>) = 0 /\ TypeOK /\ \A step : ~Contains(<<>>, step)
  BY DEF IInv, Contains
<1>2. \A k \in 1 .. Len(<<>>) : FALSE
  BY <1>1
<1>3. main' = Idle \/ (main' \in [job : Jobs, todo : Seq(Steps) \ {<<>>}] /\ main'.job = main.job)
  BY <1>1, ThenStack
<1>4. /\ \A step : Pending(step)' => Pending(step)
      /\ \A step : Pending(step) /\ Head(main.todo) # step => Pending(step)'
  BY <1>1, ThenPending
<1>5. ReleasedFirst'
  BY <1>2, <1>1, ThenReleased DEF IInv
<1>6. StoppedFirst'
  <2>1. Pending("fire")' \/ Pending("deregister")' => main' # Idle
    BY DEF Pending, Contains, Idle
  <2>. QED  BY <1>3, <1>4, <2>1 DEF IInv, StoppedFirst
<1>7. hooked' = hooked => FiredOnce'
  BY <1>2, <1>1, ThenFired DEF IInv
<1>. QED  BY <1>1, <1>3, <1>4, <1>5, <1>6, <1>7

\* The runner lets go of the job.
LEMMA ReleaseKeeps ==
    ASSUME IInv, NEW j \in Jobs, Release(j)
    PROVE  IInv'
<1>. USE DEF Release
<1>1. TypeOK /\ main # Idle /\ main.job = j /\ Head(main.todo) = "release" /\ Begun(j)
  BY DoingIt
<1>2. /\ <<>> \in Seq(Steps) /\ ReleasedFirst' /\ StoppedFirst' /\ FiredOnce'
      /\ main' = Idle \/ (main' \in [job : Jobs, todo : Seq(Steps) \ {<<>>}] /\ main'.job = j)
      /\ \A step : Pending(step)' => Pending(step)
      /\ \A step : Pending(step) /\ Head(main.todo) # step => Pending(step)'
  BY <1>1, OverKeeps
<1>3. TypeOK'
  <2>1. <<>> \in Seq({"runner", "hooks", "deregister"})
        /\ <<"deregister">> \in Seq({"runner", "hooks", "deregister"})
    OBVIOUS
  <2>2. listeners' \in [Jobs -> Seq({"runner", "hooks", "deregister"})]
    BY <1>1, <2>1 DEF TypeOK
  <2>. QED  BY <1>1, <1>2, <2>2 DEF TypeOK, Begun
<1>4. Untouched' /\ Wired' /\ OnePerBuffer'
  <2>1. listeners'[j] \in {<<>>, <<"deregister">>} /\ (listeners[j] # <<>> => listeners'[j] # <<>>)
    BY <1>1 DEF TypeOK
  <2>2. \A i \in Jobs \ {j} : listeners'[i] = listeners[i]
    BY <1>1 DEF TypeOK
  <2>3. Wired'
    BY <1>1, <2>1, <2>2 DEF IInv, Wired
  <2>. QED  BY <1>1, <1>2, <2>3 DEF IInv, Untouched, OnePerBuffer, Begun
<1>5. FiledUntilDisposed'
  <2>1. Disposed(j) <=> j \in cleanups \/ Pending("dispose")
    BY <1>1 DEF Disposed
  <2>2. WillDeregister(j) => Pending("deregister")'
    BY <1>1, <1>2 DEF WillDeregister
  <2>3. ~Contains(<<>>, "dispose")
    BY DEF Contains
  <2>. QED  BY <1>1, <1>2, <2>1, <2>2, <2>3, ThenFiled DEF IInv, FiledUntilDisposed
<1>6. UnfiledIsStopped' /\ HooksComeAfterRelease' /\ ExitIsHeard'
  BY DEF IInv, UnfiledIsStopped, HooksComeAfterRelease, ExitIsHeard, Begun
<1>. QED  BY <1>2, <1>3, <1>4, <1>5, <1>6 DEF IInv

\* The hooks are called, and the rest follows.
LEMMA CallHooksKeeps ==
    ASSUME IInv, NEW j \in Jobs, CallHooks(j)
    PROVE  IInv'
<1>. USE DEF CallHooks
<1>1. /\ TypeOK /\ main # Idle /\ main.job = j /\ Head(main.todo) = "hooks" /\ Begun(j)
      /\ main.todo[1] = "hooks" /\ Len(main.todo) \in Nat \ {0} /\ j \notin attached
  BY DoingIt
<1>2. /\ <<>> \in Seq(Steps) /\ ReleasedFirst' /\ StoppedFirst'
      /\ main' = Idle \/ (main' \in [job : Jobs, todo : Seq(Steps) \ {<<>>}] /\ main'.job = j)
      /\ \A step : Pending(step)' => Pending(step)
      /\ \A step : Pending(step) /\ Head(main.todo) # step => Pending(step)'
  BY <1>1, OverKeeps
<1>3. hooked[j] \in Nat /\ hooked'[j] = hooked[j] + 1 /\ \A i \in Jobs \ {j} : hooked'[i] = hooked[i]
  BY <1>1 DEF TypeOK
<1>4. TypeOK'
  BY <1>1, <1>2, <1>3 DEF TypeOK, Begun
<1>5. Untouched' /\ Wired' /\ OnePerBuffer'
  BY <1>1, <1>2, <1>3 DEF IInv, Untouched, Wired, OnePerBuffer, Begun
<1>6. editor = "nvim" => hooked[j] = 0 /\ proc[j] = "reported"
  BY <1>1 DEF IInv, FiredOnce
<1>7. FiredOnce'
  <2>1. ASSUME editor = "nvim", NEW k \in 1 .. Len(main'.todo)
        PROVE  main'.todo[k] \notin {"fire", "hooks"}
    <3>1. Len(main'.todo) = Len(main.todo) - 1 /\ main'.todo[k] = main.todo[k + 1]
      <4>1. Len(<<>>) = 0
        OBVIOUS
      <4>2. /\ Len(main'.todo) = Len(<<>>) + Len(main.todo) - 1
            /\ \A i \in 1 .. Len(main'.todo) : i > Len(<<>>) =>
                   main'.todo[i] = main.todo[i - Len(<<>>) + 1]
        BY <1>1, <1>2, ThenStack
      <4>. QED  BY <1>1, <4>1, <4>2
    <3>2. main.todo[k + 1] \in {"fire", "hooks"} => k + 1 = 1
      BY <1>1, <2>1, <3>1 DEF IInv, FiredOnce
    <3>. QED  BY <3>1, <3>2
  <2>2. editor = "nvim" => \A i \in Jobs : hooked'[i] > 0 => proc'[i] = "reported"
    BY <1>3, <1>6 DEF IInv, FiredOnce
  <2>. QED  BY <2>1, <2>2 DEF FiredOnce
<1>8. FiledUntilDisposed'
  <2>1. Disposed(j) <=> j \in cleanups \/ Pending("dispose")
    BY <1>1 DEF Disposed
  <2>2. WillDeregister(j) => Pending("deregister")'
    BY <1>1, <1>2 DEF WillDeregister
  <2>3. ~Contains(<<>>, "dispose")
    BY DEF Contains
  <2>. QED  BY <1>1, <1>2, <2>1, <2>2, <2>3, ThenFiled DEF IInv, FiledUntilDisposed
<1>9. HooksComeAfterRelease'
  BY <1>1, <1>3, <1>6 DEF IInv, HooksComeAfterRelease
<1>10. UnfiledIsStopped' /\ ExitIsHeard'
  BY DEF IInv, UnfiledIsStopped, ExitIsHeard, Begun
<1>. QED  BY <1>2, <1>4, <1>5, <1>7, <1>8, <1>9, <1>10 DEF IInv

\* A hook raises, and everything is given up.
LEMMA HookRaisesKeeps ==
    ASSUME IInv, NEW j \in Jobs, HookRaises(j)
    PROVE  IInv'
<1>. USE DEF HookRaises
<1>1. /\ TypeOK /\ main # Idle /\ main.job = j /\ Begun(j) /\ j \notin attached
      /\ main.todo[1] = "hooks" /\ Len(main.todo) \in Nat \ {0}
  BY DoingIt
<1>2. Len(main'.todo) = 0 /\ main' = Idle
  BY DEF Idle
<1>3. hooked[j] \in Nat /\ hooked'[j] = hooked[j] + 1 /\ \A i \in Jobs \ {j} : hooked'[i] = hooked[i]
  BY <1>1 DEF TypeOK
<1>4. TypeOK'
  BY <1>1, <1>2, <1>3 DEF TypeOK, Begun
<1>5. Untouched' /\ Wired' /\ OnePerBuffer'
  BY <1>1, <1>2, <1>3 DEF IInv, Untouched, Wired, OnePerBuffer, Begun
<1>6. editor = "nvim" => hooked[j] = 0 /\ proc[j] = "reported"
  BY <1>1 DEF IInv, FiredOnce
<1>7. ReleasedFirst' /\ StoppedFirst'
  BY <1>2 DEF ReleasedFirst, StoppedFirst, Pending, Contains
<1>8. FiredOnce'
  BY <1>2, <1>3, <1>6 DEF IInv, FiredOnce
<1>9. FiledUntilDisposed'
  <2>1. \A i \in Jobs : i # j => ~WillDeregister(i)
    BY <1>1 DEF WillDeregister
  <2>2. \A i \in Jobs : Disposed(i)' => Disposed(i)
    BY <1>2 DEF Disposed
  <2>. QED  BY <2>1, <2>2 DEF IInv, FiledUntilDisposed
<1>10. HooksComeAfterRelease'
  BY <1>1, <1>3, <1>6 DEF IInv, HooksComeAfterRelease
<1>11. UnfiledIsStopped' /\ ExitIsHeard'
  BY DEF IInv, UnfiledIsStopped, ExitIsHeard, Begun
<1>. QED  BY <1>4, <1>5, <1>7, <1>8, <1>9, <1>10, <1>11 DEF IInv

\* The manager takes the job out: its runner has let go of it, and its process
\* has ended or was told to.
LEMMA DeregisterKeeps ==
    ASSUME IInv, NEW j \in Jobs, Deregister(j)
    PROVE  IInv'
<1>. USE DEF Deregister
<1>1. /\ TypeOK /\ main # Idle /\ main.job = j /\ Head(main.todo) = "deregister" /\ Begun(j)
      /\ j \notin attached /\ Pending("deregister")
  BY DoingIt
<1>2. /\ <<>> \in Seq(Steps) /\ ReleasedFirst' /\ StoppedFirst' /\ FiredOnce'
      /\ main' = Idle \/ (main' \in [job : Jobs, todo : Seq(Steps) \ {<<>>}] /\ main'.job = j)
      /\ \A step : Pending(step)' => Pending(step)
  BY <1>1, OverKeeps
<1>3. TypeOK'
  BY <1>1, <1>2 DEF TypeOK, Begun
<1>4. Untouched' /\ Wired' /\ OnePerBuffer'
  BY <1>1, <1>2 DEF IInv, TypeOK, Untouched, Wired, OnePerBuffer, Begun
<1>5. FiledUntilDisposed'
  <2>1. Disposed(j) <=> j \in cleanups \/ Pending("dispose")
    BY <1>1 DEF Disposed
  <2>2. ~Contains(<<>>, "dispose")
    BY DEF Contains
  <2>. QED  BY <1>1, <1>2, <2>1, <2>2, ThenFiled DEF IInv, FiledUntilDisposed
<1>6. UnfiledIsStopped'
  BY <1>1 DEF IInv, UnfiledIsStopped, StoppedFirst, Begun
<1>7. HooksComeAfterRelease' /\ ExitIsHeard'
  BY DEF IInv, HooksComeAfterRelease, ExitIsHeard
<1>. QED  BY <1>2, <1>3, <1>4, <1>5, <1>6, <1>7 DEF IInv

\* The job is disposed of.
LEMMA DisposeTerminalKeeps ==
    ASSUME IInv, NEW j \in Jobs, DisposeTerminal(j)
    PROVE  IInv'
<1>. USE DEF DisposeTerminal
<1>1. /\ TypeOK /\ main # Idle /\ main.job = j /\ Head(main.todo) = "dispose" /\ Begun(j)
      /\ Pending("dispose") /\ Disposed(j)
  BY DoingIt DEF Disposed
<1>2. /\ <<>> \in Seq(Steps) /\ ReleasedFirst' /\ StoppedFirst' /\ FiredOnce'
      /\ main' = Idle \/ (main' \in [job : Jobs, todo : Seq(Steps) \ {<<>>}] /\ main'.job = j)
      /\ \A step : Pending(step) /\ Head(main.todo) # step => Pending(step)'
  BY <1>1, OverKeeps
<1>3. TypeOK'
  <2>1. listeners' \in [Jobs -> Seq({"runner", "hooks", "deregister"})]
    BY DEF IInv, TypeOK
  <2>2. asked' \subseteq asked \cup {j}
    OBVIOUS
  <2>. QED  BY <1>1, <1>2, <2>1, <2>2 DEF TypeOK, Begun
<1>4. Untouched' /\ Wired' /\ OnePerBuffer'
  <2>1. listeners'[j] = <<>> /\ \A i \in Jobs \ {j} : listeners'[i] = listeners[i]
    BY <1>1 DEF TypeOK
  <2>2. Wired'
    BY <1>1, <2>1 DEF IInv, Wired
  <2>. QED  BY <1>1, <1>2, <2>2 DEF IInv, Untouched, OnePerBuffer, Begun
<1>5. FiledUntilDisposed'
  <2>1. proc[j] # "reported" =>
            editor = "vim" /\ (j \in executions \ cut => WillDeregister(j))
    <3>1. editor \in {"vim", "nvim", "vscode"}
      BY <1>1, EditorsAssumption DEF TypeOK
    <3>. QED  BY <1>1, <3>1 DEF IInv, FiledUntilDisposed
  <2>2. WillDeregister(j) => Pending("deregister")'
    BY <1>1, <1>2 DEF WillDeregister
  <2>. QED  BY <1>1, <1>2, <2>1, <2>2, ThenFiled DEF IInv
<1>6. UnfiledIsStopped' /\ HooksComeAfterRelease' /\ ExitIsHeard'
  BY DEF IInv, UnfiledIsStopped, HooksComeAfterRelease, ExitIsHeard, Begun
<1>. QED  BY <1>2, <1>3, <1>4, <1>5, <1>6 DEF IInv

-----------------------------------------------------------------------------
(***************************************************************************)
(* The theorems.                                                           *)
(***************************************************************************)

\* Every step keeps the invariant.
LEMMA StepKeeps == IInv /\ [Next]_vars => IInv'
<1>. SUFFICES ASSUME IInv, [Next]_vars PROVE IInv'
  OBVIOUS
<1>1. ASSUME NEW j \in Jobs, NEW b \in Buffers, Launch(j, b) \/ LaunchFails(j, b)  PROVE IInv'
  BY <1>1, LaunchKeeps, LaunchFailsKeeps
<1>2. ASSUME NEW j \in Jobs, Dies(j) \/ ReportExit(j) \/ Wipe(j) \/ Terminate(j) \/ Cleanup(j)
      PROVE  IInv'
  BY <1>2, DiesKeeps, ReportExitKeeps, WipeKeeps, TerminateKeeps, CleanupKeeps
<1>3. ASSUME NEW j \in Jobs, MainStep(j)  PROVE IInv'
  BY <1>3, StopProcessKeeps, TooDeepKeeps, NothingToStopKeeps, FireKeeps, DisposeJobKeeps,
     ReleaseKeeps, CallHooksKeeps, HookRaisesKeeps, DeregisterKeeps, DisposeTerminalKeeps
     DEF MainStep
<1>4. CASE UNCHANGED vars
  <2>1. UNCHANGED <<editor, proc, asked, buffer, handle, attached, listeners, functions,
                    cleanups, executions, main, hooked, cut>>
    BY <1>4 DEF vars
  <2>. QED
    BY <2>1 DEF IInv, TypeOK, Untouched, Wired, OnePerBuffer, ReleasedFirst, StoppedFirst,
       FiredOnce, FiledUntilDisposed, WillDeregister, Disposed, Pending, UnfiledIsStopped,
       HooksComeAfterRelease, ExitIsHeard, Begun
<1>. QED  BY <1>1, <1>2, <1>3, <1>4 DEF Next

\* The invariant holds in every reachable state.
THEOREM Invariance == Spec => []IInv
BY InitHolds, StepKeeps, PTL DEF Spec

\* The state is well formed: only jobs that were started are wired or filed, and
\* the main thread has steps to take only for a job.
THEOREM TypeCorrect == Spec => []TypeOK
<1>1. IInv => TypeOK
  BY DEF IInv
<1>. QED  BY Invariance, <1>1, PTL

\* However terminals are launched, terminated, wiped out and die, at most one
\* runner writes into a buffer.
THEOREM OneWriter == Spec => []OneUpdaterPerBuffer
<1>1. IInv => OneUpdaterPerBuffer
  BY DEF IInv, Untouched, OnePerBuffer, OneUpdaterPerBuffer
<1>. QED  BY Invariance, <1>1, PTL

\* A terminal that is no longer filed does not run on untold, and while one is
\* filed its exit is heard unless its listeners were cut short.
THEOREM NoTerminalIsLost == Spec => []NoneIsLost
<1>1. IInv => NoneIsLost
  BY DEF IInv, NoneIsLost
<1>. QED  BY Invariance, <1>1, PTL

\* Hooks never see a job the runner still holds; on Neovim they are called once.
THEOREM HooksInTheirPlace == Spec => []HooksComeAfterRelease
<1>1. IInv => HooksComeAfterRelease
  BY DEF IInv
<1>. QED  BY Invariance, <1>1, PTL
===============================================================================
