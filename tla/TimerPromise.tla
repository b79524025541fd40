----------------------------- MODULE TimerPromise -----------------------------
(***************************************************************************)
(* What a timer task promises its caller, without names, timers or posted  *)
(* calls: a registration is armed once, its function runs one call at a    *)
(* time and no more often than asked, it is not started again once the     *)
(* registration is dropped or has ended, and its end is reported once.     *)
(***************************************************************************)
EXTENDS Integers

CONSTANTS Repeats, MaxTasks

Ids == 1 .. MaxTasks

VARIABLES
    phase,      \* "new", "armed", "dropped" or "ended"
    wanted,     \* the repeat count asked for
    count,      \* how often a counted function has been started
    busy        \* the registration whose function is executing, or 0

vars == <<phase, wanted, count, busy>>

Init ==
    /\ phase  = [g \in Ids |-> "new"]
    /\ wanted = [g \in Ids |-> 0]
    /\ count  = [g \in Ids |-> 0]
    /\ busy   = 0

\* Registrations in D lose their name to a new one, or to a deregister.
Dropping(D) == [h \in Ids |-> IF h \in D THEN "dropped" ELSE phase[h]]
Armed       == {h \in Ids : phase[h] = "armed"}

Arm(g, r, D) ==
    /\ phase[g] = "new"
    /\ phase'  = [Dropping(D) EXCEPT ![g] = "armed"]
    /\ wanted' = [wanted EXCEPT ![g] = r]
    /\ UNCHANGED <<count, busy>>

Drop(D) ==
    /\ phase' = Dropping(D)
    /\ UNCHANGED <<wanted, count, busy>>

Begin(g) ==
    /\ busy = 0
    /\ phase[g] = "armed"
    /\ wanted[g] > 0 => count[g] < wanted[g]
    /\ busy'  = g
    /\ count' = IF wanted[g] > 0 THEN [count EXCEPT ![g] = @ + 1] ELSE count
    /\ UNCHANGED <<phase, wanted>>

Return ==
    /\ busy # 0
    /\ wanted[busy] > 0 => count[busy] < wanted[busy]
    /\ busy' = 0
    /\ UNCHANGED <<phase, wanted, count>>

End(D) ==
    /\ busy # 0
    /\ phase[busy] # "ended"
    /\ phase' = [Dropping(D) EXCEPT ![busy] = "ended"]
    /\ busy'  = 0
    /\ UNCHANGED <<wanted, count>>

\* At most one other registration goes in any step.
Victims == {D \in SUBSET Armed : \A g, h \in D : g = h}

Next ==
    \/ \E g \in Ids, r \in Repeats, D \in Victims : Arm(g, r, D)
    \/ \E g \in Ids : Begin(g)
    \/ \E D \in Victims : Drop(D) \/ End(D)
    \/ Return

Spec == Init /\ [][Next]_vars
=============================================================================
