------------------------------- MODULE Delivery -------------------------------
(***************************************************************************)
(* What the thread executor promises a caller: work that is started ends,  *)
(* and then its callbacks are called at most once, with its own result.    *)
(* Nothing is said of ids, queues or timers.                               *)
(***************************************************************************)
CONSTANT Requests

VARIABLE state      \* of each request: "new", "started", "done" or "delivered"

Init == state = [r \in Requests |-> "new"]

Move(r, from, to) == state[r] = from /\ state' = [state EXCEPT ![r] = to]

Begin(r)   == Move(r, "new", "started")
Finish(r)  == Move(r, "started", "done")
Deliver(r) == Move(r, "done", "delivered")

Next == \E r \in Requests : Begin(r) \/ Finish(r) \/ Deliver(r)

Spec == Init /\ [][Next]_state
===============================================================================
