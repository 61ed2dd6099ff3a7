--------------------------- MODULE SchedFairness ---------------------------
(***************************************************************************)
(* How long a queued task waits: the scheduler of TaskSched with a history *)
(* variable that records, for every task in the ready queue, which tasks   *)
(* were given the hart since it was queued.                                *)
(***************************************************************************)
EXTENDS TaskSched

VARIABLE served

hvars == <<vars, served>>

Dispatched == IF s_current' = s_current THEN {} ELSE {s_current'}

(* The waits after a step: begun, continued or over. *)
Served(s) ==
  CASE s \notin Members(ready)' -> {}
    [] s \in Members(ready)' /\ s \notin Members(ready) -> Dispatched
    [] OTHER -> served[s] \cup Dispatched

HInit == Init /\ served = [s \in Slots |-> {}]
HNext == Next /\ served' = [s \in Slots |-> Served(s)]
HSpec == HInit /\ [][HNext]_hvars

(* Nobody is served twice while another task waits: a task ahead of s in    *)
(* the queue has not run since s was queued, so s waits for at most one     *)
(* turn of every other task (scheduler.cpp:41-55 pops the front and         *)
(* requeues at the back).                                                   *)
NoSecondTurnFirst ==
  \A j \in 1..Len(ready) :
    \A i \in 1..(j - 1) : ready[i] \notin served[ready[j]]
=============================================================================
