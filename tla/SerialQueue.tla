----------------------------- MODULE SerialQueue -----------------------------
(***************************************************************************)
(* What include/ntt/queue.h promises of the queues of a loop: the tasks    *)
(* pushed to one queue run one at a time and in the order of the pushes,   *)
(* every task that is pushed runs exactly once, and tasks of different     *)
(* queues are independent. Threads, reference counts and the combine are   *)
(* not visible here.                                                       *)
(***************************************************************************)
EXTENDS Sequences

CONSTANTS Queues, Tasks

VARIABLES
    pending, \* [Queues -> Seq(Tasks)]: pushed and not finished, oldest first
    running, \* queues whose oldest task is running
    fresh    \* tasks not pushed yet

vars == <<pending, running, fresh>>

(* Any number of tasks may be waiting when the loop starts.                *)
Init ==
    /\ pending \in [Queues -> {<<>>} \cup {<<k>> : k \in Tasks}]
    /\ running = {}
    /\ fresh \in SUBSET Tasks

Push(q, k) ==
    /\ k \in fresh
    /\ fresh' = fresh \ {k}
    /\ pending' = [pending EXCEPT ![q] = Append(@, k)]
    /\ UNCHANGED running

Start(q) ==
    /\ pending[q] # <<>>
    /\ q \notin running
    /\ running' = running \cup {q}
    /\ UNCHANGED <<pending, fresh>>

Finish(q) ==
    /\ q \in running
    /\ running' = running \ {q}
    /\ pending' = [pending EXCEPT ![q] = Tail(@)]
    /\ UNCHANGED fresh

Next == \E q \in Queues : \/ \E k \in Tasks : Push(q, k)
                          \/ Start(q)
                          \/ Finish(q)

(* A task that waits is started and a task that runs returns.              *)
Spec == /\ Init /\ [][Next]_vars
        /\ \A q \in Queues : WF_vars(Start(q)) /\ WF_vars(Finish(q))
=============================================================================
