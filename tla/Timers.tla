------------------------------- MODULE Timers -------------------------------
(***************************************************************************)
(* What include/ntt/timer.h and timer_heap.h promise of the timers of a    *)
(* queue: a timer that is armed either fires once or is cancelled; timers  *)
(* fire in the order of their deadlines, those with equal deadlines in the *)
(* order they were armed; a pass over the timers fires all that are due,   *)
(* those armed by the timers it fires included, and never one that is not. *)
(***************************************************************************)
EXTENDS Integers, Sequences

CONSTANTS Deadlines, MaxTimers

VARIABLES
    armed,  \* the armed timers: deadline and rank in the order of arming
    fired,  \* the timers that have fired, in order
    count,  \* timers armed so far
    pass    \* the time a pass runs for, 0 when there is none

vars == <<armed, fired, count, pass>>

Before(s, t) == \/ s.deadline < t.deadline
                \/ s.deadline = t.deadline /\ s.seq < t.seq

Init == armed = {} /\ fired = <<>> /\ count = 0 /\ pass = 0

Arm(d) ==
    /\ count < MaxTimers
    /\ armed' = armed \cup {[deadline |-> d, seq |-> count]}
    /\ count' = count + 1
    /\ UNCHANGED <<fired, pass>>

Cancel(t) ==
    /\ t \in armed
    /\ armed' = armed \ {t}
    /\ UNCHANGED <<fired, count, pass>>

Begin(now) ==
    /\ pass = 0
    /\ pass' = now
    /\ UNCHANGED <<armed, fired, count>>

Fire(t) ==
    /\ pass # 0
    /\ t \in armed
    /\ t.deadline <= pass
    /\ \A u \in armed \ {t} : Before(t, u)
    /\ armed' = armed \ {t}
    /\ fired' = Append(fired, t)
    /\ UNCHANGED <<count, pass>>

End ==
    /\ pass # 0
    /\ \A t \in armed : t.deadline > pass
    /\ pass' = 0
    /\ UNCHANGED <<armed, fired, count>>

(* The queue is destroyed with whatever is still armed.                    *)
Drop ==
    /\ pass = 0
    /\ armed' = {}
    /\ UNCHANGED <<fired, count, pass>>

Next == \/ \E d \in Deadlines : Arm(d) \/ Begin(d)
        \/ \E t \in armed : Cancel(t) \/ Fire(t)
        \/ End
        \/ Drop

Spec == Init /\ [][Next]_vars
=============================================================================
