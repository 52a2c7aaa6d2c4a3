-------------------------------- MODULE Watch --------------------------------
(***************************************************************************)
(* What an event promises to the application (src/include/ntt/event.h):    *)
(* notifications of a side coalesce while its handler is due, handlers of  *)
(* a side run one at a time, none begins a second turn once the event is   *)
(* cancelled, and the sides are told of the cancellation one after the     *)
(* other when nothing is in flight. References, handles, queues and        *)
(* workers are not part of the promise. Event implements this module for   *)
(* every slot; Reader is built on it.                                      *)
(***************************************************************************)
EXTENDS Naturals, Sequences

Sides == {"readable", "writable"}

VARIABLES
    phase,    \* "none", "open" or "closed"
    interest, \* sides the event is subscribed to
    order,    \* sides that are told of the end, in that order
    notified, \* sides with a notification nobody has taken
    taken,    \* sides whose handler runs or is on its way to
    running,  \* sides whose handler runs
    told      \* sides told so far

vars == <<phase, interest, order, notified, taken, running, told>>

Orders == {<<"writable", "readable">>, <<"writable">>, <<"readable">>}

Init ==
    /\ phase = "none"
    /\ interest = {}
    /\ order = <<>>
    /\ notified = {} /\ taken = {} /\ running = {}
    /\ told = <<>>

Start(i, o) ==
    /\ phase = "none"
    /\ i # {} /\ o \in Orders
    /\ \A d \in i : \E n \in 1..Len(o) : o[n] = d
    /\ phase' = "open"
    /\ interest' = i
    /\ order' = o
    /\ notified' = {} /\ taken' = {} /\ running' = {}
    /\ told' = <<>>

(* A notification may still arrive after the cancellation.                 *)
Notify(ds) ==
    /\ phase # "none" /\ told = <<>>
    /\ ds \subseteq interest
    /\ notified' = notified \cup ds
    /\ UNCHANGED <<phase, interest, order, taken, running, told>>

Take(d) ==
    /\ phase = "open"
    /\ d \in notified \ taken
    /\ notified' = notified \ {d}
    /\ taken' = taken \cup {d}
    /\ UNCHANGED <<phase, interest, order, running, told>>

(* A side taken before the cancellation is still served after it.          *)
Begin(d) ==
    /\ d \in taken \ running
    /\ running' = running \cup {d}
    /\ UNCHANGED <<phase, interest, order, notified, taken, told>>

(* The handler returns; the side has another turn when it was notified     *)
(* meanwhile, unless the event is cancelled.                               *)
End(d) ==
    /\ d \in running
    /\ running' = running \ {d}
    /\ notified' = notified \ {d}
    /\ taken' = IF d \in notified /\ phase = "open" THEN taken ELSE taken \ {d}
    /\ UNCHANGED <<phase, interest, order, told>>

Cancel ==
    /\ phase = "open"
    /\ phase' = "closed"
    /\ UNCHANGED <<interest, order, notified, taken, running, told>>

(* Nothing is in flight when a side is told.                               *)
Tell ==
    /\ phase = "closed" /\ taken = {}
    /\ Len(told) < Len(order)
    /\ told' = Append(told, order[Len(told) + 1])
    /\ UNCHANGED <<phase, interest, order, notified, taken, running>>

Finish ==
    /\ phase = "closed" /\ told = order
    /\ phase' = "none"
    /\ interest' = {}
    /\ order' = <<>>
    /\ notified' = {} /\ taken' = {} /\ running' = {}
    /\ told' = <<>>

Next ==
    \/ \E i \in SUBSET Sides, o \in Orders : Start(i, o)
    \/ \E ds \in SUBSET Sides : Notify(ds)
    \/ \E d \in Sides : Take(d) \/ Begin(d) \/ End(d)
    \/ Cancel \/ Tell \/ Finish

Spec == Init /\ [][Next]_vars
=============================================================================
