-------------------------------- MODULE Event --------------------------------
(***************************************************************************)
(* The descriptors watched by a loop (src/src/event.c): how an event is    *)
(* opened, how a notification of epoll is resolved, published, claimed and *)
(* delivered to the queue of its side, how handlers of a side stay serial, *)
(* how ntt_event_cancel races all of that, and how the last reference      *)
(* reports the cancellation and gives the slot back to a slab that reuses  *)
(* it (src/src/slab.c).                                                    *)
(*                                                                         *)
(* A queue is what SerialQueue promises: a FIFO whose tasks run one at a   *)
(* time, on a thread of its own here, since any worker may serve it. The   *)
(* kernel is external: it may report a registered handle at any time, and  *)
(* a report already fetched stays on its way whatever happens meanwhile.   *)
(* Every atomic read-modify-write is one action, a compare-exchange loop   *)
(* included, and what lies between two of them is a program counter.       *)
(***************************************************************************)
EXTENDS Integers, Sequences, FiniteSets

CONSTANTS
    Slots,       \* slots of the event slab
    Queues,      \* queues events are delivered in; each is served by itself
    Dispatchers, \* workers that fetch notifications from epoll
    Users,       \* threads that start and cancel events
    NoQueue,     \* NULL ntt_queue_t*
    Params,      \* interests and queues the application opens events with
    MaxOpens,    \* bound on ntt_event_start calls
    MaxNotify    \* bound on notifications of the kernel

Threads == Queues \cup Dispatchers \cup Users

ASSUME EventThreads == /\ Queues \cap Dispatchers = {}
                       /\ Queues \cap Users = {}
                       /\ Dispatchers \cap Users = {}
                       /\ NoQueue \notin Queues
ASSUME EventBounds == MaxOpens \in Nat /\ MaxNotify \in Nat /\ Slots # {}

Sides == {"readable", "writable"}

Handles == [slot : Slots, gen : 1..(MaxOpens + 1)]

(* What the locals of a thread hold between two calls.                     *)
AnyHandle == CHOOSE h \in Handles : h.gen = 1

(* What ntt_event_start accepts: a queue for every side subscribed to.     *)
Accepted == {p \in [interest : (SUBSET Sides) \ {{}},
                    queues : [Sides -> Queues \cup {NoQueue}]] :
               \A d \in p.interest : p.queues[d] # NoQueue}

NoQueues == [d \in Sides |-> NoQueue]

(* The descriptors of the loop itself, the eventfd of the combine and the  *)
(* timerfd: no queue, not serial, no work, opened with the loop and never  *)
(* cancelled.                                                              *)
Own == [interest |-> {"readable"}, queues |-> NoQueues]
AcceptedOrOwn == Accepted \cup {Own}

ASSUME EventParams == Params \subseteq AcceptedOrOwn

(* The fields of a slot nobody has opened yet.                             *)
NoParams == [interest |-> {}, queues |-> NoQueues]

VARIABLES
    gen,       \* [Slots -> Nat]: slab generation of each slot
    free,      \* slots on the free list
    refs,      \* [Slots -> Int]
    ready,     \* [Slots -> SUBSET Sides]: the READY bits of state
    busy,      \* [Slots -> SUBSET Sides]: the BUSY bits of state
    closed,    \* slots whose CLOSED bit is set
    params,    \* [Slots -> Params or NoParams]: interest and queues
    epoll,     \* handles registered in the kernel
    queue,     \* [Queues -> Seq(tasks)]; the head is the one that runs
    qrefs,     \* [Queues -> Int]: queue references held by events
    work,      \* units of loop work held by events
    pc,        \* where each thread is
    op,        \* the call a thread is in: "dispatch", "cancel" or "side"
    hdl,       \* the handle that call was given
    side,      \* the side a thread works on
    todo,      \* the reported mask, then the sides still to deliver
    drops,     \* references the thread has still to release
    held,      \* the queues ntt_event_finish read before giving the slot back
    known,     \* handles the application has been given
    cancelled, \* handles for which a call of ntt_event_cancel has returned
    owed,      \* [Slots -> SUBSET Sides]: published, handler not called since
    reported,  \* [Slots -> Seq(Sides)]: cancelled callbacks of this tenant
    opens, notes \* ntt_event_start calls and notifications so far

slot_vars == <<gen, free, params>>
state_vars == <<ready, busy, closed>>
kernel_vars == <<epoll, notes>>
queue_vars == <<queue, qrefs, work>>
thread_vars == <<pc, op, hdl, side, todo, drops, held>>
ghost_vars == <<known, cancelled, owed, reported, opens>>
vars == <<slot_vars, refs, state_vars, kernel_vars, queue_vars, thread_vars,
          ghost_vars>>

PCs == {"idle", "resolve", "check", "publish", "claim", "post", "push", "close",
        "del", "release", "report_last", "store", "add", "call", "handler",
        "leave_side", "report", "give", "finish", "leave_work", "end", "here",
        "wakeup"}

Task(kind, s, d) == [kind |-> kind, slot |-> s, side |-> d]
TaskSet == [kind : {"side", "cancelled"}, slot : Slots, side : Sides]

TypeOK ==
    /\ gen \in [Slots -> 1..(MaxOpens + 1)]
    /\ free \in SUBSET Slots
    /\ refs \in [Slots -> Nat]
    /\ ready \in [Slots -> SUBSET Sides]
    /\ busy \in [Slots -> SUBSET Sides]
    /\ closed \in SUBSET Slots
    /\ params \in [Slots -> Params \cup {NoParams}]
    /\ epoll \in SUBSET Handles
    /\ queue \in [Queues -> Seq(TaskSet)]
    /\ qrefs \in [Queues -> Nat]
    /\ work \in Nat
    /\ pc \in [Threads -> PCs]
    /\ op \in [Threads -> {"dispatch", "cancel", "side"}]
    /\ hdl \in [Threads -> Handles]
    /\ side \in [Threads -> Sides]
    /\ todo \in [Threads -> SUBSET (Sides \cup {"hangup"})]
    /\ drops \in [Threads -> 0..2]
    /\ held \in [Threads -> [Sides -> Queues \cup {NoQueue}]]
    /\ known \in SUBSET Handles
    /\ cancelled \in SUBSET Handles
    /\ owed \in [Slots -> SUBSET Sides]
    /\ reported \in [Slots -> Seq(Sides)]
    /\ opens \in 0..MaxOpens /\ notes \in 0..MaxNotify

Init ==
    /\ gen = [s \in Slots |-> 1]
    /\ free = Slots
    /\ refs = [s \in Slots |-> 0]
    /\ ready = [s \in Slots |-> {}]
    /\ busy = [s \in Slots |-> {}]
    /\ closed = {}
    /\ params = [s \in Slots |-> NoParams]
    /\ epoll = {}
    /\ queue = [q \in Queues |-> <<>>]
    /\ qrefs = [q \in Queues |-> 0]
    /\ work = 0
    /\ pc = [t \in Threads |-> "idle"]
    /\ op = [t \in Threads |-> "side"]
    /\ hdl = [t \in Threads |-> AnyHandle]
    /\ side = [t \in Threads |-> "readable"]
    /\ todo = [t \in Threads |-> {}]
    /\ drops = [t \in Threads |-> 0]
    /\ held = [t \in Threads |-> NoQueues]
    /\ known = {}
    /\ cancelled = {}
    /\ owed = [s \in Slots |-> {}]
    /\ reported = [s \in Slots |-> <<>>]
    /\ opens = 0
    /\ notes = 0

slot(t) == hdl[t].slot

(* The handle of an event, rebuilt from its slot.                          *)
HandleOf(s) == [slot |-> s, gen |-> gen[s]]

(* The event is one of the loop's own descriptors.                         *)
Owned(s) == params[s].queues = NoQueues

Go(t, label) == pc' = [pc EXCEPT ![t] = label]

(* How many references an event takes of a queue: one per side, also when  *)
(* the sides share it.                                                     *)
Uses(qs, q) == Cardinality({d \in Sides : qs[d] = q})

-----------------------------------------------------------------------------
(* ntt_event_open: slab slot, fields, queue references; refs is still 0,   *)
(* so a stale handle to the slot resolves to nothing.                      *)
OpenEvent(u, s, p) ==
    /\ pc[u] = "idle"
    /\ s \in free
    /\ opens < MaxOpens
    /\ opens' = opens + 1
    /\ free' = free \ {s}
    /\ params' = [params EXCEPT ![s] = p]
    /\ ready' = [ready EXCEPT ![s] = {}]
    /\ busy' = [busy EXCEPT ![s] = {}]
    /\ closed' = closed \ {s}
    /\ qrefs' = [q \in Queues |-> qrefs[q] + Uses(p.queues, q)]
    /\ hdl' = [hdl EXCEPT ![u] = HandleOf(s)]
    /\ owed' = [owed EXCEPT ![s] = {}]
    /\ reported' = [reported EXCEPT ![s] = <<>>]
    /\ Go(u, "store")
    /\ UNCHANGED <<gen, refs, kernel_vars, queue, work, op, side, todo, drops,
                   held, known, cancelled>>

(* ... the store that publishes it, and ntt_loop_work_enter ...            *)
StoreRefs(u) ==
    /\ pc[u] = "store"
    /\ refs' = [refs EXCEPT ![slot(u)] = 1]
    /\ work' = IF Owned(slot(u)) THEN work ELSE work + 1
    /\ Go(u, "add")
    /\ UNCHANGED <<slot_vars, state_vars, kernel_vars, queue, qrefs, op, hdl,
                   side, todo, drops, held, ghost_vars>>

(* ... and the registration: from here on handlers run.                    *)
EpollAdd(u) ==
    /\ pc[u] = "add"
    /\ epoll' = epoll \cup {hdl[u]}
    /\ known' = IF Owned(slot(u)) THEN known ELSE known \cup {hdl[u]}
    /\ hdl' = [hdl EXCEPT ![u] = AnyHandle]
    /\ Go(u, "idle")
    /\ UNCHANGED <<slot_vars, refs, state_vars, notes, queue_vars, op, side,
                    todo, drops, held, cancelled, owed, reported, opens>>

-----------------------------------------------------------------------------
(* ntt_event_sides_of: an error or a hangup counts for every direction.    *)
SidesOf(events, interest) ==
    {d \in interest : d \in events \/ "hangup" \in events}

(* epoll_pwait returns a registered handle to a worker.                    *)
Notify(d, h, events) ==
    /\ pc[d] = "idle"
    /\ h \in epoll
    /\ events \in SUBSET (params[h.slot].interest \cup {"hangup"}) \ {{}}
    /\ notes < MaxNotify
    /\ notes' = notes + 1
    /\ op' = [op EXCEPT ![d] = "dispatch"]
    /\ hdl' = [hdl EXCEPT ![d] = h]
    /\ todo' = [todo EXCEPT ![d] = events]
    /\ Go(d, "resolve")
    /\ UNCHANGED <<slot_vars, refs, state_vars, epoll, queue_vars, side, drops,
                   held, ghost_vars>>

(* ntt_event_cancel by a thread that keeps the handle, or by a handler of  *)
(* the event itself.                                                       *)
Cancel(t, h) ==
    /\ \/ t \in Users /\ pc[t] = "idle" /\ h \in known
       \/ t \in Queues /\ pc[t] = "handler" /\ h = hdl[t]
    /\ op' = [op EXCEPT ![t] = "cancel"]
    /\ hdl' = [hdl EXCEPT ![t] = h]
    /\ Go(t, "resolve")
    /\ UNCHANGED <<slot_vars, refs, state_vars, kernel_vars, queue_vars, side,
                   todo, drops, held, ghost_vars>>

(* Where a call that is over goes: a handler that cancelled its own event  *)
(* goes on, the task of a side is finished, a worker or a user is free.    *)
Returns(t) ==
    /\ Go(t, IF t \notin Queues THEN "idle"
             ELSE IF op[t] = "cancel" THEN "handler" ELSE "end")
    /\ op' = [op EXCEPT ![t] = "side"]
    /\ IF t \in Queues
       THEN UNCHANGED <<hdl, side, todo>>
       ELSE /\ hdl' = [hdl EXCEPT ![t] = AnyHandle]
            /\ side' = [side EXCEPT ![t] = "readable"]
            /\ todo' = [todo EXCEPT ![t] = {}]
    /\ cancelled' = IF op[t] = "cancel" THEN cancelled \cup {hdl[t]}
                                        ELSE cancelled

(* ntt_event_acquire_if_live, the first half of ntt_event_live.            *)
Resolve(t) ==
    /\ pc[t] = "resolve"
    /\ IF refs[slot(t)] = 0
       THEN Returns(t) /\ UNCHANGED refs
       ELSE /\ refs' = [refs EXCEPT ![slot(t)] = @ + 1]
            /\ Go(t, "check")
            /\ UNCHANGED <<op, hdl, side, todo, cancelled>>
    /\ UNCHANGED <<slot_vars, state_vars, kernel_vars, queue_vars, drops, held,
                   known, owed, reported, opens>>

SameTenantAlways(t) == TRUE  \* mutant
SameTenant(t) == gen[slot(t)] = hdl[t].gen

(* Only with the reference in hand is the generation trusted.              *)
CheckGeneration(t) ==
    /\ pc[t] = "check"
    /\ Go(t, IF ~SameTenant(t) THEN "release"
             ELSE IF op[t] = "cancel" THEN "close"
             ELSE IF Owned(slot(t)) THEN "here" ELSE "publish")
    /\ drops' = [drops EXCEPT ![t] = 1]
    /\ UNCHANGED <<slot_vars, refs, state_vars, kernel_vars, queue_vars, op,
                   hdl, side, todo, held, ghost_vars>>

-----------------------------------------------------------------------------
(* ntt_event_dispatch publishes the notification before it claims a side.  *)
Publish(d) ==
    /\ pc[d] = "publish"
    /\ LET sides == SidesOf(todo[d], params[slot(d)].interest)
       IN  /\ todo' = [todo EXCEPT ![d] = sides]
           /\ ready' = [ready EXCEPT ![slot(d)] = @ \cup sides]
           /\ owed' = [owed EXCEPT ![slot(d)] = @ \cup sides]
    /\ Go(d, "claim")
    /\ UNCHANGED <<slot_vars, refs, busy, closed, kernel_vars, queue_vars, op,
                   hdl, side, drops, held, known, cancelled, reported, opens>>

(* An event that is not serial is served by the worker that was notified,  *)
(* whoever else serves it: its handler returns.                            *)
ServedHere(d) ==
    /\ pc[d] = "here"
    /\ Go(d, "release")
    /\ UNCHANGED <<slot_vars, refs, state_vars, kernel_vars, queue_vars, op,
                   hdl, side, todo, drops, held, ghost_vars>>

(* ntt_event_claim_side succeeds.                                          *)
ClaimableBusy(s, d) == d \in ready[s] /\ s \notin closed  \* mutant
Claimable(s, d) == d \in ready[s] /\ d \notin busy[s] /\ s \notin closed

(* The writable side goes first.                                           *)
NextSide(t) == IF "writable" \in todo[t] THEN "writable" ELSE "readable"

ClaimSide(d) ==
    /\ pc[d] = "claim"
    /\ todo[d] # {}
    /\ LET s == slot(d)
           e == NextSide(d)
       IN  /\ todo' = [todo EXCEPT ![d] = @ \ {e}]
           /\ side' = [side EXCEPT ![d] = e]
           /\ IF Claimable(s, e)
              THEN /\ ready' = [ready EXCEPT ![s] = @ \ {e}]
                   /\ busy' = [busy EXCEPT ![s] = @ \cup {e}]
                   /\ Go(d, "post")
              ELSE UNCHANGED <<ready, busy, pc>>
    /\ UNCHANGED <<slot_vars, refs, closed, kernel_vars, queue_vars, op, hdl,
                   drops, held, ghost_vars>>

(* Nothing is left to deliver.                                             *)
Delivered(d) ==
    /\ pc[d] = "claim"
    /\ todo[d] = {}
    /\ Go(d, "release")
    /\ UNCHANGED <<slot_vars, refs, state_vars, kernel_vars, queue_vars, op,
                   hdl, side, todo, drops, held, ghost_vars>>

(* ntt_event_post_side: the reference of the task, then the push.          *)
PostedRefsMissing(s) == refs  \* mutant
PostedRefs(s) == [refs EXCEPT ![s] = @ + 1]

PostSide(d) ==
    /\ pc[d] = "post"
    /\ refs' = PostedRefs(slot(d))
    /\ Go(d, "push")
    /\ UNCHANGED <<slot_vars, state_vars, kernel_vars, queue_vars, op, hdl,
                   side, todo, drops, held, ghost_vars>>

PushSide(d) ==
    /\ pc[d] = "push"
    /\ queue' = [queue EXCEPT ![params[slot(d)].queues[side[d]]] =
                    Append(@, Task("side", slot(d), side[d]))]
    /\ Go(d, "claim")
    /\ UNCHANGED <<slot_vars, refs, state_vars, kernel_vars, qrefs, work, op,
                   hdl, side, todo, drops, held, ghost_vars>>

-----------------------------------------------------------------------------
(* ntt_event_cancel sets CLOSED; whoever sets it owes the reference of     *)
(* ntt_event_start too.                                                    *)
FirstToClose(s) == s \notin closed

Close(t) ==
    /\ pc[t] = "close"
    /\ closed' = closed \cup {slot(t)}
    /\ Go(t, IF FirstToClose(slot(t)) THEN "del" ELSE "release")
    /\ UNCHANGED <<slot_vars, refs, ready, busy, kernel_vars, queue_vars, op,
                   hdl, side, todo, drops, held, ghost_vars>>

UnregisteredNot(h) == epoll  \* mutant
Unregistered(h) == epoll \ {h}

(* ntt_loop_epoll_del, which dies when the descriptor is not registered.   *)
EpollDel(t) ==
    /\ pc[t] = "del"
    /\ hdl[t] \in epoll
    /\ epoll' = Unregistered(hdl[t])
    /\ drops' = [drops EXCEPT ![t] = 2]
    /\ Go(t, "release")
    /\ UNCHANGED <<slot_vars, refs, state_vars, notes, queue_vars, op, hdl,
                   side, todo, held, ghost_vars>>

(* ntt_event_release: the fetch_sub.                                       *)
Release(t) ==
    /\ pc[t] = "release"
    /\ drops' = [drops EXCEPT ![t] = @ - 1]
    /\ refs' = [refs EXCEPT ![slot(t)] = @ - 1]
    /\ IF refs[slot(t)] = 1
       THEN Go(t, "report_last") /\ UNCHANGED <<op, hdl, side, todo, cancelled>>
       ELSE IF drops[t] > 1
       THEN UNCHANGED <<pc, op, hdl, side, todo, cancelled>>
       ELSE Returns(t)
    /\ UNCHANGED <<slot_vars, state_vars, kernel_vars, queue_vars, held, known,
                   owed, reported, opens>>

(* The side the cancellation is reported to first.                         *)
FirstReportReadable(s) == IF params[s].queues["readable"] # NoQueue  \* mutant
                          THEN "readable" ELSE "writable"
FirstReport(s) == IF params[s].queues["writable"] # NoQueue
                  THEN "writable" ELSE "readable"

(* The last reference posts the report. A worker keeps the loop; a thread  *)
(* from outside has still to read the callback of the combine and to write *)
(* its eventfd when another worker has long taken the task.                *)
PostCancelled(t) ==
    /\ pc[t] = "report_last"
    /\ LET d == FirstReport(slot(t))
       IN  queue' = [queue EXCEPT ![params[slot(t)].queues[d]] =
                        Append(@, Task("cancelled", slot(t), d))]
    /\ IF t \in Users
       THEN Go(t, "wakeup") /\ UNCHANGED <<op, hdl, side, todo, cancelled>>
       ELSE Returns(t)
    /\ UNCHANGED <<slot_vars, refs, state_vars, kernel_vars, qrefs, work, drops,
                   held, known, owed, reported, opens>>

(* The end of ntt_combine_push.                                            *)
Wakeup(u) ==
    /\ pc[u] = "wakeup"
    /\ Returns(u)
    /\ UNCHANGED <<slot_vars, refs, state_vars, kernel_vars, queue_vars, drops,
                   held, known, owed, reported, opens>>

-----------------------------------------------------------------------------
(* The queue takes its next task: ntt_event_side_task_svc rebuilds the     *)
(* handle from the slot, ntt_event_cancelled_task_svc reports.             *)
BeginTask(q) ==
    /\ pc[q] = "idle"
    /\ queue[q] # <<>>
    /\ LET k == Head(queue[q])
       IN  /\ hdl' = [hdl EXCEPT ![q] = HandleOf(k.slot)]
           /\ side' = [side EXCEPT ![q] = k.side]
           /\ Go(q, IF k.kind = "side" THEN "call" ELSE "report")
    /\ op' = [op EXCEPT ![q] = "side"]
    /\ UNCHANGED <<slot_vars, refs, state_vars, kernel_vars, queue_vars, todo,
                   drops, held, ghost_vars>>

(* ntt_event_serve_side calls the handler, without a look at CLOSED.       *)
CallHandler(q) ==
    /\ pc[q] = "call"
    /\ owed' = [owed EXCEPT ![slot(q)] = @ \ {side[q]}]
    /\ known' = known \cup {hdl[q]}
    /\ Go(q, "handler")
    /\ UNCHANGED <<slot_vars, refs, state_vars, kernel_vars, queue_vars, op,
                   hdl, side, todo, drops, held, cancelled, reported, opens>>

HandlerReturns(q) ==
    /\ pc[q] = "handler"
    /\ Go(q, "leave_side")
    /\ UNCHANGED <<slot_vars, refs, state_vars, kernel_vars, queue_vars, op,
                   hdl, side, todo, drops, held, ghost_vars>>

(* ntt_event_leave_side: stay when a notification came meanwhile.          *)
StaysBusyClosed(s, d) == d \in ready[s]  \* mutant
StaysBusyNever(s, d) == FALSE  \* mutant
StaysBusy(s, d) == d \in ready[s] /\ s \notin closed

LeaveSide(q) ==
    /\ pc[q] = "leave_side"
    /\ LET s == slot(q)
           d == side[q]
       IN  /\ ready' = [ready EXCEPT ![s] = @ \ {d}]
           /\ IF StaysBusy(s, d)
              THEN Go(q, "call") /\ UNCHANGED <<busy, drops>>
              ELSE /\ busy' = [busy EXCEPT ![s] = @ \ {d}]
                   /\ drops' = [drops EXCEPT ![q] = 1]
                   /\ Go(q, "release")
    /\ UNCHANGED <<slot_vars, refs, closed, kernel_vars, queue_vars, op, hdl,
                   side, todo, held, ghost_vars>>

(* ntt_event_report_cancelled, and the readable side after the writable.   *)
ReportCancelled(q) ==
    /\ pc[q] = "report"
    /\ LET s == slot(q)
           r == params[s].queues["readable"]
       IN  /\ reported' = [reported EXCEPT ![s] = Append(@, side[q])]
           /\ IF side[q] = "writable" /\ r # NoQueue
              THEN /\ queue' = [queue EXCEPT ![r] =
                                   Append(@, Task("cancelled", s, "readable"))]
                   /\ Go(q, "end")
              ELSE Go(q, "give") /\ UNCHANGED queue
    /\ UNCHANGED <<slot_vars, refs, state_vars, kernel_vars, qrefs, work, op,
                   hdl, side, todo, drops, held, known, cancelled, owed, opens>>

(* ntt_event_finish: the slot goes back with a new generation ...          *)
RetiredNot(s) == gen  \* mutant
Retired(s) == [gen EXCEPT ![s] = @ + 1]

GiveSlot(q) ==
    /\ pc[q] = "give"
    /\ held' = [held EXCEPT ![q] = params[slot(q)].queues]
    /\ gen' = Retired(slot(q))
    /\ free' = free \cup {slot(q)}
    /\ Go(q, "finish")
    /\ UNCHANGED <<params, refs, state_vars, kernel_vars, queue_vars, op, hdl,
                   side, todo, drops, ghost_vars>>

(* ... then the queues, the read one before the write one ...              *)
FirstHeld(qs) == IF qs["readable"] # NoQueue THEN "readable" ELSE "writable"

ReleaseHeld(q) ==
    /\ pc[q] = "finish"
    /\ LET d == FirstHeld(held[q])
       IN  /\ qrefs' = [qrefs EXCEPT ![held[q][d]] = @ - 1]
           /\ held' = [held EXCEPT ![q] = [@ EXCEPT ![d] = NoQueue]]
           /\ Go(q, IF d = "readable" /\ held[q]["writable"] # NoQueue
                    THEN "finish" ELSE "leave_work")
    /\ UNCHANGED <<slot_vars, refs, state_vars, kernel_vars, queue, work, op,
                   hdl, side, todo, drops, ghost_vars>>

(* ... and last the unit of work, which lets the loop end.                 *)
FinishEvent(q) ==
    /\ pc[q] = "leave_work"
    /\ work' = work - 1
    /\ Go(q, "end")
    /\ UNCHANGED <<slot_vars, refs, state_vars, kernel_vars, queue, qrefs, op,
                   hdl, side, todo, drops, held, ghost_vars>>

(* The task returns and the queue forgets it.                              *)
EndTask(q) ==
    /\ pc[q] = "end"
    /\ queue' = [queue EXCEPT ![q] = Tail(@)]
    /\ hdl' = [hdl EXCEPT ![q] = AnyHandle]
    /\ side' = [side EXCEPT ![q] = "readable"]
    /\ Go(q, "idle")
    /\ UNCHANGED <<slot_vars, refs, state_vars, kernel_vars, qrefs, work, op,
                   todo, drops, held, ghost_vars>>

-----------------------------------------------------------------------------
Call(t) == \/ Resolve(t) \/ CheckGeneration(t) \/ Release(t) \/ PostCancelled(t)
           \/ Close(t) \/ EpollDel(t) \/ Wakeup(t)

Dispatch(d) == \/ Publish(d) \/ ClaimSide(d) \/ Delivered(d)
               \/ PostSide(d) \/ PushSide(d) \/ ServedHere(d)

Serve(q) == \/ BeginTask(q) \/ CallHandler(q) \/ HandlerReturns(q)
            \/ LeaveSide(q) \/ ReportCancelled(q) \/ GiveSlot(q)
            \/ ReleaseHeld(q) \/ FinishEvent(q) \/ EndTask(q)

Open(u) == StoreRefs(u) \/ EpollAdd(u)

Next ==
    \/ \E u \in Users, s \in Slots, p \in Params : OpenEvent(u, s, p)
    \/ \E d \in Dispatchers, h \in Handles :
          \E events \in SUBSET (Sides \cup {"hangup"}) : Notify(d, h, events)
    \/ \E t \in Threads, h \in Handles : Cancel(t, h)
    \/ \E t \in Threads : Call(t)
    \/ \E u \in Users : Open(u)
    \/ \E d \in Dispatchers : Dispatch(d)
    \/ \E q \in Queues : Serve(q)

Spec == Init /\ [][Next]_vars

(* Threads keep running, a queue with tasks is served (what Loop shows of  *)
(* the workers) and a handler returns after finitely many calls of         *)
(* ntt_event_cancel. The kernel need not notify and nobody need cancel.    *)
Fairness ==
    /\ \A u \in Users : WF_vars(Call(u) \/ Open(u))
    /\ \A d \in Dispatchers : WF_vars(Call(d) \/ Dispatch(d))
    /\ \A q \in Queues : /\ WF_vars(Call(q) \/ Serve(q))
                         /\ SF_vars(HandlerReturns(q))

FairSpec == Spec /\ Fairness

-----------------------------------------------------------------------------
(* The task at the head of the queue has let go of its side / of its       *)
(* reference.                                                              *)
LeftSide(q) == op[q] = "side" /\ pc[q] \in {"release", "report_last", "end"}
LeftEvent(q) == op[q] = "side" /\ pc[q] \in {"report_last", "end"}

(* Places of a task in the queues, the running head included.              *)
Places(k) == {x \in UNION {{q} \X (1..Len(queue[q])) : q \in Queues} :
                 queue[x[1]][x[2]] = k}

(* Whoever serves a side or is on the way to: a dispatcher that claimed    *)
(* it, a task that waits, a handler that runs.                             *)
Servers(s, d) ==
    {<<"post", t>> : t \in {u \in Dispatchers :
        pc[u] \in {"post", "push"} /\ slot(u) = s /\ side[u] = d}}
    \cup {<<"task", x[1], x[2]>> : x \in {y \in Places(Task("side", s, d)) :
        ~(y[2] = 1 /\ LeftSide(y[1]))}}

(* The handler of a side never runs twice at once: BUSY stands for exactly *)
(* one server of the side, from the claim to ntt_event_leave_side, however *)
(* many workers dispatch notifications of the event.                       *)
OneServerPerSide ==
    \A s \in Slots \ free, d \in Sides :
        IF d \in busy[s] THEN \E x \in Servers(s, d) : Servers(s, d) = {x}
                         ELSE Servers(s, d) = {}

(* Whoever is entitled to a reference of the event in a slot.              *)
Holders(s) ==
    {<<"start", s>> : x \in {y \in {s} \ (free \cup closed) :
        \A u \in Users : ~(pc[u] = "store" /\ slot(u) = s)}}
    \cup {<<"close", t>> : t \in {u \in Threads : slot(u) = s /\
        (pc[u] = "del" \/ (pc[u] = "release" /\ drops[u] = 2))}}
    \cup {<<"call", t>> : t \in {u \in Threads : slot(u) = s /\ op[u] # "side" /\
        pc[u] \in {"check", "here", "publish", "claim", "post", "push", "close",
                   "del", "release"}}}
    \cup {<<"post", t>> : t \in {u \in Threads : slot(u) = s /\ pc[u] = "push"}}
    \cup UNION {{<<"task", x[1], x[2]>> : x \in
                   {y \in Places(Task("side", s, d)) :
                       ~(y[2] = 1 /\ LeftEvent(y[1]))}} : d \in Sides}

(* The reference count is the number of those entitled to one: cancelling  *)
(* twice, from a handler, or with a stale handle that met a later tenant   *)
(* of the slot never drops one too many and never leaks one.               *)
RefsCountHolders == \A s \in Slots : refs[s] = Cardinality(Holders(s))

(* The sides that have a queue, in the order they are told.                *)
ReportOrder(s) ==
    LET told == {d \in Sides : params[s].queues[d] # NoQueue}
    IN  IF told = Sides THEN <<"writable", "readable">>
        ELSE IF "writable" \in told THEN <<"writable">> ELSE <<"readable">>

(* A thread that works on an event works on the tenant its handle names:   *)
(* a stale handle that finds the slot taken again touches only the count.  *)
StaleHandleHarmless ==
    \A t \in Threads :
        pc[t] \in {"here", "publish", "claim", "post", "push", "close", "del",
                   "call", "handler", "leave_side", "report", "give"} =>
            slot(t) \notin free /\ gen[slot(t)] = hdl[t].gen

(* The kernel knows only events that are alive, and the canceller that     *)
(* owes the removal finds the registration there: epoll_ctl never fails.   *)
RegisteredWhileLive ==
    /\ \A h \in epoll : gen[h.slot] = h.gen /\ refs[h.slot] > 0
    /\ \A t \in Threads : pc[t] = "del" => hdl[t] \in epoll

(* A published notification of an open event is never forgotten: somebody  *)
(* is about to claim the side, or has and will call the handler, or the    *)
(* handler that runs will find READY when it leaves.                       *)
NotificationKept ==
    \A s \in Slots \ (free \cup closed) : \A d \in owed[s] :
        \/ \E t \in Dispatchers :
              pc[t] \in {"claim", "post", "push"} /\ slot(t) = s /\ d \in todo[t]
        \/ \E x \in Servers(s, d) :
              x[1] = "task" => x[3] # 1 \/ pc[x[2]] \in {"idle", "call"}
        \/ d \in ready[s] /\ d \in busy[s]

(* A side has one server at a time, and has one as long as a notification *)
(* is owed: workers that dispatch, serve and leave at the same moment      *)
(* neither run a handler twice at once nor leave it to each other.         *)
SidesServed == OneServerPerSide /\ NotificationKept

(* Every event keeps its queues and its unit of loop work until its slot   *)
(* has been given back: the queue a task of the event waits in exists, and *)
(* what an event still has to release is released before the unit of work  *)
(* that keeps the loop.                                                    *)
QueuesHeldByEvents ==
    /\ \A q \in Queues :
          qrefs[q] = Cardinality({x \in (Slots \ free) \X Sides :
                                     params[x[1]].queues[x[2]] = q})
                       + Cardinality({x \in Queues \X Sides :
                                         held[x[1]][x[2]] = q})
    /\ \A q \in Queues : \A i \in 1..Len(queue[q]) :
          \/ qrefs[q] > 0
          \/ i = 1 /\ pc[q] \in {"finish", "leave_work", "end"}
    /\ work = 0 => /\ \A t \in Threads : held[t] = NoQueues
                   /\ \A h \in epoll : Owned(h.slot)
                   /\ \A s \in Slots : refs[s] > 0 => Owned(s)

(* The event, the kernel's registration of it and the queues it holds      *)
(* agree at every step of an open, a cancel and a slot given back.         *)
EventConsistent == TypeOK /\ RegisteredWhileLive /\ QueuesHeldByEvents

(* The slot as the application sees it: its own events only.               *)
Blank(s, x, none) == IF s \in free \/ Owned(s) THEN none ELSE x

Promise(s) == INSTANCE Watch WITH
    phase <- Blank(s, IF s \in closed THEN "closed" ELSE "open", "none"),
    interest <- Blank(s, params[s].interest, {}),
    order <- Blank(s, ReportOrder(s), <<>>),
    notified <- Blank(s, ready[s], {}),
    taken <- Blank(s, busy[s], {}),
    running <- {d \in Sides : \E q \in Queues :
        /\ slot(q) = s /\ side[q] = d
        /\ op[q] = "cancel" \/ pc[q] \in {"handler", "leave_side"}},
    told <- Blank(s, reported[s], <<>>)

(* Every slot keeps, tenant after tenant, the promise of Watch: handlers   *)
(* of a side run one at a time and only for a notification, none starts    *)
(* another turn after the cancellation, and the sides are told one by one  *)
(* with nothing in flight.                                                 *)
ImplementsWatch ==
    /\ \A s \in Slots : Promise(s)!Init
    /\ [][\A s \in Slots : [Promise(s)!Next]_(Promise(s)!vars)]_vars

(* A notification published for an event is followed by a call of the      *)
(* handler of that side, unless the event is cancelled.                    *)
NotificationServed ==
    \A s \in Slots, d \in Sides :
        d \in owed[s] ~> (d \notin owed[s] \/ s \in closed)

(* Once ntt_event_cancel has returned, the event is reported and its slot  *)
(* is given back, provided that callers do not cancel it for ever: every   *)
(* call holds a reference for a moment.                                    *)
CancelFinishes == \A h \in Handles : h \in cancelled ~> gen[h.slot] # h.gen

(* include/ntt/event.h: the handler runs never after ntt_event_cancel has  *)
(* returned.                                                               *)
NeverCalledAfterCancel ==
    [][\A q \in Queues : CallHandler(q) => hdl[q] \notin cancelled]_vars

(* include/ntt/event.h: ntt_event_cancel may be called from any thread. A  *)
(* call from outside that ends the event still uses the loop, so the loop  *)
(* must be kept by something until the call is over.                       *)
LoopOutlivesCancel == [][\A u \in Users : Wakeup(u) => work > 0]_vars
=============================================================================
