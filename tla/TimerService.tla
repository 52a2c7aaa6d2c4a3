---------------------------- MODULE TimerService ----------------------------
(***************************************************************************)
(* How the timers of the queues reach the one timerfd of a loop:           *)
(* ntt_queue_sync_timers (src/src/queue.c), which runs in the context of a *)
(* queue, the service (src/src/timer_service.c), whose handler may run on  *)
(* several workers at once, and its heap of registrations                  *)
(* (src/src/queue_heap.c).                                                 *)
(*                                                                         *)
(* A registration names a slot of the queue slab and the generation the    *)
(* slot had; a queue drops it by bumping its generation, without the lock  *)
(* of the service, and the handler consumes it in the same way. The queues *)
(* are the serial contexts SerialQueue promises, each a thread here; a     *)
(* task that waits or runs holds its queue. The timers of a queue are what *)
(* Timers promises, one per deadline. Clock, timerfd and epoll are         *)
(* external: an expiration puts the timerfd on the ready list, and epoll   *)
(* reports it if it is still readable when a worker comes to take it.      *)
(***************************************************************************)
EXTENDS Integers, Sequences, FiniteSets

CONSTANTS
    Slots,       \* slots of the queue slab
    Dispatchers, \* workers that wait in epoll
    NoOne,       \* nobody holds the lock
    Deadlines,   \* deadlines timers are armed with; zero is long past
    MaxTime,     \* bound of the clock
    Batch,       \* NTT_TIMER_SERVICE_BATCH
    MaxArms,     \* bound on calls of ntt_self_wakeup_at
    MaxCreates   \* bound on queues created

ASSUME ServiceThreads == Slots \cap Dispatchers = {} /\ NoOne \notin Dispatchers
ASSUME ServiceBounds == /\ MaxTime \in Nat \ {0} /\ MaxArms \in Nat
                        /\ Deadlines \subseteq 0..MaxTime
                        /\ MaxCreates \in Nat /\ Batch \in Nat \ {0}

Never == MaxTime + 1  \* UINT64_MAX

VARIABLES
    refs,         \* [Slots -> Nat]: external_refs
    gen,          \* [Slots -> Nat]: slab generation
    free,         \* slots on the free list
    reg_gen,      \* timer_reg_gen, timer_reg_deadline, timer_self_ref and
    reg_deadline, \* timer_tombstones of each queue
    self_ref,
    queue_tombs,
    timers,       \* [Slots -> SUBSET Deadlines]: armed timers
    app,          \* queues the application holds
    tasks,        \* [Slots -> Nat]: timers tasks that wait in the queue
    qpc,          \* where the context of a queue is
    registered,   \* the local of ntt_queue_sync_timers, and where it returns
    qret,
    qnow,         \* the time its pass over the timers runs for
    elems,        \* the heap of the service
    hint,         \* its tombstones counter
    armed,        \* deadline the service believes the timerfd is armed at
    lock,         \* the dispatcher that holds the lock, or NoOne
    dpc,          \* where a dispatcher is in ntt_timer_service_ready
    dnow, elem, batch, woke, \* its locals
    now,          \* the clock
    fd_at,        \* when the timerfd fires
    fd_ticks,     \* it is readable
    fd_ready,     \* it is on the ready list of epoll
    arms, creates

slot_vars == <<refs, gen, free>>
reg_vars == <<reg_gen, reg_deadline, self_ref, queue_tombs>>
queue_vars == <<timers, app, tasks, qpc, registered, qret, qnow>>
heap_vars == <<elems, hint>>
disp_vars == <<dpc, dnow, elem, batch, woke>>
fd_vars == <<fd_at, fd_ticks, fd_ready>>
vars == <<slot_vars, reg_vars, queue_vars, heap_vars, armed, lock, disp_vars,
          now, fd_vars, arms, creates>>

Entries == [deadline : Deadlines, slot : Slots, gen : Nat]
NoEntry == [deadline |-> 1, slot |-> NoOne, gen |-> 0]

TypeOK ==
    /\ refs \in [Slots -> Nat] /\ gen \in [Slots -> Nat]
    /\ free \in SUBSET Slots
    /\ reg_gen \in [Slots -> Nat]
    /\ reg_deadline \in [Slots -> 0..Never]
    /\ self_ref \in SUBSET Slots /\ queue_tombs \in [Slots -> Nat]
    /\ timers \in [Slots -> SUBSET Deadlines]
    /\ app \in SUBSET Slots /\ tasks \in [Slots -> Nat]
    /\ qpc \in [Slots -> {"idle", "app", "pass", "fired", "sync", "drop",
                          "let_go", "keep", "unref", "retire", "register"}]
    /\ registered \in [Slots -> BOOLEAN]
    /\ qret \in [Slots -> {"app", "fired", "idle"}]
    /\ qnow \in [Slots -> 0..MaxTime]
    /\ elems \in Seq(Entries) /\ hint \in Nat
    /\ armed \in 0..Never
    /\ lock \in Dispatchers \cup {NoOne}
    /\ dpc \in [Dispatchers -> {"idle", "read", "clock", "lock", "take",
                                "acquire", "check", "release", "retire", "arm",
                                "wake", "unref"}]
    /\ dnow \in [Dispatchers -> 0..MaxTime]
    /\ elem \in [Dispatchers -> Entries \cup {NoEntry}]
    /\ batch \in [Dispatchers -> Seq(Slots)] /\ woke \in [Dispatchers -> 0..Batch]
    /\ now \in 0..MaxTime
    /\ fd_at \in 1..Never /\ fd_ticks \in BOOLEAN /\ fd_ready \in BOOLEAN
    /\ arms \in 0..MaxArms /\ creates \in 0..MaxCreates

Init ==
    /\ refs = [s \in Slots |-> 0]
    /\ gen = [s \in Slots |-> 1]
    /\ free = Slots
    /\ reg_gen = [s \in Slots |-> 0]
    /\ reg_deadline = [s \in Slots |-> Never]
    /\ self_ref = {}
    /\ queue_tombs = [s \in Slots |-> 0]
    /\ timers = [s \in Slots |-> {}]
    /\ app = {}
    /\ tasks = [s \in Slots |-> 0]
    /\ qpc = [s \in Slots |-> "idle"]
    /\ registered = [s \in Slots |-> FALSE]
    /\ qret = [s \in Slots |-> "idle"]
    /\ qnow = [s \in Slots |-> 0]
    /\ elems = <<>>
    /\ hint = 0
    /\ armed = Never
    /\ lock = NoOne
    /\ dpc = [d \in Dispatchers |-> "idle"]
    /\ dnow = [d \in Dispatchers |-> 0]
    /\ elem = [d \in Dispatchers |-> NoEntry]
    /\ batch = [d \in Dispatchers |-> <<>>]
    /\ woke = [d \in Dispatchers |-> 0]
    /\ now = 1
    /\ fd_at = Never
    /\ fd_ticks = FALSE
    /\ fd_ready = FALSE
    /\ arms = 0
    /\ creates = 0

Min(S) == CHOOSE x \in S : \A y \in S : x <= y
GoQ(s, label) == qpc' = [qpc EXCEPT ![s] = label]
GoD(d, label) == dpc' = [dpc EXCEPT ![d] = label]

-----------------------------------------------------------------------------
(* The heap of registrations.                                              *)
RegistrationLess(x, y) == x.deadline < y.deadline

H == INSTANCE BinaryHeap WITH Less <- RegistrationLess

(* ntt_queue_heap_live: the generation did not move since.                 *)
Live(e) == gen[e.slot] = e.gen
LiveIn(h) == {p \in 1..Len(h) : Live(h[p])}

(* ntt_queue_heap_drop_dead_root.                                          *)
Popped(h) == LET after[n \in 0..Len(h)] ==
                   IF n = 0 THEN h ELSE H!WithoutRoot(after[n - 1])
             IN  after

DeadRoots(h) ==
    CHOOSE n \in 0..Len(h) :
        /\ n = Len(h) \/ Live(Popped(h)[n][1])
        /\ \A m \in 0..(n - 1) : ~Live(Popped(h)[m][1])

(* ntt_queue_heap_retire: the hint runs ahead of what the array holds, so  *)
(* it is capped, and the array is rebuilt once tombstones take over half   *)
(* of it.                                                                  *)
Counted(h, n) == Min({n, Len(h)})

CompactedDropsLive(h, n) == [elems |-> <<>>, hint |-> 0]  \* mutant
Compacted(h, n) ==
    LET counted == Counted(h, n)
    IN  IF counted * 2 <= Len(h) THEN [elems |-> h, hint |-> counted]
        ELSE [elems |-> H!Heapify(H!Kept(h, LiveIn(h))), hint |-> 0]

(* ntt_timer_service_arm_locked: only when the top is earlier than what    *)
(* the timerfd is armed at.                                                *)
MustArm(top, at) == top < at

(* The value the timerfd is set to: zero would disarm it.                  *)
TimerValueAsIs(deadline) == deadline  \* mutant
TimerValue(deadline) == IF deadline = 0 THEN 1 ELSE deadline

(* timerfd_settime, which also forgets an expiration not yet read.         *)
SetTime(value) == IF value = 0 THEN Never ELSE value

ArmLocked(h, at) ==
    IF h # <<>> /\ MustArm(h[1].deadline, at)
    THEN /\ fd_at' = SetTime(TimerValue(h[1].deadline))
         /\ fd_ticks' = FALSE
         /\ armed' = h[1].deadline
         /\ UNCHANGED fd_ready
    ELSE armed' = at /\ UNCHANGED fd_vars

-----------------------------------------------------------------------------
(* Queues: created in a slot, held by the application, used by its tasks.  *)
CreateQueue(s) ==
    /\ s \in free
    /\ creates < MaxCreates
    /\ creates' = creates + 1
    /\ free' = free \ {s}
    /\ refs' = [refs EXCEPT ![s] = 1]
    /\ app' = app \cup {s}
    /\ reg_gen' = [reg_gen EXCEPT ![s] = 0]
    /\ reg_deadline' = [reg_deadline EXCEPT ![s] = Never]
    /\ self_ref' = self_ref \ {s}
    /\ queue_tombs' = [queue_tombs EXCEPT ![s] = 0]
    /\ UNCHANGED <<gen, timers, tasks, qpc, registered, qret, qnow, heap_vars,
                   armed, lock, disp_vars, now, fd_vars, arms>>

(* The application lets go of the queue.                                   *)
ReleaseQueue(s) ==
    /\ s \in app
    /\ app' = app \ {s}
    /\ refs' = [refs EXCEPT ![s] = @ - 1]
    /\ UNCHANGED <<gen, free, reg_vars, timers, tasks, qpc, registered, qret,
                   qnow, heap_vars, armed, lock, disp_vars, now, fd_vars, arms,
                   creates>>

(* ntt_queue_release of the last reference goes on to ntt_queue_deinit and *)
(* ntt_slab_give.                                                          *)
GiveQueue(s) ==
    /\ s \notin free
    /\ refs[s] = 0
    /\ gen' = [gen EXCEPT ![s] = @ + 1]
    /\ free' = free \cup {s}
    /\ UNCHANGED <<refs, reg_vars, queue_vars, heap_vars, armed, lock, disp_vars,
                   now, fd_vars, arms, creates>>

(* A task of the application starts in the queue.                          *)
BeginAppTask(s) ==
    /\ qpc[s] = "idle"
    /\ s \in app
    /\ refs' = [refs EXCEPT ![s] = @ + 1]
    /\ GoQ(s, "app")
    /\ UNCHANGED <<gen, free, reg_vars, timers, app, tasks, registered, qret,
                   qnow, heap_vars, armed, lock, disp_vars, now, fd_vars, arms,
                   creates>>

EndAppTask(s) ==
    /\ qpc[s] = "app"
    /\ refs' = [refs EXCEPT ![s] = @ - 1]
    /\ registered' = [registered EXCEPT ![s] = FALSE]
    /\ GoQ(s, "idle")
    /\ UNCHANGED <<gen, free, reg_vars, timers, app, tasks, qret, qnow, heap_vars,
                   armed, lock, disp_vars, now, fd_vars, arms, creates>>

(* ntt_self_wakeup_at, in a task or in a timer that fires.                 *)
WakeupAt(s, t) ==
    /\ qpc[s] \in {"app", "fired"}
    /\ t \notin timers[s]
    /\ arms < MaxArms
    /\ arms' = arms + 1
    /\ timers' = [timers EXCEPT ![s] = @ \cup {t}]
    /\ qret' = [qret EXCEPT ![s] = qpc[s]]
    /\ GoQ(s, "sync")
    /\ UNCHANGED <<slot_vars, reg_vars, app, tasks, registered, qnow, heap_vars,
                   armed, lock, disp_vars, now, fd_vars, creates>>

(* ntt_self_cancel_timer.                                                  *)
CancelTimer(s, t) ==
    /\ qpc[s] \in {"app", "fired"}
    /\ t \in timers[s]
    /\ timers' = [timers EXCEPT ![s] = @ \ {t}]
    /\ qret' = [qret EXCEPT ![s] = qpc[s]]
    /\ GoQ(s, "sync")
    /\ UNCHANGED <<slot_vars, reg_vars, app, tasks, registered, qnow, heap_vars,
                   armed, lock, disp_vars, now, fd_vars, arms, creates>>

(* ntt_queue_timers_task_svc: a pass for the time read at its start.       *)
BeginTimersTask(s) ==
    /\ qpc[s] = "idle"
    /\ tasks[s] > 0
    /\ qnow' = [qnow EXCEPT ![s] = now]
    /\ GoQ(s, "pass")
    /\ UNCHANGED <<slot_vars, reg_vars, timers, app, tasks, registered, qret,
                   heap_vars, armed, lock, disp_vars, now, fd_vars, arms, creates>>

Fire(s) ==
    /\ qpc[s] = "pass"
    /\ timers[s] # {} /\ Min(timers[s]) <= qnow[s]
    /\ timers' = [timers EXCEPT ![s] = @ \ {Min(@)}]
    /\ GoQ(s, "fired")
    /\ UNCHANGED <<slot_vars, reg_vars, app, tasks, registered, qret, qnow,
                   heap_vars, armed, lock, disp_vars, now, fd_vars, arms, creates>>

TimerReturns(s) ==
    /\ qpc[s] = "fired"
    /\ GoQ(s, "pass")
    /\ UNCHANGED <<slot_vars, reg_vars, timers, app, tasks, registered, qret,
                   qnow, heap_vars, armed, lock, disp_vars, now, fd_vars, arms,
                   creates>>

(* The pass is over and ntt_queue_sync_timers follows.                     *)
EndPass(s) == qret' = [qret EXCEPT ![s] = "idle"] /\ GoQ(s, "sync")

PassOver(s) ==
    /\ qpc[s] = "pass"
    /\ \A t \in timers[s] : t > qnow[s]
    /\ EndPass(s)
    /\ UNCHANGED <<slot_vars, reg_vars, timers, app, tasks, registered, qnow,
                   heap_vars, armed, lock, disp_vars, now, fd_vars, arms, creates>>

-----------------------------------------------------------------------------
(* ntt_queue_sync_timers returns to its caller; a timers task is over then *)
(* and lets go of its queue.                                               *)
Synced(s) == /\ GoQ(s, IF qret[s] = "idle" THEN "unref" ELSE qret[s])
             /\ qret' = [qret EXCEPT ![s] = "idle"]

(* Whether the registration is early enough for the first timer.           *)
Covers(s) == reg_deadline[s] <= Min(timers[s])

(* Armed timers keep their queue alive.                                    *)
KeptAliveNot(s) == TRUE  \* mutant
KeptAlive(s) == s \in self_ref

(* The registration stands while nobody has bumped the generation: the     *)
(* read, and the peek.                                                     *)
SyncRead(s) ==
    /\ qpc[s] = "sync"
    /\ registered' = [registered EXCEPT ![s] = gen[s] = reg_gen[s]]
    /\ GoQ(s, IF timers[s] = {} THEN "drop" ELSE "keep")
    /\ UNCHANGED <<slot_vars, reg_vars, timers, app, tasks, qret, qnow,
                   heap_vars, armed, lock, disp_vars, now, fd_vars, arms,
                   creates>>

(* The self reference, and the return when the registration read above is *)
(* in time, even if a handler has retired it since.                        *)
SyncKeep(s) ==
    /\ qpc[s] = "keep"
    /\ IF KeptAlive(s) THEN UNCHANGED <<self_ref, refs>>
       ELSE /\ self_ref' = self_ref \cup {s}
            /\ refs' = [refs EXCEPT ![s] = @ + 1]
    /\ IF registered[s] /\ Covers(s) THEN Synced(s)
       ELSE GoQ(s, "retire") /\ UNCHANGED qret
    /\ UNCHANGED <<gen, free, reg_gen, reg_deadline, queue_tombs, timers, app,
                   tasks, registered, qnow, heap_vars, armed, lock, disp_vars,
                   now, fd_vars, arms, creates>>

(* No timer is left: drop the registration, then the self reference.       *)
SyncDrop(s) ==
    /\ qpc[s] = "drop"
    /\ IF registered[s]
       THEN /\ gen' = [gen EXCEPT ![s] = @ + 1]
            /\ queue_tombs' = [queue_tombs EXCEPT ![s] = @ + 1]
       ELSE UNCHANGED <<gen, queue_tombs>>
    /\ GoQ(s, "let_go")
    /\ UNCHANGED <<refs, free, reg_gen, reg_deadline, self_ref, timers, app,
                   tasks, registered, qret, qnow, heap_vars, armed, lock,
                   disp_vars, now, fd_vars, arms, creates>>

SyncLetGo(s) ==
    /\ qpc[s] = "let_go"
    /\ IF s \in self_ref
       THEN /\ self_ref' = self_ref \ {s}
            /\ refs' = [refs EXCEPT ![s] = @ - 1]
       ELSE UNCHANGED <<self_ref, refs>>
    /\ Synced(s)
    /\ UNCHANGED <<gen, free, reg_gen, reg_deadline, queue_tombs, timers, app,
                   tasks, registered, qnow, heap_vars, armed, lock, disp_vars,
                   now, fd_vars, arms, creates>>

(* A new registration: the generation first ...                            *)
SyncRetire(s) ==
    /\ qpc[s] = "retire"
    /\ gen' = [gen EXCEPT ![s] = @ + 1]
    /\ reg_gen' = [reg_gen EXCEPT ![s] = gen[s] + 1]
    /\ reg_deadline' = [reg_deadline EXCEPT ![s] = Min(timers[s])]
    /\ queue_tombs' = [queue_tombs EXCEPT ![s] =
                          IF registered[s] THEN @ + 1 ELSE @]
    /\ GoQ(s, "register")
    /\ UNCHANGED <<refs, free, self_ref, timers, app, tasks, registered, qret,
                   qnow, heap_vars, armed, lock, disp_vars, now, fd_vars, arms,
                   creates>>

(* ... then ntt_timer_service_register, under the lock.                    *)
SyncRegister(s) ==
    /\ qpc[s] = "register"
    /\ lock = NoOne
    /\ LET h == H!Insert(elems, [deadline |-> reg_deadline[s], slot |-> s,
                                 gen |-> reg_gen[s]])
           c == IF queue_tombs[s] = 0 THEN [elems |-> h, hint |-> hint]
                ELSE Compacted(h, hint + queue_tombs[s])
       IN  /\ elems' = c.elems
           /\ hint' = c.hint
           /\ ArmLocked(c.elems, armed)
    /\ queue_tombs' = [queue_tombs EXCEPT ![s] = 0]
    /\ Synced(s)
    /\ UNCHANGED <<slot_vars, reg_gen, reg_deadline, self_ref, timers, app, tasks,
                   registered, qnow, lock, disp_vars, now, arms, creates>>

EndTimersTask(s) ==
    /\ qpc[s] = "unref"
    /\ qnow' = [qnow EXCEPT ![s] = 0]
    /\ registered' = [registered EXCEPT ![s] = FALSE]
    /\ tasks' = [tasks EXCEPT ![s] = @ - 1]
    /\ refs' = [refs EXCEPT ![s] = @ - 1]
    /\ GoQ(s, "idle")
    /\ UNCHANGED <<gen, free, reg_vars, timers, app, qret, heap_vars, armed,
                   lock, disp_vars, now, fd_vars, arms, creates>>

-----------------------------------------------------------------------------
(* External: the clock, the timerfd and epoll.                             *)
ClockTicks ==
    /\ now < MaxTime
    /\ now' = now + 1
    /\ UNCHANGED <<slot_vars, reg_vars, queue_vars, heap_vars, armed, lock,
                   disp_vars, fd_vars, arms, creates>>

TimerfdExpires ==
    /\ fd_at <= now
    /\ fd_at' = Never
    /\ fd_ticks' = TRUE
    /\ fd_ready' = TRUE
    /\ UNCHANGED <<slot_vars, reg_vars, queue_vars, heap_vars, armed, lock,
                   disp_vars, now, arms, creates>>

EpollReports(d) ==
    /\ dpc[d] = "idle"
    /\ fd_ready
    /\ fd_ready' = FALSE
    /\ GoD(d, IF fd_ticks THEN "read" ELSE "idle")
    /\ UNCHANGED <<slot_vars, reg_vars, queue_vars, heap_vars, armed, lock,
                   dnow, elem, batch, woke, now, fd_at, fd_ticks, arms, creates>>

-----------------------------------------------------------------------------
(* ntt_timer_service_ready: the read, which may find nothing any more.     *)
ReadTimerfd(d) ==
    /\ dpc[d] = "read"
    /\ fd_ticks' = FALSE
    /\ GoD(d, "clock")
    /\ UNCHANGED <<slot_vars, reg_vars, queue_vars, heap_vars, armed, lock,
                   dnow, elem, batch, woke, now, fd_at, fd_ready, arms, creates>>

(* The time is read before the lock is taken.                              *)
ReadClock(d) ==
    /\ dpc[d] = "clock"
    /\ dnow' = [dnow EXCEPT ![d] = now]
    /\ GoD(d, "lock")
    /\ UNCHANGED <<slot_vars, reg_vars, queue_vars, heap_vars, armed, lock,
                   elem, batch, woke, now, fd_vars, arms, creates>>

Lock(d) ==
    /\ dpc[d] = "lock"
    /\ lock = NoOne
    /\ lock' = d
    /\ GoD(d, "take")
    /\ UNCHANGED <<slot_vars, reg_vars, queue_vars, heap_vars, armed, dnow, elem,
                   batch, woke, now, fd_vars, arms, creates>>

(* The hint may not have seen the dead roots that go: it stops at zero.    *)
HintAfter(n) == IF hint > n THEN hint - n ELSE 0

(* ntt_queue_heap_take_expired: dead roots go first.                       *)
TakeExpired(d) ==
    /\ dpc[d] = "take"
    /\ LET n == DeadRoots(elems)
           h == Popped(elems)[n]
           room == Len(batch[d]) < Batch
           expired == room /\ h # <<>> /\ h[1].deadline <= dnow[d]
       IN  /\ elems' = IF ~room THEN elems
                       ELSE IF expired THEN H!WithoutRoot(h) ELSE h
           /\ hint' = IF room THEN HintAfter(n) ELSE hint
           /\ elem' = IF expired THEN [elem EXCEPT ![d] = h[1]] ELSE elem
           /\ GoD(d, IF expired THEN "acquire" ELSE "arm")
    /\ UNCHANGED <<slot_vars, reg_vars, queue_vars, armed, lock, dnow, batch,
                   woke, now, fd_vars, arms, creates>>

(* ntt_queue_acquire_if_live: a queue on its way out stays gone.           *)
AcquirableAlways(s) == TRUE  \* mutant
Acquirable(s) == refs[s] # 0

AcquireIfLive(d) ==
    /\ dpc[d] = "acquire"
    /\ IF Acquirable(elem[d].slot)
       THEN /\ refs' = [refs EXCEPT ![elem[d].slot] = @ + 1]
            /\ GoD(d, "check")
       ELSE GoD(d, "take") /\ UNCHANGED refs
    /\ UNCHANGED <<gen, free, reg_vars, queue_vars, heap_vars, armed, lock, dnow,
                   elem, batch, woke, now, fd_vars, arms, creates>>

(* Only with the reference in hand is the generation trusted.              *)
CheckGeneration(d) ==
    /\ dpc[d] = "check"
    /\ GoD(d, IF Live(elem[d]) THEN "retire" ELSE "release")
    /\ UNCHANGED <<slot_vars, reg_vars, queue_vars, heap_vars, armed, lock, dnow,
                   elem, batch, woke, now, fd_vars, arms, creates>>

ReleaseStale(d) ==
    /\ dpc[d] = "release"
    /\ refs' = [refs EXCEPT ![elem[d].slot] = @ - 1]
    /\ GoD(d, "take")
    /\ UNCHANGED <<gen, free, reg_vars, queue_vars, heap_vars, armed, lock, dnow,
                   elem, batch, woke, now, fd_vars, arms, creates>>

(* The entry is consumed: the bump tells the queue to register again.      *)
RetireEntry(d) ==
    /\ dpc[d] = "retire"
    /\ gen' = [gen EXCEPT ![elem[d].slot] = @ + 1]
    /\ batch' = [batch EXCEPT ![d] = Append(@, elem[d].slot)]
    /\ GoD(d, "take")
    /\ UNCHANGED <<refs, free, reg_vars, queue_vars, heap_vars, armed, lock, dnow,
                   elem, woke, now, fd_vars, arms, creates>>

(* Arm again for what is left, and unlock.                                 *)
DisarmedNot == armed  \* mutant
Disarmed == Never

ArmAndUnlock(d) ==
    /\ dpc[d] = "arm"
    /\ ArmLocked(elems, Disarmed)
    /\ lock' = NoOne
    /\ GoD(d, IF batch[d] = <<>> THEN "idle" ELSE "wake")
    /\ elem' = [elem EXCEPT ![d] = NoEntry]
    /\ dnow' = [dnow EXCEPT ![d] = 0]
    /\ UNCHANGED <<slot_vars, reg_vars, queue_vars, heap_vars, batch, woke, now, arms,
                   creates>>

(* ntt_queue_wakeup_timers pushes the task, which holds the queue; then    *)
(* the reference of the batch goes. A full batch asks for another round.   *)
WakeQueue(d) ==
    /\ dpc[d] = "wake"
    /\ LET s == batch[d][woke[d] + 1]
       IN  /\ tasks' = [tasks EXCEPT ![s] = @ + 1]
           /\ refs' = [refs EXCEPT ![s] = @ + 1]
    /\ GoD(d, "unref")
    /\ UNCHANGED <<gen, free, reg_vars, timers, app, qpc, registered, qret, qnow,
                   heap_vars, armed, lock, dnow, elem, batch, woke, now, fd_vars,
                   arms, creates>>

ReleaseBatched(d) ==
    /\ dpc[d] = "unref"
    /\ refs' = [refs EXCEPT ![batch[d][woke[d] + 1]] = @ - 1]
    /\ IF woke[d] + 1 < Len(batch[d])
       THEN /\ woke' = [woke EXCEPT ![d] = @ + 1]
            /\ GoD(d, "wake")
            /\ UNCHANGED batch
       ELSE /\ woke' = [woke EXCEPT ![d] = 0]
            /\ batch' = [batch EXCEPT ![d] = <<>>]
            /\ GoD(d, IF Len(batch[d]) = Batch THEN "clock" ELSE "idle")
    /\ UNCHANGED <<gen, free, reg_vars, queue_vars, heap_vars, armed, lock, dnow,
                   elem, now, fd_vars, arms, creates>>

-----------------------------------------------------------------------------
Lifetime(s) == CreateQueue(s) \/ ReleaseQueue(s) \/ BeginAppTask(s)

Application(s) == \/ EndAppTask(s) \/ TimerReturns(s)
                  \/ \E t \in Deadlines : WakeupAt(s, t) \/ CancelTimer(s, t)

Context(s) == \/ BeginTimersTask(s) \/ Fire(s) \/ PassOver(s) \/ SyncRead(s)
              \/ SyncKeep(s) \/ SyncDrop(s) \/ SyncLetGo(s) \/ SyncRetire(s)
              \/ SyncRegister(s)
              \/ EndTimersTask(s) \/ GiveQueue(s)

Handler(d) == \/ ReadTimerfd(d) \/ ReadClock(d) \/ Lock(d) \/ TakeExpired(d)
              \/ AcquireIfLive(d) \/ CheckGeneration(d) \/ ReleaseStale(d)
              \/ RetireEntry(d) \/ ArmAndUnlock(d) \/ WakeQueue(d)
              \/ ReleaseBatched(d)

Kernel == ClockTicks \/ TimerfdExpires \/ \E d \in Dispatchers : EpollReports(d)

Next == \/ \E s \in Slots : Lifetime(s) \/ Application(s) \/ Context(s)
        \/ \E d \in Dispatchers : Handler(d)
        \/ Kernel

Spec == Init /\ [][Next]_vars

(* Time passes, an armed timerfd expires and epoll reports it, workers     *)
(* run, a queue with tasks is served in the order they came, so a timers   *)
(* task is not overtaken for ever, and a task of the application and the   *)
(* task of a timer return. The lock is a spinlock: whoever tries again and *)
(* again gets it when it is free again and again.                          *)
Fairness ==
    /\ WF_vars(ClockTicks) /\ WF_vars(TimerfdExpires)
    /\ WF_vars(\E d \in Dispatchers : EpollReports(d))
    /\ \A d \in Dispatchers : WF_vars(Handler(d)) /\ SF_vars(Lock(d))
    /\ \A s \in Slots : /\ WF_vars(Context(s)) /\ SF_vars(SyncRegister(s))
                        /\ SF_vars(BeginTimersTask(s))
                        /\ SF_vars(EndAppTask(s)) /\ SF_vars(TimerReturns(s))

FairSpec == Spec /\ Fairness

-----------------------------------------------------------------------------
(* Dispatchers with a reference to the queue in a slot: of the entry in    *)
(* hand (0) and of a place in the batch.                                   *)
Ticks(s) ==
    {t \in Dispatchers \X (0..Batch) :
        IF t[2] = 0
        THEN dpc[t[1]] \in {"check", "release", "retire"} /\ elem[t[1]].slot = s
        ELSE t[2] \in (woke[t[1]] + 1)..Len(batch[t[1]]) /\ batch[t[1]][t[2]] = s}

(* The references of a queue are those of the application, of its tasks,   *)
(* of its armed timers and of the handlers that wake it: a handler that    *)
(* meets a queue on its way out never brings it back.                      *)
RefsCountHolders ==
    \A s \in Slots :
        refs[s] = tasks[s] + Cardinality(Ticks(s))
                    + Cardinality({x \in {s} : s \in app})
                    + Cardinality({x \in {s} : s \in self_ref})
                    + Cardinality({x \in {s} : \/ qpc[s] = "app"
                                               \/ qpc[s] \in {"sync", "drop",
                                                    "let_go", "keep", "retire",
                                                    "register"}
                                                  /\ qret[s] = "app"})

(* A queue is destroyed without timers, as ntt_queue_deinit asserts, and   *)
(* its storage given back leaves no live registration, as                  *)
(* ntt_timer_service_deinit asserts.                                       *)
DestroyedWithoutTimers ==
    \A s \in Slots :
        /\ refs[s] = 0 => timers[s] = {} /\ tasks[s] = 0 /\ qpc[s] = "idle"
        /\ s \in free => \A p \in 1..Len(elems) : elems[p].slot = s => ~Live(elems[p])

(* Counters stay in range, the tombstone hint included, and the asserts of *)
(* the code hold.                                                          *)
ServiceConsistent == TypeOK /\ DestroyedWithoutTimers

(* The queue will look at its timers again: its context is before a        *)
(* ntt_queue_sync_timers or about to register, a task waits in it, or a    *)
(* handler is about to push one.                                           *)
WakeupComing(s) ==
    \/ qpc[s] \in {"sync", "retire", "register", "pass", "fired"}
    \/ qpc[s] = "keep" /\ ~(registered[s] /\ Covers(s))
    \/ tasks[s] > (IF qpc[s] = "unref" \/ (qpc[s] = "keep" /\ qret[s] # "app")
                   THEN 1 ELSE 0)
    \/ \E d \in Dispatchers :
          \/ dpc[d] \in {"acquire", "check", "retire"} /\ elem[d].slot = s
                /\ (dpc[d] = "retire" \/ Live(elem[d]))
          \/ \E i \in (woke[d] + 1)..Len(batch[d]) :
                batch[d][i] = s /\ (i > woke[d] + 1 \/ dpc[d] # "unref")

(* No armed timer is forgotten: a live registration that is not later than *)
(* it stands in the heap, or the queue will look at its timers again,      *)
(* whatever order the queue and the handlers bump the generation in.       *)
TimersCovered ==
    \A s \in Slots : timers[s] # {} =>
        \/ WakeupComing(s)
        \/ \E p \in 1..Len(elems) : /\ elems[p].slot = s /\ Live(elems[p])
                                    /\ elems[p].deadline <= Min(timers[s])

(* The timerfd covers the heap: with the lock free, it fires no later than *)
(* the earliest entry or at once, also for a deadline of zero, or it has   *)
(* expired and a handler will arm it again.                                *)
TimerfdCovers ==
    lock = NoOne /\ elems # <<>> =>
        \/ fd_at <= elems[1].deadline \/ fd_at <= now
        \/ fd_ticks /\ fd_ready
        \/ \E d \in Dispatchers : dpc[d] \in {"read", "clock", "lock"}

(* Every timer that is due fires or is cancelled.                          *)
DueTimersFire ==
    \A s \in Slots, t \in Deadlines :
        (t \in timers[s] /\ t <= now) ~> t \notin timers[s]
=============================================================================
