-------------------------------- MODULE Loop --------------------------------
(***************************************************************************)
(* The execution core of ntt: the serial queues of one loop                *)
(* (src/src/queue.c), the combine they are linked into when they have work *)
(* (src/src/combine.c), the workers that drain the combine and sleep in    *)
(* epoll, the eventfd that wakes them, and the work count whose last unit  *)
(* stops the workers and frees the loop (src/src/loop.c).                  *)
(*                                                                         *)
(* Every section the code runs under a spinlock, and every atomic          *)
(* read-modify-write, is one action; everything between two of them is a   *)
(* point at which another thread may step in, and has a program counter.   *)
(*                                                                         *)
(* The application is the environment: a task body (on a worker) or an     *)
(* external thread pushes tasks, shares, creates and releases queues in    *)
(* any order the reference counting rules of include/ntt/queue.h allow. So *)
(* does the destroy callback of a task, which runs on the worker while the *)
(* queue is still the current one. A worker goes on only when the body and *)
(* the destroy callback have released what they created; a reference they  *)
(* share with an external thread lives until that thread releases it.      *)
(***************************************************************************)
EXTENDS Integers, Sequences, FiniteSets

CONSTANTS
    Width,      \* number of workers of the loop (after ntt_loop_clamp_width)
    Externals,  \* threads that are not workers of this loop
    Queues,     \* slots of the queue slab
    Tasks,      \* tasks the application ever pushes
    InitQueue,  \* the queue ntt_loop_run creates
    InitTask,   \* the task ntt_loop_run is given
    Limit,      \* by worker: 0 drains with ntt_queue_svc, as ntt_loop_run
                \* does, n with ntt_queue_svc_with_limit
    MaxCreates, \* bound on the number of ntt_queue_create calls
    NoQueue,    \* NULL ntt_queue_t*
    NoTask      \* NULL ntt_task_t*

Workers == 1..Width
Threads == Workers \cup Externals

ASSUME WidthAssumption == Width \in Nat \ {0}
ASSUME ThreadsAssumption == /\ IsFiniteSet(Externals)
                            /\ Workers \cap Externals = {}
ASSUME QueuesAssumption == /\ IsFiniteSet(Queues)
                           /\ InitQueue \in Queues
                           /\ NoQueue \notin Queues
ASSUME TasksAssumption == /\ InitTask \in Tasks
                          /\ NoTask \notin Tasks
ASSUME BoundsAssumption == Limit \in [Workers -> Nat] /\ MaxCreates \in Nat

VARIABLES
    task_list, \* [Queues -> Seq(Tasks)]; the head stays linked while it runs
    refs,      \* [Queues -> Int]: external_refs
    free,      \* slots of the queue slab nobody has taken
    combine,   \* the ready queues, in the order they are taken
    eventfd,   \* the counter of combine_eventfd
    work_cnt,  \* what keeps the loop running
    freed,     \* ntt_loop_run has destroyed and freed the loop
    pc,        \* where each thread is
    arg,       \* the queue a thread's call in progress works on
    cur,       \* t_queue: the queue whose tasks this thread is serving
    task,      \* the worker's local `task` in ntt_queue_svc
    prev,      \* the worker's local `prev` in ntt_queue_svc
    cnt,       \* tasks served in this ntt_queue_svc_with_limit call
    stop_idx,  \* the worker ntt_loop_work_leave releases next
    stopping,  \* workers whose stop task has been sent
    own,       \* queue references the application holds, by thread
    fresh,     \* tasks not pushed yet
    dropped,   \* tasks destroyed
    creates    \* number of ntt_queue_create calls so far

qvars == <<task_list, refs, free>>
wvars == <<cur, task, prev, cnt>>
svars == <<stop_idx, stopping>>
avars == <<own, fresh, creates>>
vars == <<qvars, combine, eventfd, work_cnt, freed, pc, arg, wvars, svars,
          avars, dropped>>

PCs == {"idle", "take", "svc", "run", "drop", "release", "wait", "ready",
        "left", "acquire", "link", "wake", "nowake", "give", "leave", "copy",
        "stop"}

TypeOK ==
    /\ task_list \in [Queues -> Seq(Tasks)]
    /\ refs \in [Queues -> Int]
    /\ free \in SUBSET Queues
    /\ combine \in Seq(Queues)
    /\ eventfd \in Nat
    /\ work_cnt \in Int
    /\ freed \in BOOLEAN
    /\ pc \in [Threads -> PCs]
    /\ arg \in [Threads -> Queues \cup {NoQueue}]
    /\ cur \in [Threads -> Queues \cup {NoQueue}]
    /\ task \in [Workers -> Tasks \cup {NoTask}]
    /\ prev \in [Workers -> Tasks \cup {NoTask}]
    /\ cnt \in [Workers -> Nat]
    /\ stop_idx \in [Threads -> Workers]
    /\ stopping \in SUBSET Workers
    /\ own \in [Threads -> SUBSET Queues]
    /\ fresh \in SUBSET Tasks
    /\ dropped \in SUBSET Tasks
    /\ creates \in 0..MaxCreates

(* ntt_loop_run up to the enter barrier: the first queue holds the first   *)
(* task and is linked, its creation reference and the loop's own unit of   *)
(* work are gone, and the push came from a thread that is not a worker     *)
(* yet, so it wrote the eventfd.                                           *)
Init ==
    /\ task_list = [q \in Queues |-> IF q = InitQueue THEN <<InitTask>>
                                                      ELSE <<>>]
    /\ refs = [q \in Queues |-> IF q = InitQueue THEN 1 ELSE 0]
    /\ free = Queues \ {InitQueue}
    /\ combine = <<InitQueue>>
    /\ eventfd = 1
    /\ work_cnt = 1
    /\ freed = FALSE
    /\ pc = [t \in Threads |-> IF t \in Workers THEN "take" ELSE "idle"]
    /\ arg = [t \in Threads |-> NoQueue]
    /\ cur = [t \in Threads |-> NoQueue]
    /\ task = [w \in Workers |-> NoTask]
    /\ prev = [w \in Workers |-> NoTask]
    /\ cnt = [w \in Workers |-> 0]
    /\ stop_idx = [t \in Threads |-> 1]
    /\ stopping = {}
    /\ own = [t \in Threads |-> {}]
    /\ fresh = Tasks \ {InitTask}
    /\ dropped = {}
    /\ creates = 0

(* Where a call returns to: the application's code (the body of a task, or *)
(* the destroy callback of the previous one), or the drain loop of the     *)
(* worker when the call was made by ntt_queue_svc itself.                  *)
Return(t) == IF t \in Externals THEN "idle"
             ELSE IF cur[t] = NoQueue THEN "take"
             ELSE IF prev[t] = NoTask THEN "run" ELSE "drop"

(* A worker in the callback of a task, with NTT_TASK_EXEC or NTT_TASK_DROP.*)
InCallback(t) == pc[t] \in {"run", "drop"}

(* The application's code is running on this thread.                       *)
InApplication(t) == pc[t] = "idle" \/ InCallback(t)

(* Queues the application's code on this thread may use: those it has a    *)
(* reference to, and the one that is serving it.                           *)
Usable(t) == own[t] \cup ({cur[t]} \ {NoQueue})

-----------------------------------------------------------------------------
(* What the pushes of ntt_list.h return: was the list empty before?        *)
WasEmptyAlways(s) == TRUE  \* mutant
WasEmpty(s) == s = <<>>

(* The list with a task pushed.                                            *)
PushedSecond(s, k) == IF s = <<>> THEN <<k>> ELSE <<Head(s), k>> \o Tail(s)  \* mutant
Pushed(s, k) == Append(s, k)

(* ntt_queue_push_task, under the lock of the queue.                       *)
PushTask(t, q, k) ==
    /\ InApplication(t)
    /\ q \in Usable(t)
    /\ k \in fresh
    /\ fresh' = fresh \ {k}
    /\ task_list' = [task_list EXCEPT ![q] = Pushed(@, k)]
    /\ IF WasEmpty(task_list[q])
       THEN /\ pc' = [pc EXCEPT ![t] = "acquire"]
            /\ arg' = [arg EXCEPT ![t] = q]
       ELSE UNCHANGED <<pc, arg>>
    /\ UNCHANGED <<refs, free, combine, eventfd, work_cnt, freed, wvars, svars,
                   own, dropped, creates>>

(* ntt_queue_acquire: the counts afterwards.                               *)
AcquiredNot(q) == refs  \* mutant
Acquired(q) == [refs EXCEPT ![q] = @ + 1]

(* ntt_queue_acquire by the push that made the queue non empty.            *)
AcquireForLink(t) ==
    /\ pc[t] = "acquire"
    /\ refs' = Acquired(arg[t])
    /\ pc' = [pc EXCEPT ![t] = "link"]
    /\ UNCHANGED <<task_list, free, combine, eventfd, work_cnt, freed, arg,
                   wvars, svars, avars, dropped>>

(* ntt_combine_push, under the lock of the combine.                        *)
CombinePush(t) ==
    /\ pc[t] = "link"
    /\ combine' = Append(combine, arg[t])
    /\ arg' = [arg EXCEPT ![t] = NoQueue]
    /\ pc' = [pc EXCEPT ![t] = IF WasEmpty(combine) THEN "wake" ELSE "nowake"]
    /\ UNCHANGED <<qvars, eventfd, work_cnt, freed, wvars, svars, avars,
                   dropped>>

(* ntt_ts_loop != self: only a thread that is not a worker of this loop    *)
(* writes the eventfd.                                                     *)
WritesEventfdInverted(t) == t \in Workers  \* mutant
WritesEventfd(t) == t \in Externals

(* The rest of ntt_combine_push: it reads self->cb whatever the outcome,   *)
(* and ntt_loop_combine_wakeup writes the eventfd for an external thread.  *)
CombineWakeup(t) ==
    /\ pc[t] \in {"wake", "nowake"}
    /\ eventfd' = IF pc[t] = "wake" /\ WritesEventfd(t) THEN eventfd + 1
                                                       ELSE eventfd
    /\ pc' = [pc EXCEPT ![t] = Return(t)]
    /\ UNCHANGED <<qvars, combine, work_cnt, freed, arg, wvars, svars, avars,
                   dropped>>

-----------------------------------------------------------------------------
(* ntt_loop_work_enter: the count afterwards.                              *)
WorkEntered == work_cnt + 1

(* ntt_queue_create from a callback: ntt_slab_take, ntt_queue_init and    *)
(* ntt_loop_work_enter. The slot is reachable by nobody else until the     *)
(* call returns, so the three are one step.                                *)
CreateQueue(w, q) ==
    /\ InCallback(w)
    /\ q \in free
    /\ creates < MaxCreates
    /\ creates' = creates + 1
    /\ free' = free \ {q}
    /\ refs' = [refs EXCEPT ![q] = 1]
    /\ task_list' = [task_list EXCEPT ![q] = <<>>]
    /\ work_cnt' = WorkEntered
    /\ own' = [own EXCEPT ![w] = @ \cup {q}]
    /\ UNCHANGED <<combine, eventfd, freed, pc, arg, wvars, svars, fresh,
                   dropped>>

(* A callback takes a reference with ntt_queue_acquire and hands it to an *)
(* external thread.                                                        *)
ShareQueue(w, e, q) ==
    /\ InCallback(w)
    /\ q \in Usable(w)
    /\ pc[e] = "idle"
    /\ q \notin own[e]
    /\ refs' = Acquired(q)
    /\ own' = [own EXCEPT ![e] = @ \cup {q}]
    /\ UNCHANGED <<task_list, free, combine, eventfd, work_cnt, freed, pc, arg,
                   wvars, svars, fresh, creates, dropped>>

(* prev == 1 in ntt_queue_release.                                         *)
LastReferenceEarly(q) == refs[q] <= 2  \* mutant
LastReference(q) == refs[q] = 1

(* The fetch_sub of ntt_queue_release: the last reference goes on to       *)
(* destroy the queue, any other returns.                                   *)
DropReference(t, q) ==
    /\ refs' = [refs EXCEPT ![q] = @ - 1]
    /\ IF LastReference(q)
       THEN /\ pc' = [pc EXCEPT ![t] = "give"]
            /\ arg' = [arg EXCEPT ![t] = q]
       ELSE /\ pc' = [pc EXCEPT ![t] = Return(t)]
            /\ arg' = [arg EXCEPT ![t] = NoQueue]

(* ntt_queue_release of a reference the application holds.                 *)
ReleaseQueue(t, q) ==
    /\ InApplication(t)
    /\ q \in own[t]
    /\ own' = [own EXCEPT ![t] = @ \ {q}]
    /\ DropReference(t, q)
    /\ UNCHANGED <<task_list, free, combine, eventfd, work_cnt, freed, wvars,
                   svars, fresh, creates, dropped>>

(* ntt_queue_release at the end of ntt_queue_svc: the reference the push   *)
(* took for the combine.                                                   *)
SvcRelease(w) ==
    /\ pc[w] = "release"
    /\ DropReference(w, arg[w])
    /\ UNCHANGED <<task_list, free, combine, eventfd, work_cnt, freed, wvars,
                   svars, avars, dropped>>

(* ntt_queue_deinit and ntt_slab_give.                                     *)
GiveQueue(t) ==
    /\ pc[t] = "give"
    /\ free' = free \cup {arg[t]}
    /\ arg' = [arg EXCEPT ![t] = NoQueue]
    /\ pc' = [pc EXCEPT ![t] = "leave"]
    /\ UNCHANGED <<task_list, refs, combine, eventfd, work_cnt, freed, wvars,
                   svars, avars, dropped>>

(* prev == 1 in ntt_loop_work_leave.                                       *)
LastWorkEarly == work_cnt <= 2  \* mutant
LastWork == work_cnt = 1

(* The fetch_sub of ntt_loop_work_leave.                                   *)
WorkLeave(t) ==
    /\ pc[t] = "leave"
    /\ work_cnt' = work_cnt - 1
    /\ pc' = [pc EXCEPT ![t] = IF LastWork THEN "copy" ELSE Return(t)]
    /\ UNCHANGED <<qvars, combine, eventfd, freed, arg, wvars, svars, avars,
                   dropped>>

(* ntt_loop_work_leave takes the worker pointers out of the loop ...       *)
CopyWorkers(t) ==
    /\ pc[t] = "copy"
    /\ stop_idx' = [stop_idx EXCEPT ![t] = 1]
    /\ pc' = [pc EXCEPT ![t] = "stop"]
    /\ UNCHANGED <<qvars, combine, eventfd, work_cnt, freed, arg, wvars,
                   stopping, avars, dropped>>

(* ... and releases them one after the other: each gets its stop task.     *)
StopWorker(t) ==
    /\ pc[t] = "stop"
    /\ stopping' = stopping \cup {stop_idx[t]}
    /\ IF stop_idx[t] < Width
       THEN /\ stop_idx' = [stop_idx EXCEPT ![t] = @ + 1]
            /\ UNCHANGED pc
       ELSE /\ pc' = [pc EXCEPT ![t] = Return(t)]
            /\ UNCHANGED stop_idx
    /\ UNCHANGED <<qvars, combine, eventfd, work_cnt, freed, arg, wvars, avars,
                   dropped>>

-----------------------------------------------------------------------------
(* ntt_combine_try_take by ntt_combine_svc; an exhausted combine sends the *)
(* worker to epoll_pwait.                                                  *)
TryTake(w) ==
    /\ pc[w] = "take"
    /\ IF combine = <<>>
       THEN /\ pc' = [pc EXCEPT ![w] = "wait"]
            /\ UNCHANGED <<arg, combine>>
       ELSE /\ pc' = [pc EXCEPT ![w] = "svc"]
            /\ arg' = [arg EXCEPT ![w] = Head(combine)]
            /\ combine' = Tail(combine)
    /\ UNCHANGED <<qvars, eventfd, work_cnt, freed, wvars, svars, avars,
                   dropped>>

(* ntt_task_list_next: the list without its head, and its new front.       *)
PoppedKeepsLast(s) == IF Len(s) = 1 THEN s ELSE Tail(s)  \* mutant
Popped(s) == Tail(s)

FrontIsTail(s) == IF s = <<>> THEN NoTask ELSE s[Len(s)]  \* mutant
Front(s) == IF s = <<>> THEN NoTask ELSE Head(s)

(* ntt_queue_svc sets t_queue and reads the front without the lock.        *)
SvcBegin(w) ==
    /\ pc[w] = "svc"
    /\ cur' = [cur EXCEPT ![w] = arg[w]]
    /\ arg' = [arg EXCEPT ![w] = NoQueue]
    /\ task' = [task EXCEPT ![w] = Front(task_list[arg[w]])]
    /\ cnt' = [cnt EXCEPT ![w] = 0]
    /\ pc' = [pc EXCEPT ![w] = "run"]
    /\ UNCHANGED <<qvars, combine, eventfd, work_cnt, freed, prev, svars,
                   avars, dropped>>

(* The body of the task returns and ntt_queue_next forgets it.             *)
QueueNext(w) ==
    /\ pc[w] = "run"
    /\ task_list' = [task_list EXCEPT ![cur[w]] = Popped(@)]
    /\ task' = [task EXCEPT ![w] = Front(Popped(task_list[cur[w]]))]
    /\ prev' = [prev EXCEPT ![w] = task[w]]
    /\ pc' = [pc EXCEPT ![w] = "drop"]
    /\ UNCHANGED <<refs, free, combine, eventfd, work_cnt, freed, arg, cur,
                   cnt, svars, avars, dropped>>

(* Whether ntt_queue_svc_with_limit stops here with tasks left.            *)
LimitHit(w) == Limit[w] # 0 /\ cnt[w] + 1 = Limit[w]

(* Where a drain that stops goes: the end of ntt_queue_svc, or, with tasks *)
(* left, ntt_combine_push by ntt_combine_svc_with_limits.                  *)
DrainEnd(w) == IF task[w] = NoTask THEN "release" ELSE "link"

(* ntt_task_destroy of the previous task returns, then the next one, the   *)
(* end of the drain, or the limit: ntt_combine_svc_with_limits links the   *)
(* queue again and keeps its reference.                                    *)
DropTask(w) ==
    /\ pc[w] = "drop"
    /\ own[w] = {}
    /\ dropped' = dropped \cup {prev[w]}
    /\ prev' = [prev EXCEPT ![w] = NoTask]
    /\ IF task[w] # NoTask /\ ~LimitHit(w)
       THEN /\ pc' = [pc EXCEPT ![w] = "run"]
            /\ cnt' = [cnt EXCEPT ![w] = IF Limit[w] = 0 THEN 0 ELSE @ + 1]
            /\ UNCHANGED <<cur, arg, task>>
       ELSE /\ pc' = [pc EXCEPT ![w] = DrainEnd(w)]
            /\ arg' = [arg EXCEPT ![w] = cur[w]]
            /\ cur' = [cur EXCEPT ![w] = NoQueue]
            /\ task' = [task EXCEPT ![w] = NoTask]
            /\ cnt' = [cnt EXCEPT ![w] = 0]
    /\ UNCHANGED <<qvars, combine, eventfd, work_cnt, freed, svars, avars>>

(* epoll_pwait reports the level-triggered combine eventfd. Several        *)
(* workers may be told of the same count.                                  *)
WaitReturns(w) ==
    /\ pc[w] = "wait"
    /\ eventfd > 0
    /\ pc' = [pc EXCEPT ![w] = "ready"]
    /\ UNCHANGED <<qvars, combine, eventfd, work_cnt, freed, arg, wvars, svars,
                   avars, dropped>>

(* A read of the semaphore eventfd, or EAGAIN.                             *)
EventfdReadBlind == eventfd - 1  \* mutant
EventfdReadNot == eventfd  \* mutant
EventfdRead == IF eventfd > 0 THEN eventfd - 1 ELSE 0

(* ntt_combine_eventfd_ready: a semaphore read, or EAGAIN when another     *)
(* worker was faster; then the drain loop again.                           *)
ReadEventfd(w) ==
    /\ pc[w] = "ready"
    /\ eventfd' = EventfdRead
    /\ pc' = [pc EXCEPT ![w] = "take"]
    /\ UNCHANGED <<qvars, combine, work_cnt, freed, arg, wvars, svars, avars,
                   dropped>>

(* The stop signal interrupts epoll_pwait; the worker runs its stop task   *)
(* and leaves.                                                             *)
WaitInterrupted(w) ==
    /\ pc[w] = "wait"
    /\ w \in stopping
    /\ pc' = [pc EXCEPT ![w] = "left"]
    /\ UNCHANGED <<qvars, combine, eventfd, work_cnt, freed, arg, wvars, svars,
                   avars, dropped>>

(* pthread_join of every follower.                                         *)
Joined == \A w \in Workers : pc[w] = "left"

(* The tail of ntt_loop_run: the first worker joins the others, destroys   *)
(* the loop and frees it.                                                  *)
DestroyLoop ==
    /\ Joined
    /\ ~freed
    /\ freed' = TRUE
    /\ UNCHANGED <<qvars, combine, eventfd, work_cnt, pc, arg, wvars, svars,
                   avars, dropped>>

-----------------------------------------------------------------------------
(* ntt_loop_run has returned and every other thread is back in its own     *)
(* code: nothing is left to do.                                            *)
Terminated ==
    /\ freed
    /\ \A e \in Externals : pc[e] = "idle"
    /\ UNCHANGED vars

Application(t) ==
    \/ \E q \in Queues, k \in Tasks : PushTask(t, q, k)
    \/ \E q \in Queues : ReleaseQueue(t, q)

(* The steps a thread is bound to take once it is there.                   *)
Call(t) ==
    \/ AcquireForLink(t)
    \/ CombinePush(t)
    \/ CombineWakeup(t)
    \/ GiveQueue(t)
    \/ WorkLeave(t)
    \/ CopyWorkers(t)
    \/ StopWorker(t)

Worker(w) ==
    \/ TryTake(w)
    \/ SvcBegin(w)
    \/ QueueNext(w)
    \/ DropTask(w)
    \/ SvcRelease(w)
    \/ WaitReturns(w)
    \/ ReadEventfd(w)
    \/ WaitInterrupted(w)

Next ==
    \/ \E t \in Threads : Application(t) \/ Call(t)
    \/ \E w \in Workers : Worker(w)
    \/ \E w \in Workers, q \in Queues : CreateQueue(w, q)
    \/ \E w \in Workers, e \in Externals, q \in Queues : ShareQueue(w, e, q)
    \/ DestroyLoop
    \/ Terminated

Spec == Init /\ [][Next]_vars

(* Every thread keeps running, a task body returns, and the application    *)
(* releases in the end every reference it holds: the kernel schedules each *)
(* thread, and a reference that is never released keeps the loop running   *)
(* by design.                                                              *)
Fairness ==
    /\ \A t \in Threads : WF_vars(Call(t))
    /\ \A w \in Workers : WF_vars(Worker(w))
    /\ \A t \in Threads, q \in Queues : WF_vars(ReleaseQueue(t, q))
    /\ WF_vars(DestroyLoop)

FairSpec == Spec /\ Fairness

-----------------------------------------------------------------------------
(* A thread is about to run, or runs, the tasks of this queue.             *)
Serving(t, q) == \/ pc[t] = "svc" /\ arg[t] = q
                 \/ cur[t] = q /\ task[t] # NoTask

(* A push, or the limit of a drain, is on its way to link this queue.      *)
Linking(t, q) == pc[t] \in {"acquire", "link"} /\ arg[t] = q

Schedules(t, q) == Linking(t, q) \/ (t \in Workers /\ Serving(t, q))

(* The node of this queue is in the combine.                               *)
Linked(q) == \E i \in 1..Len(combine) : combine[i] = q

(* A queue with tasks has exactly one place that will get them run (the    *)
(* pusher that found it empty, a link in the combine, or one worker) and   *)
(* an empty one has none: that is what makes its tasks serial, keeps the   *)
(* intrusive node out of the combine twice and loses no task.              *)
ScheduledOnce ==
    /\ \A q \in Queues :
          /\ task_list[q] # <<>> <=>
                Linked(q) \/ \E t \in Threads : Schedules(t, q)
          /\ \A t \in Threads : Schedules(t, q) => ~Linked(q)
          /\ \A t, u \in Threads : Schedules(t, q) /\ Schedules(u, q) => t = u
          /\ \A w \in Workers : ~(Linking(w, q) /\ Serving(w, q))
    /\ \A i, j \in 1..Len(combine) : combine[i] = combine[j] => i = j

(* The worker runs, through its local pointer, the task that is still the  *)
(* head of the list, although pushes and ntt_queue_next run concurrently.  *)
RunsTheHead ==
    \A w \in Workers :
        cur[w] # NoQueue /\ task[w] # NoTask =>
            task_list[cur[w]] # <<>> /\ task[w] = Head(task_list[cur[w]])

(* The references a queue is entitled to: those of the application, and    *)
(* one that travels from the push through the combine to the worker that   *)
(* drains it. A worker may drain a queue and carry a reference of it too,  *)
(* when the destroy callback of its last task pushes to it.                *)
Owners(q) == {t \in Threads : q \in own[t]}
Carries(t, q) == pc[t] \in {"link", "svc", "release"} /\ arg[t] = q
Carriers(q) == {t \in Threads : Carries(t, q)}
Drainers(q) == {t \in Threads : cur[t] = q}

(* external_refs is exactly the number of holders, at every step of every  *)
(* interleaving: neither a leak (the loop would never stop) nor a release  *)
(* too many (the queue would be destroyed under somebody).                 *)
RefsCountHolders ==
    \A q \in Queues :
        refs[q] = Cardinality(Owners(q)) + Cardinality(Carriers(q))
                    + Cardinality(Drainers(q)) + (IF Linked(q) THEN 1 ELSE 0)

(* The thread that dropped the last reference is destroying this queue.    *)
Destroying(t, q) == pc[t] = "give" /\ arg[t] = q

(* ntt_queue_deinit runs once per life of a queue, and only when its       *)
(* asserts hold: nobody refers to it, it is empty and it is unlinked; and  *)
(* a slot that was given back stays untouched until it is taken again.     *)
DestroyedUnused ==
    \A q \in Queues :
        /\ q \in free \/ (\E t \in Threads : Destroying(t, q)) =>
              /\ Owners(q) = {} /\ Carriers(q) = {} /\ Drainers(q) = {}
              /\ ~Linked(q) /\ task_list[q] = <<>>
        /\ \A t \in Threads : Destroying(t, q) => q \notin free
        /\ \A t, u \in Threads : Destroying(t, q) /\ Destroying(u, q) => t = u

(* What the program counters say about the other locals of a thread: the   *)
(* part of the inductive invariant that is about control.                  *)
ArgOK(t) ==
    /\ pc[t] \in {"acquire", "link", "svc", "release", "give"}
          <=> arg[t] \in Queues
    /\ pc[t] = "acquire" => arg[t] \in Usable(t)

ExternalOK(e) ==
    /\ pc[e] \in {"idle", "acquire", "link", "wake", "nowake", "give", "leave",
                  "copy", "stop"}
    /\ cur[e] = NoQueue

WorkerOK(w) ==
    /\ pc[w] # "idle"
    /\ pc[w] \in {"run", "drop"} => cur[w] \in Queues
    /\ pc[w] \in {"take", "svc", "release", "wait", "ready", "left"}
          => cur[w] = NoQueue
    /\ cur[w] = NoQueue => task[w] = NoTask /\ prev[w] = NoTask /\ own[w] = {}
    /\ cur[w] # NoQueue /\ prev[w] = NoTask => task[w] \in Tasks
    /\ pc[w] = "run" => prev[w] = NoTask
    /\ pc[w] = "drop" => prev[w] \in Tasks

ControlOK ==
    /\ \A t \in Threads : ArgOK(t)
    /\ \A e \in Externals : ExternalOK(e)
    /\ \A w \in Workers : WorkerOK(w)

(* A task is destroyed once, and not while any list, any body or any       *)
(* other worker still has it: destroying the last task overlaps with the   *)
(* next run of the same queue on another worker.                           *)
TaskDestroyedOnce ==
    \A w \in Workers : prev[w] # NoTask =>
        /\ prev[w] \notin dropped
        /\ \A q \in Queues : \A i \in 1..Len(task_list[q]) :
               task_list[q][i] # prev[w]
        /\ \A v \in Workers : task[v] # prev[w] /\ (v # w => prev[v] # prev[w])

(* A ready queue never waits for nothing: while something is linked, some  *)
(* worker is up and will look at the combine, or the eventfd is readable,  *)
(* or the thread that found the combine empty is about to write it.        *)
NoLostWakeup ==
    combine # <<>> /\ (\A w \in Workers : pc[w] \in {"wait", "left"}) =>
        eventfd > 0 \/ \E e \in Externals : pc[e] = "wake"

(* The work count is one unit per queue that exists plus one for each      *)
(* thread between giving a queue back and leaving: what the stop relies on.*)
WorkCountsQueues ==
    work_cnt = Cardinality(Queues \ free)
                 + Cardinality({t \in Threads : pc[t] = "leave"})

(* Workers are stopped by one thread, each once (a worker's storage is     *)
(* gone after its stop task), and only when no queue is left, which the    *)
(* work count tells exactly.                                               *)
StoppedOnceWhenIdle ==
    /\ WorkCountsQueues
    /\ stopping # {} => free = Queues /\ combine = <<>>
    /\ \A t \in Threads : pc[t] = "stop" => stopping = 1..(stop_idx[t] - 1)
    /\ \A t, u \in Threads :
          pc[t] \in {"copy", "stop"} /\ pc[u] \in {"copy", "stop"} => t = u

(* The loop is freed only when no thread is at a step that reads or writes *)
(* it: the last releaser works from its copy of the worker pointers.       *)
LoopOutlivesUse ==
    freed => \A t \in Threads : pc[t] \in {"idle", "left", "stop"}

(* The end of the loop: stopped once, when idle, and freed after its last  *)
(* use.                                                                    *)
EndsOnceUnused == StoppedOnceWhenIdle /\ LoopOutlivesUse

(* Every task that is pushed is run and destroyed, although a push by a    *)
(* worker wakes nobody.                                                    *)
EveryTaskRuns == \A k \in Tasks : k \notin fresh ~> k \in dropped

(* ntt_loop_run returns once the application has let go of everything.     *)
LoopReturns == <>freed

(* The loop's queues implement the serial queues of SerialQueue: a task is *)
(* running from the moment a worker holds it until ntt_queue_next; the next*)
(* one starts when the previous one's destroy callback has returned.       *)
Serial == INSTANCE SerialQueue WITH
    pending <- task_list,
    running <- {q \in Queues : \E w \in Workers : /\ cur[w] = q
                                                  /\ prev[w] = NoTask
                                                  /\ task[w] # NoTask}

ImplementsSerialQueue == Serial!Spec
=============================================================================
