------------------------------- MODULE Worker -------------------------------
(***************************************************************************)
(* The life of the workers of a loop (src/src/worker.c, src/src/loop.c):   *)
(* they enter together, each waits in epoll_pwait with its wakeup signal   *)
(* open only there, drains its local queue when the signal came, and       *)
(* leaves when its stop task ran. Barriers and stop tasks reach a worker   *)
(* through its local queue, whose wakeup is pthread_sigqueue.              *)
(*                                                                         *)
(* What the queues of the loop do is in Loop. Here the application is the  *)
(* first task and the client threads it hands units of work to; whoever    *)
(* holds a unit may push barriers and delete a descriptor from epoll.      *)
(*                                                                         *)
(* Signals and epoll are external: a signal stays pending while it is      *)
(* blocked, epoll_pwait opens it and reports events first when there are   *)
(* any, and one signal is delivered per call.                              *)
(***************************************************************************)
EXTENDS Integers, Sequences, FiniteSets

CONSTANTS
    Width,     \* number of workers
    Clients,   \* external threads
    Barriers,  \* barriers the application ever pushes
    StopTask,  \* the stop task of a worker
    MaxEvents  \* bound on what epoll_pwait returns for, signals apart

Workers == 1..Width
Threads == Workers \cup Clients

ASSUME WorkerWidth == Width \in Nat \ {0}
ASSUME WorkerThreads == Workers \cap Clients = {} /\ IsFiniteSet(Clients)
ASSUME WorkerTasks == StopTask \notin Barriers
ASSUME WorkerBounds == MaxEvents \in Nat

VARIABLES
    refs,       \* [Workers -> Int]: the work guard of each worker
    known,      \* workers whose pointer is in the loop's table
    enter_cnt,
    list,       \* [Workers -> Seq of tasks]: local queues
    qrefs,      \* [Workers -> Int]: external_refs of the local queues
    signals,    \* [Workers -> Nat]: pending wakeup signals
    need_drain, \* workers whose need_drain_local_queue is set
    stopped,    \* workers whose stopped is set
    pc,
    why,        \* why a thread is in a push or a release, and
    target,     \* the worker it is about
    job,        \* the task it pushes
    work_cnt,
    first,      \* the first task still waits in the combine
    brefs,      \* [Barriers -> Int]: refs of the barrier contexts
    barrier,    \* [Barriers -> "unused", "sent" or "freed"]
    fd,         \* a descriptor is registered in epoll
    after_del,  \* barriers pushed after it was deleted
    events,
    freed       \* the loop is destroyed

local_vars == <<list, qrefs, signals>>
loop_vars == <<known, enter_cnt, work_cnt, first, freed>>
flag_vars == <<need_drain, stopped>>
call_vars == <<why, target, job>>
bar_vars == <<brefs, barrier, after_del>>
epoll_vars == <<fd, events>>
vars == <<refs, local_vars, loop_vars, flag_vars, pc, call_vars, bar_vars,
          epoll_vars>>

Jobs == Barriers \cup {StopTask}

TypeOK ==
    /\ refs \in [Workers -> 0..2]
    /\ known \in SUBSET Workers
    /\ enter_cnt \in 0..Width
    /\ list \in [Workers -> Seq(Jobs)]
    /\ qrefs \in [Workers -> Nat]
    /\ signals \in [Workers -> Nat]
    /\ need_drain \in SUBSET Workers /\ stopped \in SUBSET Workers
    /\ pc \in [Threads -> {"unborn", "create", "init", "enter", "count",
                           "asleep", "awake", "check", "combine", "app", "wait",
                           "dispatch", "returned", "local", "body", "next",
                           "unhold", "left", "idle", "push", "acquire",
                           "signal", "leave", "copy", "release"}]
    /\ why \in [Threads -> {"barrier", "leave", "own"}]
    /\ target \in [Threads -> Workers]
    /\ job \in [Threads -> Jobs]
    /\ work_cnt \in Nat
    /\ first \in BOOLEAN
    /\ brefs \in [Barriers -> 0..Width]
    /\ barrier \in [Barriers -> {"unused", "sent", "freed"}]
    /\ fd \in BOOLEAN
    /\ after_del \in SUBSET Barriers
    /\ events \in 0..MaxEvents
    /\ freed \in BOOLEAN

(* ntt_loop_run has pushed the first task and starts the followers.        *)
Init ==
    /\ refs = [w \in Workers |-> 0]
    /\ known = {}
    /\ enter_cnt = 0
    /\ list = [w \in Workers |-> <<>>]
    /\ qrefs = [w \in Workers |-> 0]
    /\ signals = [w \in Workers |-> 0]
    /\ need_drain = {}
    /\ stopped = {}
    /\ pc = [t \in Threads |-> IF t \in Clients THEN "idle"
                               ELSE IF t = 1 THEN "create" ELSE "unborn"]
    /\ why = [t \in Threads |-> "own"]
    /\ target = [t \in Threads |-> 1]
    /\ job = [t \in Threads |-> StopTask]
    /\ work_cnt = 1
    /\ first = TRUE
    /\ brefs = [b \in Barriers |-> 0]
    /\ barrier = [b \in Barriers |-> "unused"]
    /\ fd = TRUE
    /\ after_del = {}
    /\ events = 0
    /\ freed = FALSE

Go(t, label) == pc' = [pc EXCEPT ![t] = label]

-----------------------------------------------------------------------------
(* Entering. The leader starts the followers one after the other, then     *)
(* serves as a worker itself.                                              *)
CreateFollower ==
    /\ pc[1] = "create"
    /\ IF target[1] < Width
       THEN /\ pc' = [pc EXCEPT ![target[1] + 1] = "init"]
            /\ target' = [target EXCEPT ![1] = @ + 1]
       ELSE Go(1, "init") /\ UNCHANGED target
    /\ UNCHANGED <<refs, local_vars, loop_vars, flag_vars, why, job, bar_vars,
                   epoll_vars>>

(* ntt_worker_init, and the wakeup signal is blocked.                      *)
WorkerInit(w) ==
    /\ pc[w] = "init"
    /\ refs' = [refs EXCEPT ![w] = 1]
    /\ qrefs' = [qrefs EXCEPT ![w] = 1]
    /\ Go(w, "enter")
    /\ UNCHANGED <<list, signals, loop_vars, flag_vars, call_vars, bar_vars,
                   epoll_vars>>

(* ntt_loop_worker_enter: publish the worker ...                           *)
WorkerEnter(w) ==
    /\ pc[w] = "enter"
    /\ refs' = [refs EXCEPT ![w] = @ + 1]
    /\ known' = known \cup {w}
    /\ Go(w, "count")
    /\ UNCHANGED <<local_vars, enter_cnt, work_cnt, first, freed, flag_vars,
                   call_vars, bar_vars, epoll_vars>>

(* ... count it, and wait for the others; the last one wakes them all.     *)
AllEnteredAny(n) == TRUE  \* mutant
AllEntered(n) == n >= Width

EnterBarrier(w) ==
    /\ pc[w] = "count"
    /\ enter_cnt' = enter_cnt + 1
    /\ LET all == AllEntered(enter_cnt + 1)
       IN  pc' = [t \in Threads |->
                    IF t = w THEN IF all THEN "release" ELSE "asleep"
                    ELSE IF all /\ pc[t] = "asleep" THEN "awake" ELSE pc[t]]
    /\ why' = [why EXCEPT ![w] = "own"]
    /\ target' = [target EXCEPT ![w] = w]
    /\ UNCHANGED <<refs, local_vars, known, work_cnt, first, freed, flag_vars,
                   job, bar_vars, epoll_vars>>

(* pthread_cond_wait returns, for the broadcast or for nothing, and the    *)
(* count is looked at again.                                               *)
EnterWakes(w) ==
    /\ pc[w] \in {"asleep", "awake"}
    /\ Go(w, IF AllEntered(enter_cnt) THEN "release" ELSE "asleep")
    /\ UNCHANGED <<refs, local_vars, loop_vars, flag_vars, call_vars, bar_vars,
                   epoll_vars>>

-----------------------------------------------------------------------------
(* Pushing to a local queue, and releasing a worker.                       *)

(* Where a thread goes when it is done with one worker: its own release    *)
(* leads into the service loop; ntt_loop_push_barrier and                  *)
(* ntt_loop_work_leave go on to the next worker.                           *)
Home(t) == IF t \in Clients THEN "idle" ELSE "combine"

Proceed(t) ==
    IF why[t] # "own" /\ target[t] < Width
    THEN /\ target' = [target EXCEPT ![t] = @ + 1]
         /\ Go(t, IF why[t] = "barrier" THEN "push" ELSE "release")
    ELSE /\ Go(t, CASE why[t] = "own" -> "check"
                    [] why[t] = "barrier" -> "app"
                    [] why[t] = "leave" -> Home(t))
         /\ UNCHANGED target

(* ntt_queue_push_task on the local queue of the target.                   *)
WasEmptyNever(w) == FALSE  \* mutant
WasEmptyAlways(w) == TRUE  \* mutant
WasEmpty(w) == list[w] = <<>>

PushLocal(t) ==
    /\ pc[t] = "push"
    /\ list' = [list EXCEPT ![target[t]] = Append(@, job[t])]
    /\ IF WasEmpty(target[t])
       THEN Go(t, "acquire") /\ UNCHANGED target
       ELSE Proceed(t)
    /\ UNCHANGED <<refs, qrefs, signals, loop_vars, flag_vars, why, job,
                   bar_vars, epoll_vars>>

HeldNot(w) == qrefs  \* mutant
Held(w) == [qrefs EXCEPT ![w] = @ + 1]

AcquireLocal(t) ==
    /\ pc[t] = "acquire"
    /\ qrefs' = Held(target[t])
    /\ Go(t, "signal")
    /\ UNCHANGED <<refs, list, signals, loop_vars, flag_vars, call_vars,
                   bar_vars, epoll_vars>>

(* ntt_worker_local_queue_wakeup.                                          *)
SendSignal(t) ==
    /\ pc[t] = "signal"
    /\ signals' = [signals EXCEPT ![target[t]] = @ + 1]
    /\ Proceed(t)
    /\ UNCHANGED <<refs, list, qrefs, loop_vars, flag_vars, why, job, bar_vars,
                   epoll_vars>>

(* ntt_worker_release: the last reference sends the stop task.             *)
LastGuardNever(w) == FALSE  \* mutant
LastGuard(w) == refs[w] = 1

ReleaseWorker(t) ==
    /\ pc[t] = "release"
    /\ refs' = [refs EXCEPT ![target[t]] = @ - 1]
    /\ job' = [job EXCEPT ![t] = StopTask]
    /\ IF LastGuard(target[t])
       THEN Go(t, "push") /\ UNCHANGED target
       ELSE Proceed(t)
    /\ UNCHANGED <<local_vars, loop_vars, flag_vars, why, bar_vars, epoll_vars>>

-----------------------------------------------------------------------------
(* The application: the first task on a worker, and clients, while they    *)
(* hold a unit of work.                                                    *)
HandWork(w, c) ==
    /\ pc[w] = "app" /\ w \in Workers
    /\ pc[c] = "idle"
    /\ work_cnt' = work_cnt + 1
    /\ Go(c, "app")
    /\ UNCHANGED <<refs, local_vars, known, enter_cnt, first, freed, flag_vars,
                   call_vars, bar_vars, epoll_vars>>

(* ntt_loop_push_barrier: one reference of the context per worker.         *)
BarrierCountOne == 1  \* mutant
BarrierCount == Width

PushBarrier(t, b) ==
    /\ pc[t] = "app"
    /\ barrier[b] = "unused"
    /\ barrier' = [barrier EXCEPT ![b] = "sent"]
    /\ brefs' = [brefs EXCEPT ![b] = BarrierCount]
    /\ after_del' = IF fd THEN after_del ELSE after_del \cup {b}
    /\ job' = [job EXCEPT ![t] = b]
    /\ why' = [why EXCEPT ![t] = "barrier"]
    /\ target' = [target EXCEPT ![t] = 1]
    /\ Go(t, "push")
    /\ UNCHANGED <<refs, local_vars, loop_vars, flag_vars, epoll_vars>>

(* ntt_loop_epoll_del.                                                     *)
EpollDel(t) ==
    /\ pc[t] = "app"
    /\ fd
    /\ fd' = FALSE
    /\ UNCHANGED <<refs, local_vars, loop_vars, flag_vars, pc, call_vars,
                   bar_vars, events>>

AppEnds(t) ==
    /\ pc[t] = "app"
    /\ Go(t, "leave")
    /\ UNCHANGED <<refs, local_vars, loop_vars, flag_vars, call_vars, bar_vars,
                   epoll_vars>>

(* ntt_loop_work_leave: the last unit copies the table, then releases the  *)
(* workers one after the other.                                            *)
WorkLeave(t) ==
    /\ pc[t] = "leave"
    /\ work_cnt' = work_cnt - 1
    /\ Go(t, IF work_cnt = 1 THEN "copy" ELSE Home(t))
    /\ UNCHANGED <<refs, local_vars, known, enter_cnt, first, freed, flag_vars,
                   call_vars, bar_vars, epoll_vars>>

CopyWorkers(t) ==
    /\ pc[t] = "copy"
    /\ why' = [why EXCEPT ![t] = "leave"]
    /\ target' = [target EXCEPT ![t] = 1]
    /\ Go(t, "release")
    /\ UNCHANGED <<refs, local_vars, loop_vars, flag_vars, job, bar_vars,
                   epoll_vars>>

-----------------------------------------------------------------------------
(* The service loop of ntt_worker_svc_with_mask.                           *)
CheckStopped(w) ==
    /\ pc[w] = "check"
    /\ Go(w, IF w \in stopped THEN "left" ELSE "combine")
    /\ UNCHANGED <<refs, local_vars, loop_vars, flag_vars, call_vars, bar_vars,
                   epoll_vars>>

(* ntt_combine_svc serves the first task, or finds nothing.                *)
ServeCombine(w) ==
    /\ pc[w] = "combine"
    /\ first' = FALSE
    /\ Go(w, IF first THEN "app" ELSE "wait")
    /\ UNCHANGED <<refs, local_vars, known, enter_cnt, work_cnt, freed,
                   flag_vars, call_vars, bar_vars, epoll_vars>>

(* epoll_pwait reports the descriptor, and the worker dispatches it.       *)
EpollReports(w) ==
    /\ pc[w] = "wait"
    /\ fd
    /\ events < MaxEvents
    /\ events' = events + 1
    /\ Go(w, "dispatch")
    /\ UNCHANGED <<refs, local_vars, loop_vars, flag_vars, call_vars, bar_vars,
                   fd>>

Dispatched(w) ==
    /\ pc[w] = "dispatch"
    /\ Go(w, "combine")
    /\ UNCHANGED <<refs, local_vars, loop_vars, flag_vars, call_vars, bar_vars,
                   epoll_vars>>

(* A signal of the application interrupts the call.                        *)
EpollInterrupted(w) ==
    /\ pc[w] = "wait"
    /\ events < MaxEvents
    /\ events' = events + 1
    /\ Go(w, "returned")
    /\ UNCHANGED <<refs, local_vars, loop_vars, flag_vars, call_vars, bar_vars,
                   fd>>

(* The wakeup signal does: its handler sets the flag.                      *)
DeliverSignal(w) ==
    /\ pc[w] = "wait"
    /\ signals[w] > 0
    /\ signals' = [signals EXCEPT ![w] = @ - 1]
    /\ need_drain' = need_drain \cup {w}
    /\ Go(w, "returned")
    /\ UNCHANGED <<refs, list, qrefs, loop_vars, stopped, call_vars, bar_vars,
                   epoll_vars>>

(* The service callback has returned: the flag decides about the drain.    *)
ServiceReturned(w) ==
    /\ pc[w] = "returned"
    /\ Go(w, IF w \in need_drain THEN "local" ELSE "check")
    /\ UNCHANGED <<refs, local_vars, loop_vars, flag_vars, call_vars, bar_vars,
                   epoll_vars>>

(* ntt_queue_svc on the local queue: a stop task sets the flag, a barrier  *)
(* gives up its reference, and the last one goes on to the task of the     *)
(* barrier.                                                                *)
RunLocal(w) ==
    /\ pc[w] = "local"
    /\ LET b == Head(list[w])
       IN  IF b = StopTask
           THEN /\ stopped' = stopped \cup {w}
                /\ Go(w, "next")
                /\ UNCHANGED brefs
           ELSE /\ brefs' = [brefs EXCEPT ![b] = @ - 1]
                /\ Go(w, IF brefs[b] = 1 THEN "body" ELSE "next")
                /\ UNCHANGED stopped
    /\ UNCHANGED <<refs, local_vars, loop_vars, need_drain, call_vars, barrier,
                   after_del, epoll_vars>>

(* The task of the barrier runs and is destroyed, the context is freed.    *)
RunBarrier(w) ==
    /\ pc[w] = "body"
    /\ barrier' = [barrier EXCEPT ![Head(list[w])] = "freed"]
    /\ Go(w, "next")
    /\ UNCHANGED <<refs, local_vars, loop_vars, flag_vars, call_vars, brefs,
                   after_del, epoll_vars>>

NextLocal(w) ==
    /\ pc[w] = "next"
    /\ list' = [list EXCEPT ![w] = Tail(@)]
    /\ Go(w, IF Len(list[w]) = 1 THEN "unhold" ELSE "local")
    /\ UNCHANGED <<refs, qrefs, signals, loop_vars, flag_vars, call_vars,
                   bar_vars, epoll_vars>>

(* The end of ntt_queue_svc, and the flag is reset.                        *)
EndDrain(w) ==
    /\ pc[w] = "unhold"
    /\ qrefs' = [qrefs EXCEPT ![w] = @ - 1]
    /\ need_drain' = need_drain \ {w}
    /\ Go(w, "check")
    /\ UNCHANGED <<refs, list, signals, loop_vars, stopped, call_vars, bar_vars,
                   epoll_vars>>

(* The leader has joined everybody and frees the loop.                     *)
DestroyLoop ==
    /\ \A w \in Workers : pc[w] = "left"
    /\ ~freed
    /\ freed' = TRUE
    /\ UNCHANGED <<refs, local_vars, known, enter_cnt, work_cnt, first,
                   flag_vars, pc, call_vars, bar_vars, epoll_vars>>

-----------------------------------------------------------------------------
Terminated == /\ freed /\ \A c \in Clients : pc[c] = "idle"
              /\ UNCHANGED vars

Call(t) == \/ PushLocal(t) \/ AcquireLocal(t) \/ SendSignal(t)
           \/ ReleaseWorker(t) \/ WorkLeave(t) \/ CopyWorkers(t)

Serve(w) == \/ WorkerInit(w) \/ WorkerEnter(w) \/ EnterBarrier(w)
            \/ EnterWakes(w)
            \/ CheckStopped(w) \/ ServeCombine(w) \/ EpollReports(w)
            \/ Dispatched(w) \/ EpollInterrupted(w) \/ DeliverSignal(w)
            \/ ServiceReturned(w) \/ RunLocal(w) \/ RunBarrier(w)
            \/ NextLocal(w) \/ EndDrain(w)

Next == \/ CreateFollower
        \/ \E w \in Workers : Serve(w) \/ \E c \in Clients : HandWork(w, c)
        \/ \E t \in Threads : \/ Call(t) \/ EpollDel(t) \/ AppEnds(t)
                              \/ \E b \in Barriers : PushBarrier(t, b)
        \/ DestroyLoop
        \/ Terminated

Spec == Init /\ [][Next]_vars

(* Threads run, the application lets go of its work in the end, and        *)
(* epoll_pwait, which reports events before it looks at signals, does not  *)
(* always have one: MaxEvents bounds them.                                 *)
Fairness ==
    /\ WF_vars(CreateFollower) /\ WF_vars(DestroyLoop)
    /\ \A w \in Workers : WF_vars(Serve(w))
    /\ \A t \in Threads : WF_vars(Call(t)) /\ WF_vars(AppEnds(t))

FairSpec == Spec /\ Fairness

-----------------------------------------------------------------------------
(* The worker pointers that ntt_loop_push_barrier and ntt_loop_work_leave  *)
(* read from the table of the loop have been stored: no task runs and no   *)
(* work is left before every worker has entered.                           *)
WorkersKnown ==
    \A t \in Threads :
        \/ pc[t] \in {"app", "leave", "copy"}
        \/ pc[t] = "push" /\ why[t] = "barrier"
        => known = Workers

(* A wakeup of a local queue is under way: from the push that found it     *)
(* empty to the drain.                                                     *)
Sending(w) == {t \in Threads : pc[t] \in {"acquire", "signal"} /\ target[t] = w}
Draining(w) == {v \in {w} : v \in need_drain /\ pc[v] # "unhold"}

(* A local queue with tasks has exactly one wakeup under way (a sender, a  *)
(* pending signal, or the flag) and an empty one none: one signal is one   *)
(* drain, although the flag is reset only after the drain.                 *)
OneWakeupPerDrain ==
    \A w \in Workers :
        Cardinality(Sending(w)) + signals[w] + Cardinality(Draining(w))
            = IF list[w] = <<>> THEN 0 ELSE 1

(* The local queue lives inside its worker: its own reference is never     *)
(* dropped, so ntt_queue_release never destroys and frees it.              *)
LocalQueueStays ==
    \A w \in Workers : pc[w] \notin {"unborn", "create", "init"} =>
        qrefs[w] = 1 + signals[w] + Cardinality({v \in {w} : v \in need_drain})
                     + Cardinality({t \in Sending(w) : pc[t] = "signal"})

(* A worker that has left, whose structure was on its stack, is not        *)
(* touched again, and it left nothing undone.                              *)
LeftForGood ==
    \A w \in Workers : pc[w] = "left" =>
        /\ \A t \in Threads : pc[t] \in {"push", "acquire", "signal", "release"}
                                => target[t] # w
        /\ list[w] = <<>> /\ signals[w] = 0

(* The worker and the local queue inside it, both on the stack of the      *)
(* thread, are in nobody's hands when the thread returns and are freed by  *)
(* no one else.                                                            *)
WorkerOutlivesUse == LocalQueueStays /\ LeftForGood

(* "At task execution all previously deleted fds from epoll will be        *)
(* drained" (src/src/loop.h): when the task of a barrier pushed after the  *)
(* deletion runs, no worker still dispatches a notification.               *)
BarrierDrainsEpoll ==
    \A w \in Workers :
        pc[w] = "body" /\ Head(list[w]) \in after_del =>
            \A v \in Workers : pc[v] # "dispatch"

(* The context of a barrier is freed when no local queue has a task that   *)
(* refers to it any more, but that of the worker that runs it.             *)
BarrierFreedLast ==
    \A b \in Barriers, w \in Workers : barrier[b] = "freed" =>
        /\ \A p \in 1..Len(list[w]) : list[w][p] = b => p = 1 /\ pc[w] = "next"
        /\ \A t \in Threads : pc[t] = "push" => job[t] # b

(* Counters and tables stay in range, nobody follows a worker pointer that *)
(* is not stored yet (loop.c:45) and nobody is left with a barrier context *)
(* that is freed (loop.c:377).                                             *)
WorkerConsistent == TypeOK /\ WorkersKnown /\ BarrierFreedLast

(* Every barrier that is pushed runs.                                      *)
BarriersRun == \A b \in Barriers : barrier[b] = "sent" ~> barrier[b] = "freed"

(* Every worker leaves once the work is gone, and ntt_loop_run returns.    *)
WorkersLeave == <>freed
=============================================================================
