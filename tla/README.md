# TLA+ verification of ntt

ntt is a C library of serial task queues over an epoll loop: tasks pushed to a
queue run one at a time and in order, on any of the workers of a loop; events
and timers are delivered as tasks. This directory models its core, checks the
models with TLC, and proves with TLAPS the safety of the scheduler, of its
workers, of the events, of the slab, of the reader and of the timers, that
events and timers keep the promise of their interfaces, and what the intrusive
lists and the binary heaps do.
Source paths are relative to the repository, `src/src/...` being the library.

## The system

| Component | State | Operations | Talks to |
|---|---|---|---|
| queue (`queue.c`) | task list, reference count, timers, registration | push, drain (with and without limit), acquire, release, sync_timers | the combine when it becomes non empty, the loop's work count, the timer service |
| combine (`combine.c`) | list of queues with work | push, take, drain, drain with limits | wakes the loop when it becomes non empty |
| loop (`loop.c`) | work count, enter count, worker table, eventfd, epoll, slabs | run, work_enter/leave, push_barrier, destroy | workers, everything it owns |
| worker (`worker.c`) | work guard, local queue, drain flag, stopped | enter, service, release, push_task, leave | woken by a real time signal |
| event (`event.c`) | READY/BUSY/CLOSED bits, reference count, queues | open, dispatch, cancel, report | epoll notifications in, tasks out to the queues of its sides |
| slab (`slab.c`) | blocks, free list, generations | take, give, retire, resolve | storage of queues and events |
| timer heap (`timer_heap.c`) | heap, slots, tombstones | push, peek, cancel, service pass | calls back into tasks |
| timer service (`timer_service.c`, `queue_heap.c`) | heap of registrations, armed deadline | register, ready handler | timerfd, queues |
| timer API (`timer.c`) | none | wakeup_at, wakeup_after, cancel | timer heap, sync_timers |
| reader (`reader.c`) | queue, handle, error code | start, read loop, cancel, on_cancel | a client of the event layer |
| task, list, node (`task.h`, `list.h`, `node.h`) | next and prev of every node | push, next, front, empty | under every queue, the combine and the local queues |
| signal, malloc, die, log | see PROJECT.json | | |

What is hard here, and hard to test:

* **Windows between a lock and what follows it.** A push finds a queue empty
  under the lock and acquires and links it after; a drain pops the last task
  and destroys it after, while another worker already runs the next one; the
  clock of the timer handler is read before its lock.
* **Wakeups that must not be lost.** A worker's own push writes no eventfd; a
  local queue is woken by one signal that is open only inside `epoll_pwait`; a
  notification that arrives while a side is served is only a bit; a registration
  is dropped by bumping a generation nobody locks.
* **Lifetimes.** The last reference of a queue gives its slot back and then its
  unit of work, whose last unit stops the workers, whose last one lets the loop
  be freed, while the stopping thread still works from a copied table.
* **Stale names.** Handles and registrations outlive what they name; slots are
  reused; generations tell.
* **Re-entrancy.** The timer heap is changed by the tasks it is calling.
* **Owners that go away in a callback.** The last callback of an event may
  delete the reader, and let the loop be freed, while the call that started or
  cancelled it has not returned on another thread.
* **Edges.** A descriptor is reported once per arrival, so whoever stops reading
  too early, or misses a report while it serves, never hears of that input again.

The full list, each at its line and with the properties that cover it, is under
`hazards` in PROJECT.json.

## Modules

| Module | Models |
|---|---|
| `Loop` | queues, combine, eventfd wakeup, work count, stop and destruction |
| `SerialQueue` | abstract: what the queues promise (serial, FIFO, each task once) |
| `LoopProofs` | theorems about `Loop`: scheduling, references, wakeups, destruction, the end of the loop, `SerialQueue` |
| `List` | the intrusive list, store by store |
| `Worker` | enter barrier, local queues and their signal, barriers, stop tasks |
| `WorkerProofs` | theorems about `Worker` |
| `Event` | dispatch, serve, cancel, reports, slot reuse; the loop's own descriptors |
| `Watch` | abstract: what one event promises its owner |
| `EventProofs` | theorems about `Event`: counts, serial sides, stale handles, `Watch` |
| `Reader` | the reader, on top of `Watch` and an edge triggered descriptor |
| `ReaderProofs` | theorems about `Reader` |
| `Slab` | slots, blocks, free list, generations, index arithmetic |
| `SlabProofs` | theorems about `Slab` |
| `BinaryHeap` | the sift operations both heaps share, as recursive functions |
| `ContainerProofs` | theorems about `List` and `BinaryHeap` |
| `TimerHeap` | the timers of one queue, with callbacks that re-enter |
| `Timers` | abstract: armed timers fire in order of deadline, then of arming |
| `TimerHeapProofs` | theorems about `TimerHeap`: slots and entries, destruction, tags, `Timers` |
| `TimerService` | sync_timers, the registration heap, the timerfd handler |
| `TimerServiceProofs` | theorems about `TimerService`: references, cover, timerfd |
| `MC*` | instances for TLC |

Every section under a spinlock and every atomic read-modify-write is one action
(a compare-exchange loop included); whatever lies between two of them is a
program counter, so every window in the code is a window in the model. One kind
of step is coarser: `Event` and `TimerService` let the push of a task to a queue
(with its acquire and link) be one step, and its end another, since `Loop` has
the steps of both and shows that they behave so.
Variables and actions keep the names of the code. Lists are sequences, which
`List` justifies. Memory
orders are not modelled: the models are sequentially consistent, and the
acquire/release pairs that justify it are the ones the comments of the code
name. Definitions marked `mutant` are wrong on purpose: PROJECT.json names, for
each property, the one that must break it.

**Loop.** `pc[t]` says where thread `t` is inside `ntt_queue_push_task`
(`acquire`, `link`, `wake`), `ntt_queue_svc` (`svc`, `run`, `drop`, `release`),
`ntt_queue_release` (`give`, `leave`), `ntt_loop_work_leave` (`copy`, `stop`) or
`ntt_loop_worker_svc` (`take`, `wait`, `ready`). The application is the
environment: a task body, or an external thread, uses queues it has a reference
to, as `include/ntt/queue.h` demands. Application code is also the destroy
callback of a task (`NTT_TASK_DROP`, `InCallback`): it runs between
`ntt_queue_next` and the next task, and may push, release and create there as a
body may. `Limit` is a number for each worker: zero drains as `ntt_loop_run`
does, with `ntt_queue_svc`, any other with the queue limit of
`ntt_combine_svc_with_limits`. The loop limit of the latter is left out: it only
returns to a caller, a test or a benchmark, that may call again. Workers start after the enter barrier, and
are stopped in one step per worker; `Worker` has the details of both.

**Worker.** Begins where `ntt_loop_run` creates the followers. The first task
hands units of work to clients; whoever holds one pushes barriers and deletes a
descriptor. A push to a local queue is three steps (link, acquire, signal); a
pending signal is delivered only while its worker is in `epoll_pwait`, one per
call. A task of a barrier is taken to do nothing to the loop itself.

**Event.** Each queue is a serial thread, which is what `ImplementsSerialQueue`
shows of `Loop`. A notification is resolved (`ntt_event_live`), published,
claimed per side, and posted; the last reference reports the cancellation in
the queues of the sides, one after the other, and gives the slot back;
`ntt_event_finish` then releases the queue of reads, the queue of writes and the
unit of work in three steps (`ReleaseHeld`, `FinishEvent`), and
`QueuesHeldByEvents` in `EventConsistent` says that the unit goes last. The
application knows a handle from the registration on (`EpollAdd`), although it is
written into its owner before (event.c:440): until `ntt_event_start` returns or
a handler runs, another thread would have to read that field unsynchronised to
cancel the event, and such a cancel is not explored. A
descriptor of the loop itself (`Own`: the eventfd of the combine, the timerfd)
has no queue and is not serial; the worker that is notified runs its handler
(`ServedHere`). A thread from outside the loop that drops the last reference has
one more step after its push, `Wakeup`, in which it reads the combine.

**Watch and Reader.** `Promise(s)` maps a slot of `Event` to the variables of
`Watch` (phase, notified, taken, running, told), and `ImplementsWatch` says that
every step of `Event` is a step of `Watch` or none, for each slot and tenant
after tenant. `Reader` then uses `Watch` in place of `Event`: the handler begins
and ends when `Watch` says so, and the reader adds its own steps, the descriptor
and `epoll`. `StartOrder` is the order in which `ntt_reader_start` and
`ntt_event_open` write; on_cancel may delete the reader at any point after the
registration. A notification of a closed event may still be published there, as
in the code.

**List.** A memory is the next and prev of every cell. `PushSteps` and
`NextSteps` are the memories a push and a next leave after each of their stores,
and `Represents(m, s)` says that the memory `m` is the list of the sequence `s`.
`MCLoop` evaluates `ListIsSequence` for every list of the tasks of its instance;
`ContainerProofs` proves it for all.

**Slab.** The 32 bits of an index are the parameter `IndexBits`, and every
constant and expression the code derives from the width scales with it; uint32_t
expressions are taken modulo `2^IndexBits`. Between `ntt_slab_take`'s block and
the published size, and between the bump of a generation and the link into the
free list, others may run. `SlotsAccountedFor` says of the free list that some
sequence starts at `free_head`, follows `next_free` to its end and names every
slot that waits, once.

**TimerHeap.** A stack of frames holds the calls that are underway: a pass that
is inside a task or its destruction, a cancel that is inside a destruction. In
each the application may push and cancel again, up to `MaxDepth`. The destroy
callbacks of `Deinit` do not re-enter: a queue asserts that its heap is empty
before it gets there. `Cancel` of `Timers` lets go of any armed timer, so the
refinement alone would not notice one that is lost; `HeapConsistent`, by which
every slot in use has its entry, does.

**TimerService.** A queue is a serial context with its own counter through
`ntt_queue_sync_timers`, the handlers of several dispatchers through
`ntt_timer_service_ready`. The timers of a queue are a set of deadlines, as
`Timers` allows. Clock, timerfd and epoll are external: arming the timerfd
forgets an expiration nobody has read, a value of zero disarms it, and a report
is edge triggered.

## Runs

| Run | Instance | Checks | Shows |
|---|---|---|---|
| `loop` | 2 workers, 1 external thread, 2 queues, 3 tasks, one worker without a limit and one with limit 2, fairness | 8 invariants, EveryTaskRuns, LoopReturns, ImplementsSerialQueue | serial, counted, woken, stopped once, freed last; liveness and refinement |
| `worker` | 2 workers, 1 client, 1 barrier, 2 events, fairness | WorkerConsistent, OneWakeupPerDrain, WorkerOutlivesUse, BarrierDrainsEpoll, BarriersRun, WorkersLeave | worker life, what `loop.h` promises of barriers, and that barriers complete and workers leave |
| `event_reuse` | 1 slot opened twice, 2 dispatchers, 2 notifications, 1 queue | EventConsistent, SidesServed, RefsCountHolders, StaleHandleHarmless, ImplementsWatch | serial sides, exact counts, stale handles, the promise of `Watch` |
| `event_live` | 1 dispatcher, both sides of the event in two queues, own descriptors too, 2 notifications, fairness | ImplementsWatch, NotificationServed, CancelFinishes | sides in parallel keep the promise; notifications served, also those that meet a side that is busy or leaving; cancels finish |
| `event_call_after_cancel` | fairness | NeverCalledAfterCancel, **violated** | finding 1 |
| `event_outside_cancel` | fairness | LoopOutlivesCancel, **violated** | finding 3 |
| `reader` | 4 bytes, chunks of 2, 2 notifications under way, fairness | ReaderConsistent, CancelIsTheLastWord, InputIsRead, EndIsReported | no input is left, one on_cancel, with the code of the read that ended the reader, nothing touched after it |
| `slab_slots` | 3 bit indices (blocks of 2, 4 and 1), 2 threads | SlabConsistent, HandlesNameTheirObject | no slot lost or handed out twice, indices resolve, up to the capacity |
| `slab_offsets` | 5 bit indices, stride 4 | StorageDisjoint, **violated** | finding 2 |
| `timer_heap` | 4 timers, 2 deadlines, nesting 2 | HeapConsistent, TaskDestroyedOnce, CancelsItsOwn, ImplementsTimers | the timers of a queue |
| `service_safety` | 2 slots, 2 dispatchers, deadlines 0 and 2, batch 2 | ServiceConsistent, RefsCountHolders, TimersCovered, TimerfdCovers | generation and lifetime races over a shared heap with tombstones, and the deadline that is zero |
| `service_live` | 2 dispatchers, 1 deadline, 2 arms, batch 1, fairness | DueTimersFire | every due timer fires |

`WorkerConsistent`, `EventConsistent`, `ReaderConsistent`, `ServiceConsistent`,
`HeapConsistent` and `SlabConsistent` are conjunctions: the type invariant of
the module and the named invariants about its data structures. So are
`EndsOnceUnused` (`StoppedOnceWhenIdle` and `LoopOutlivesUse`), `SidesServed`
(`OneServerPerSide` and `NotificationKept`), `WorkerOutlivesUse`
(`LocalQueueStays` and `LeftForGood`) and `CancelIsTheLastWord`
(`UntouchedAfterDelete` and `CancelledOnceWithItsCode`). The assumption
`HeapAlgorithms` of `MCTimerHeap`, which TLC evaluates before the run, checks
rebuild, insert and pop of `BinaryHeap` against their definition on every array
of up to six keys.

Why these bounds. The races of `Loop` and `Event` are between two threads over
one queue or one slot; a third party (the external thread, the second queue) is
there so that a release or a push can fall into the window. With limit 2 and
three tasks a drain runs a second task and also stops with one left, and the
worker without a limit drains as the loop does. Two
workers are the fewest for which an eventfd read can fail, a drain overlap the
next one, and a barrier be early. A slot has to be taken twice for a stale name
to meet a later tenant. Two notifications are the fewest for which one arrives
while its side is served (`event_reuse` and `event_live`); two queues are needed
for the sides to run at once (`event_live`). In `event_live` a hangup is reported
alone (`HangupAlone`): it reaches every side whatever else the report says, and
`event_reuse` has all the combinations. Batch 1 and batch 2 make the batch
of the timer handler (16 in the code) full at once, so the second round happens.
In these instances it finds nothing expired that the first one left behind; that
a full batch never leaves such a registration uncovered is the theorem
`TimerfdAlwaysCovers`, for every batch and any number of queues.
In `reader`, four bytes and chunks of two make a read that empties the
descriptor, one that does not, and an arrival in between.
`MaxCreates`, `MaxOpens`, `MaxNotify`, `MaxBytes`, `MaxFetched`, `MaxArms`,
`MaxTime`, `MaxEvents`, `MaxRetires`, `MaxTimers` and `MaxDepth` bound what the
environment does, not what the code may do. `service_live` has one deadline: two deadlines at once are
what `TimersCovered` and `TimerfdCovers` are checked with. Generations, versions
and sequence numbers are unbounded numbers; their wrap after 2^32 (2^64) steps
is outside every instance.

`CancelFinishes` is checked with one user. Every `ntt_event_cancel` holds a
reference for a moment, so two threads that go on cancelling the same event for
ever, each starting before the other ends, can keep it from being reported; the
library does not promise otherwise.

Deadlock is checked for `loop` and for `worker`, whose runs end in an
explicit `Terminated`. The other instances stop when the bounds of their
environment are used up.

## Fairness

* Threads keep running: weak fairness of every step of the code itself.
* The application ends: a task body returns, references, units of work are
  released in the end. Without that ntt keeps the loop running, by design. In
  `Event`, `HandlerReturns` is strongly fair, because a handler may call
  `ntt_event_cancel` any number of times in between; the same holds of
  `EndAppTask` and `TimerReturns` in `TimerService`, whose tasks may arm and
  cancel.
* `BeginTimersTask` is strongly fair: the tasks of a queue run in order, so a
  timers task that waits is not overtaken for ever by tasks of the application.
* `Lock` and `SyncRegister` are strongly fair: a spinlock is tried again and
  again, and the kernel does not arrange for it to be taken at every try. This
  is an assumption: `pthread_spin_lock` gives no order.
* Nothing is assumed of the kernel's notifications, except in `Worker`: since
  `epoll_pwait` looks at ready events before signals, a descriptor that is
  always ready would keep a barrier or a stop task waiting for ever. There the
  number of events is bounded.
* In `Reader`, the thread that starts the reader goes on, workers fetch and
  dispatch edges, the handler, on_data and on_cancel return. The peer need not
  send anything and nobody need cancel. A handler turn after a notification is
  what `NotificationServed` shows of `Event`.

## What is proved

`LoopProofs` proves, for any number of workers, external threads, queues and
tasks and any drain limit, from the named assumptions of `Loop` only:

| Theorem | Property |
|---|---|
| TypeCorrect | TypeOK |
| SchedulesOnce | ScheduledOnce |
| AlwaysRunsTheHead | RunsTheHead |
| RefsAreExact | RefsCountHolders |
| DestroysUnused | DestroyedUnused |
| WakesUp | NoLostWakeup |

The inductive invariant is

    Inv == TypeOK /\ ControlOK /\ ScheduledOnce /\ RunsTheHead
             /\ RefsCountHolders /\ DestroyedUnreferenced

and none of its parts stands alone. `ScheduledOnce` needs `ControlOK` (what a
program counter says about the other locals of its thread) to know that a
thread in `link` has a queue to link. `RunsTheHead` needs `ScheduledOnce`: only
because nobody else serves the queue is its head stable while pushes append.
`RefsCountHolders` counts finite sets of threads, so each step says which set it
changes (`CountAdd`, `CountRemove`); it gives `DestroyedUnreferenced`: when the
last reference goes, no holder is left. That a destroyed queue is also empty is
not part of `Inv` but follows (`UnusedIsEmpty`): a queue with tasks has a
scheduler, and every scheduler is a holder. There is one lemma per action.
Steps that touch no queue share `QuietStep` and `MoveStep`.

`NoLostWakeup` is inductive on top of `Inv`: a worker goes to sleep only when it
has seen the combine empty, and a push into an empty combine is by a worker,
which is up, or by an external thread, which then stands at the write. A read of
the eventfd leaves the reader up.

`ContainerProofs` proves, for any set of nodes, a sentinel that is none of them and a
NULL that is no cell:

| Theorem | Says |
|---|---|
| InitRepresents | `ntt_list_init` leaves the empty list |
| PushAppends | after `ntt_list_push_back` the memory is the list of `Append(s, x)`, and its result says whether the list was empty |
| NextDropsHead | after `ntt_list_next` it is the list of `Tail(s)`, the old head is unlinked, and the result is the second node or NULL |
| HeadReadableDuringPush | whoever reads the head between two stores of a push meets the old head, or in an empty list the new node with its link set |

They need no induction: `Represents` is stated by index, `PushCells` and
`NextCells` say what each store leaves in every cell, and the theorems compare
the two index by index.

The second half of `LoopProofs` goes on from the same `Inv`:

| Theorem | Property |
|---|---|
| DestroysTasksOnce | TaskDestroyedOnce |
| LoopEndsOnceUnused | EndsOnceUnused |
| QueuesAreSerial | the safety part of ImplementsSerialQueue |

`TasksOnce` says that a task is in one place: not pushed, at one position of one
list, in the hands of one worker, or destroyed. `EndInv` says what the work count
counts, the queues that exist and the threads on the way from `give` to
`leave`; who may stop the workers; and that an external thread inside a push
owns a reference. From it follows `NoWorkNoUse`: when the count is zero no
thread is at a point where it uses the loop, which is what makes the free
harmless. `QueuesAreSerial` goes action by action: a step of `Loop` is the step
of `SerialQueue` with the same name or leaves what `SerialQueue` sees unchanged
(`InvisibleStep`). `RunsTheHead` and `ScheduledOnce` give the guards there.

`WorkerProofs`, for any number of workers, clients, barriers and events:

| Theorem | Property |
|---|---|
| WorkersConsistent | WorkerConsistent |
| SignalsPairWithDrains | OneWakeupPerDrain |
| WorkersOutliveTheirUse | WorkerOutlivesUse |
| BarriersDrainEpoll | BarrierDrainsEpoll |

Its `Inv` has a part for each thing that is counted or passed on. `EnterOK`:
nobody is past the enter barrier before all are counted. `WorkOK`: units of work
and the one thread that dropped the last. `RefsOK`: the work guard of a worker.
`WakeOK` and `QrefsOK`: a local queue that is not empty has exactly one wakeup,
which is a push on its way to the signal, a signal that is pending, or a drain.
`StopOK`: the stop task is pushed once and is the last one. `ListsOK` and
`BarrierOK`: the references of a barrier are the workers that have still to run
it, whether the push to them has happened or not (`Pending`). `DrainOK` needs all
of these: whoever still dispatches a notification of a deleted descriptor is
pending for every barrier pushed after the deletion, so the body of the barrier
cannot run before it has returned.

`EventProofs`, for any number of slots, queues, dispatchers and users, any set
of parameters the application may open events with, and any bounds:

| Theorem | Property |
|---|---|
| EventIsConsistent | EventConsistent |
| SidesAreServed | SidesServed |
| RefsAreHolders | RefsCountHolders |
| StaleHandlesAreHarmless | StaleHandleHarmless |
| EventImplementsWatch | ImplementsWatch |

Its `Inv` has eleven parts, and they lean on each other in a circle, so they are
carried through a step together (`StepKeepsInv`). `ControlOK` and `HeadOK` tie a
program counter to the locals of its thread and to the task at the head of its
queue. `NamesOK` says whom a handle can name: an earlier tenant, or the present
one after its registration (`Added`); a task that has not let go of its event
names a tenant that is there and waits in the queue of its side. `OpenOK` is
about slots between `ntt_event_open` and the registration, whose count is still
zero: a stale handle that meets such a slot resolves to nothing. `RefsOK` is the
count, as five finite sets: the start, closers, callers, posters and side tasks.
From it comes what the others need: with a count of zero nobody is left
(`NoRefs`), and whoever is left keeps the slot from being given back
(`CallerKeeps`). `LastOK` says that the last reference is dropped once and that
after it there is one report at a time, whether about to be posted, waiting or
running (`Telling`); so when the slot goes back nothing names it (`NobodyLeft`).
`KernelOK` passes the registration to whoever sets CLOSED. `BusyOK` says that a
BUSY bit is one server of the side, and `OwedOK` that a READY bit without it has
a dispatcher on its way. `HeldOK` counts the queue references and the work; an
event counts as work until its last step (`Finishing`), when its queues are
already released.

For the refinement one more part is inductive on top, `ToldOK`: which sides have
been told at each point of the report. Then every step of a thread is looked at
from one slot. Eight of them are visible and are the step of `Watch` they should
be: an open is `Start` (or nothing, for a descriptor of the loop), a publish
`Notify`, a successful claim `Take`, a call `Begin`, a leave `End`, the first
close `Cancel`, a report `Tell`, a slot given back `Finish`. `Tell` asks that
nothing is in flight, which is `NoRefs` again. All other steps, and the steps of
other slots, change nothing `Watch` sees (`QuietStep`).

`ReaderProofs`, for any number of bytes, any buffer and any number of
notifications under way:

| Theorem | Property |
|---|---|
| NeverSleepsOnInput | ReaderConsistent |
| CancelComesLast | CancelIsTheLastWord |

The invariant ties the four steps of `ntt_reader_start` to what the event under
the reader can look like (`EventOK`, `StartOK`), and the callback to its code
(`CancelOK`).

`SlabProofs`, for any width of an index, any first block and any threads:

| Theorem | Property |
|---|---|
| SlabHoldsItsSlots | SlabConsistent |
| HandlesStayTrue | HandlesNameTheirObject |

`SlotsOK` keeps the path through the free list and the slots on the way to it
disjoint from the live ones; `HandlesOK` adds that no handle is of a later
generation; `BlocksOK` says that the blocks allocated so far hold the slots
published so far and that the last one is in use, which is what makes the test
for a new block right at every boundary. The index arithmetic (`BlockOfFinds`,
`PublishedInBlock`) needs that powers of two grow. The provers know nothing of
`2^n`, so `Slab` assumes `PowersOfTwo` (2^0 = 1 and 2^(n+1) = 2 * 2^n for the
exponents in use), a fact of arithmetic that TLC evaluates. What follows for
every exponent is shown by looking at a smallest exception.

`ContainerProofs` also proves what the array algorithms of both heaps compute,
for arrays of every length over entries any two of which `Less` compares, equal
ones among them (`Ordered`):

| Theorem | Says |
|---|---|
| InsertAdds | push leaves the entries and the new one, and a heap |
| WithoutRootTakes | pop_root leaves the entries without the root, and a heap |
| RootIsLeast | no entry of a heap is smaller than its root |
| HeapifyBuilds | the rebuild leaves the entries it found, and a heap, whatever the array was |
| KeptSelects | compact keeps the entries at the places that stay, each once |

`Rearranges(g, h)` says that some permutation of the positions turns `h` into
`g`, so that no entry is lost or doubled, equal ones included. The algorithms
are recursive functions, so these are inductions over positions, and the
induction theorems of the library cannot be used: they take a predicate. A set
can stand for it: `Least` (every set of numbers has a least element, from the
well-foundedness of `<`) gives `UpTo`, `UpToAll` and `DownToAll`, that a set
which is closed under steps has all the numbers of an interval, and with it that
each recursive function exists and satisfies its equation (`Recursion`). A sift
is then followed with a hole: `HoleMoves` says that moving an entry into the
hole is a permutation, and the invariant of the sift that only the hole may be
out of order, downwards or upwards.

`TimerHeapProofs`, for any timers, deadlines, nesting of callbacks and minimum
capacity:

| Theorem | Property |
|---|---|
| TimersInvariant | the inductive invariant below |
| HeapAlwaysConsistent | HeapConsistent |
| TasksDestroyedOnce | TaskDestroyedOnce |
| TagsCancelTheirOwn | CancelsItsOwn |
| HeapImplementsTimers | ImplementsTimers |

What makes `HeapConsistent` inductive is the history of slots. `EntriesOK` ties
an entry to the tag its timer was given, and `TagsOK` says that no two timers
were given the same version of a slot, and none a version the slot has not
reached; so an entry whose version is the present one is the only such
(`OneLive`) and belongs to the timer in the slot. `SlotsOK` and `FreeOK` go the
other way: an odd version has an entry, an even one is in the free list, once.
`DeadOK` counts tombstones as a finite set of entries, which pops, compactions
and cancels change by the theorems above. `StackOK` says which calls may be
inside which, and `DestroyedOK` that a task is destroyed unless its timer is
armed or a frame of the stack runs it. A step that only drops dead entries
(peek, a tombstone met by a pass, a compaction) is one case (`LosesDead`), and
so are the returns (`Returns`).

For `ImplementsTimers` a push is `Arm`, a cancel `Cancel`, and a pass begins,
fires and ends as in `Timers`; all else is invisible (`HiddenSteps`). That the
root is live and due makes it the timer `Timers` would fire: entries are ordered
by deadline and then by arming, and `RootIsLeast` speaks of all of them
(`RootFirst`). For the same reason nothing due is left when a pass ends.

`TimerServiceProofs`, for any slots, dispatchers, deadlines, batch and bounds:

| Theorem | Property |
|---|---|
| ServiceInvariant | the inductive invariant below |
| ServiceStaysConsistent | ServiceConsistent |
| RefsAlwaysCountHolders | RefsCountHolders |
| TimersAlwaysCovered | TimersCovered |
| TimerfdAlwaysCovers | TimerfdCovers |
| TopAlwaysEarliest | the top of the heap is the earliest registration of all |

`LockOK` and `BatchOK` say what a handler has in its hands at each of its
points. `HoldersOK` counts the references of a queue: the application, its
own reference while it has timers, its tasks, and handlers that acquired it
(`Ticks`). `QueueOK` is what `ntt_queue_sync_timers` relies on from one of its
steps to the next. `GenerationOK` says that nothing registered runs ahead of the
generation of its slot and that all is dead once the slot is given back.
`RegistrationOK` is the hand over between queue and handler: a registration that
stands is in the heap or in the hand of a handler that has not retired it yet,
so a queue that retires it meanwhile cannot lose it. `CoverOK`, on top of these,
says that a queue with timers is woken or registered in time, outside a sync and
in one that has found its registration standing and is about to return, and
`TimerfdOK` that the timerfd fires in time for what `armed` says, unless a
handler is on its way to arm it again. That `armed` is the earliest deadline is
where the order of the heap comes in.

Only model-checked: every liveness property (EveryTaskRuns, LoopReturns,
BarriersRun, WorkersLeave, NotificationServed, CancelFinishes, InputIsRead,
EndIsReported, DueTimersFire) and the liveness half of ImplementsSerialQueue,
since fairness is outside the prover. Every invariant and every other action
property a passing run checks is also a theorem.

## Findings

1. `include/ntt/event.h` says a handler runs "never after ntt_event_cancel has
   returned". A side that was claimed before the cancel is served after it:
   `ntt_event_serve_side` calls the handler before it looks at CLOSED. What does
   hold is what `Watch` says: no side has another turn after the cancel, and no
   handler runs after the cancelled report.
2. `ntt_slab_at` computes the offset of an object as a product of two uint32_t,
   while its block is allocated with a size_t. Blocks beyond 4 GiB (2^26 objects
   of one cache line) have slots that resolve to the storage of others, against
   "Safe for any index the slab has ever handed out" in `slab.h`.
3. `include/ntt/event.h` lets `ntt_event_cancel` be called from any thread. A
   thread that is no worker and holds no queue, and whose cancel drops the last
   reference, pushes the report and then still reads the callback of the combine
   and writes its eventfd (`combine.c:51`, `loop.c:127`). The event's own unit
   of work is all that keeps the loop, and a worker that is already up may have
   run the report and given that unit back: the loop may be freed by then.

Smaller remarks, without a run. `include/ntt/reader.h:28-30` says the code of
on_cancel is "zero for the end of the input and errno otherwise", which the code
does not keep after `ntt_reader_cancel`: start a reader, cancel it before any
input, and on_cancel is told zero while the input is open. `CancelIsTheLastWord`
therefore claims a code only where header and code agree: errno after a failed
read, zero when the reader came to the end of the input by itself. And the read
loop goes on after a cancel from on_data, so on_data may be called again until
the descriptor would block.

## Not modelled

* `signal.c`: process wide signal dispositions, and an eventfd that nothing in
  the library, its tests or its examples reads. The wakeup signal of the workers
  is in `Worker`.
* `ntt_event_teardown`: it would end an event without queues, which only the
  loop opens and never cancels.
* Allocation failure (the code aborts), logging, thread keys.
* Weak memory, a task that calls `ntt_loop_push_barrier` from inside a barrier,
  and a loop started from a thread that has the wakeup signal blocked.
* The width of `now + delay` in `ntt_self_wakeup_after`; the sum that wraps is a
  deadline in the past, which `TimerService` has. A deadline of `UINT64_MAX`,
  which means not armed, is outside its range.
* Lines 416-722 of `loop.c`, which are commented out, and the benchmarks.

## Plan

The safety properties of all modelled components are proved. Worth adding: the
composition of `TimerService` with `TimerHeap` in place of a set of deadlines,
which `HeapImplementsTimers` justifies informally, and a second descriptor in
`Reader`.
