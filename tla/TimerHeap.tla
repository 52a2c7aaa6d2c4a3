------------------------------ MODULE TimerHeap ------------------------------
(***************************************************************************)
(* The timers of one queue (src/src/timer_heap.c): a binary heap of        *)
(* entries on top of a slab of slots, with lazy cancellation. A cancelled  *)
(* timer frees its slot and leaves its entry behind as a tombstone, which  *)
(* the version of the slot tells from a live entry although the slot may   *)
(* already serve another timer.                                            *)
(*                                                                         *)
(* All calls come from the serial context of the queue, but the heap calls *)
(* back: into the task of a timer that fires, and into its destruction,    *)
(* in a pass and in a cancel. The application may arm and cancel timers in *)
(* each of these callbacks; the stack holds the calls that are underway.   *)
(* Versions and sequence numbers stay below the bounds of a run, far from  *)
(* the 32 and 64 bits they have.                                           *)
(***************************************************************************)
EXTENDS Integers, Sequences, FiniteSets

CONSTANTS
    Deadlines,   \* the deadlines timers are armed at, positive
    MaxTimers,   \* bound on the timers armed
    MaxDepth,    \* bound on the nesting of callbacks
    MinCapacity  \* NTT_TIMER_MIN_CAPACITY

ASSUME TimerBounds == /\ Deadlines \subseteq Nat \ {0}
                      /\ MaxTimers \in Nat /\ MaxDepth \in Nat
                      /\ MinCapacity \in Nat \ {0}

VARIABLES
    heap,       \* [a : Seq(Entries), cap : Nat]: the entries and heap_cap
    slots,      \* Seq([task, version]), as long as slot_cnt
    slot_cap,
    free,       \* the free list, its head first
    tombstones,
    seq_next,
    stack,      \* calls underway, the innermost last
    tags,       \* the tag and deadline of each timer, by sequence number
    fired,      \* the timers that have fired, in order
    destroyed   \* how often the task of each timer was destroyed

vars == <<heap, slots, slot_cap, free, tombstones, seq_next, stack, tags, fired,
          destroyed>>

Ids == 0..(MaxTimers - 1)
None == -1  \* NULL task

Entries == [deadline : Deadlines, seq : Ids, index : 1..MaxTimers,
            version : 1..(2 * MaxTimers)]

(* Where a call is when it calls back: a pass between two timers, in the   *)
(* task of one or in its destruction, a cancel in the destruction; "gone"  *)
(* once the heap is released.                                              *)
Frame(at, now, task) == [at |-> at, now |-> now, task |-> task]

TypeOK ==
    /\ heap.a \in Seq(Entries) /\ heap.cap \in Nat
    /\ slots \in Seq([task : Ids \cup {None}, version : 1..(2 * MaxTimers)])
    /\ slot_cap \in Nat
    /\ free \in Seq(1..MaxTimers)
    /\ tombstones \in Nat
    /\ seq_next \in 0..MaxTimers
    /\ stack \in Seq([at : {"pass", "run", "drop", "cancel", "gone"},
                      now : Deadlines \cup {0}, task : Ids \cup {None}])
    /\ Len(tags) = seq_next
    /\ fired \in Seq([deadline : Deadlines, seq : Ids])
    /\ destroyed \in [Ids -> Nat]

Init ==
    /\ heap = [a |-> <<>>, cap |-> 0]
    /\ slots = <<>>
    /\ slot_cap = 0
    /\ free = <<>>
    /\ tombstones = 0
    /\ seq_next = 0
    /\ stack = <<>>
    /\ tags = <<>>
    /\ fired = <<>>
    /\ destroyed = [t \in Ids |-> 0]

-----------------------------------------------------------------------------
(* ntt_timer_heap_less: by deadline, then in the order of arming.          *)
EntryLessUnstable(x, y) == x.deadline < y.deadline  \* mutant
EntryLess(x, y) == \/ x.deadline < y.deadline
                   \/ x.deadline = y.deadline /\ x.seq < y.seq

H == INSTANCE BinaryHeap WITH Less <- EntryLess

(* A live entry: its slot still has the version it was pushed with.        *)
LiveIn(ss, e) == ss[e.index].version = e.version
Live(e) == LiveIn(slots, e)
LivePlaces == {p \in 1..Len(heap.a) : Live(heap.a[p])}

(* The next capacity that holds n: doubled until it does.                  *)
GrowCapacity(cap, n) ==
    LET start == IF cap = 0 THEN MinCapacity ELSE cap
        doubled[k \in 0..n] == IF k = 0 THEN start ELSE 2 * doubled[k - 1]
    IN  doubled[CHOOSE k \in 0..n : /\ doubled[k] >= n
                                    /\ \A j \in 0..(k - 1) : doubled[j] < n]

Reserve(cap, n) == IF n <= cap THEN cap ELSE GrowCapacity(cap, n)

(* ntt_timer_heap_shrink: half, once three quarters are empty.             *)
Shrink(cap, n) == IF cap <= MinCapacity \/ n * 4 > cap THEN cap ELSE cap \div 2

(* ntt_timer_heap_pop_root.                                                *)
PopRoot(h) == [a |-> H!WithoutRoot(h.a),
               cap |-> Shrink(h.cap, Len(h.a) - 1)]

(* ntt_timer_heap_drop_dead_root: how many roots go, and what is left.     *)
Popped(h) == LET after[n \in 0..Len(h.a)] ==
                   IF n = 0 THEN h ELSE PopRoot(after[n - 1])
             IN  after

DeadRoots(h) ==
    CHOOSE n \in 0..Len(h.a) :
        /\ n = Len(h.a) \/ Live(Popped(h)[n].a[1])
        /\ \A m \in 0..(n - 1) : ~Live(Popped(h)[m].a[1])

(* ntt_timer_heap_compact, once tombstones take over half of the heap.     *)
MustCompact == tombstones * 2 > Len(heap.a)

CompactedKeepsDead ==  \* mutant
    [a |-> H!Heapify(heap.a), cap |-> Shrink(heap.cap, Len(heap.a))]
Compacted ==
    LET live == H!Kept(heap.a, LivePlaces)
    IN  [a |-> H!Heapify(live), cap |-> Shrink(heap.cap, Len(live))]

(* ntt_timer_heap_free_slot: vacant versions are even.                     *)
FreedSlot(i) == [slots EXCEPT ![i] = [task |-> None, version |-> @.version + 1]]

(* ntt_timer_heap_alloc_slot: the head of the free list, or a new slot.    *)
AllocatedSlot(i, t) ==
    IF i <= Len(slots)
    THEN [slots EXCEPT ![i] = [task |-> t, version |-> @.version + 1]]
    ELSE Append(slots, [task |-> t, version |-> 1])

Top == stack[Len(stack)]
Return == stack' = SubSeq(stack, 1, Len(stack) - 1)
Continue(at, task) ==
    stack' = [stack EXCEPT ![Len(stack)].at = at, ![Len(stack)].task = task]

(* The application runs: nothing is underway, or a callback.               *)
At == IF stack = <<>> THEN "app" ELSE Top.at
InApplication == At \in {"app", "run", "drop", "cancel"}

-----------------------------------------------------------------------------
(* ntt_timer_heap_push.                                                    *)
Push(d) ==
    /\ InApplication
    /\ seq_next < MaxTimers
    /\ LET i == IF free # <<>> THEN Head(free) ELSE Len(slots) + 1
           ss == AllocatedSlot(i, seq_next)
           e == [deadline |-> d, seq |-> seq_next, index |-> i,
                 version |-> ss[i].version]
       IN  /\ slots' = ss
           /\ free' = IF free # <<>> THEN Tail(free) ELSE free
           /\ slot_cap' = Reserve(slot_cap, i)
           /\ heap' = [a |-> H!Insert(heap.a, e),
                       cap |-> Reserve(heap.cap, Len(heap.a) + 1)]
           /\ tags' = Append(tags, [index |-> i, version |-> e.version,
                                    deadline |-> d])
    /\ seq_next' = seq_next + 1
    /\ UNCHANGED <<tombstones, stack, fired, destroyed>>

(* ntt_timer_heap_peek, which drops the dead roots it meets.               *)
Peek ==
    /\ InApplication
    /\ LET n == DeadRoots(heap)
       IN  /\ n > 0
           /\ heap' = Popped(heap)[n]
           /\ tombstones' = tombstones - n
    /\ UNCHANGED <<slots, slot_cap, free, seq_next, stack, tags, fired, destroyed>>

(* ntt_timer_heap_cancel up to the destruction of the task. The tag of a   *)
(* timer that is gone is ignored.                                          *)
TagLiveByIndex(t) == slots[tags[t + 1].index].task # None  \* mutant
TagLive(t) == slots[tags[t + 1].index].version = tags[t + 1].version

Cancel(t) ==
    /\ InApplication
    /\ Len(stack) < MaxDepth
    /\ t < seq_next
    /\ TagLive(t)
    /\ LET i == tags[t + 1].index
       IN  /\ slots' = FreedSlot(i)
           /\ free' = <<i>> \o free
           /\ destroyed' = [destroyed EXCEPT ![slots[i].task] = @ + 1]
           /\ stack' = Append(stack, Frame("cancel", 0, slots[i].task))
    /\ tombstones' = tombstones + 1
    /\ UNCHANGED <<heap, slot_cap, seq_next, tags, fired>>

(* ... and the reclaim after it.                                           *)
CancelReturns ==
    /\ At = "cancel"
    /\ IF MustCompact
       THEN heap' = Compacted /\ tombstones' = 0
       ELSE UNCHANGED <<heap, tombstones>>
    /\ Return
    /\ UNCHANGED <<slots, slot_cap, free, seq_next, tags, fired, destroyed>>

-----------------------------------------------------------------------------
(* ntt_timer_heap_svc: a pass for the time it is given.                    *)
SvcBegin(now) ==
    /\ stack = <<>>
    /\ stack' = <<Frame("pass", now, None)>>
    /\ UNCHANGED <<heap, slots, slot_cap, free, tombstones, seq_next, tags,
                   fired, destroyed>>

InPass == At = "pass"
RootDue == heap.a # <<>> /\ heap.a[1].deadline <= Top.now

(* The root is popped before anything is known of it.                      *)
SvcDropsTombstone ==
    /\ InPass
    /\ RootDue /\ ~Live(heap.a[1])
    /\ heap' = PopRoot(heap)
    /\ tombstones' = tombstones - 1
    /\ UNCHANGED <<slots, slot_cap, free, seq_next, stack, tags, fired, destroyed>>

(* The slot is freed before the task runs.                                 *)
SvcFires ==
    /\ InPass
    /\ RootDue /\ Live(heap.a[1])
    /\ LET e == heap.a[1]
       IN  /\ slots' = FreedSlot(e.index)
           /\ free' = <<e.index>> \o free
           /\ fired' = Append(fired, [deadline |-> e.deadline, seq |-> e.seq])
           /\ Continue("run", slots[e.index].task)
    /\ heap' = PopRoot(heap)
    /\ UNCHANGED <<slot_cap, tombstones, seq_next, tags, destroyed>>

TaskReturns ==
    /\ At = "run"
    /\ destroyed' = [destroyed EXCEPT ![Top.task] = @ + 1]
    /\ Continue("drop", Top.task)
    /\ UNCHANGED <<heap, slots, slot_cap, free, tombstones, seq_next, tags, fired>>

DropReturns ==
    /\ At = "drop"
    /\ Continue("pass", None)
    /\ UNCHANGED <<heap, slots, slot_cap, free, tombstones, seq_next, tags,
                   fired, destroyed>>

SvcEnds ==
    /\ InPass
    /\ ~RootDue
    /\ Return
    /\ UNCHANGED <<heap, slots, slot_cap, free, tombstones, seq_next, tags,
                   fired, destroyed>>

(* ntt_timer_heap_deinit destroys the tasks of the entries that are live.  *)
RemainingForgotten == {}  \* mutant
Remaining == {slots[heap.a[p].index].task : p \in LivePlaces}

Deinit ==
    /\ stack = <<>>
    /\ destroyed' = [t \in Ids |-> IF t \in Remaining THEN destroyed[t] + 1
                                                      ELSE destroyed[t]]
    /\ heap' = [a |-> <<>>, cap |-> 0]
    /\ slots' = <<>> /\ free' = <<>> /\ slot_cap' = 0 /\ tombstones' = 0
    /\ stack' = <<Frame("gone", 0, None)>>
    /\ UNCHANGED <<seq_next, tags, fired>>

Next ==
    \/ \E d \in Deadlines : Push(d) \/ SvcBegin(d)
    \/ \E t \in Ids : Cancel(t)
    \/ Peek \/ CancelReturns
    \/ SvcDropsTombstone \/ SvcFires \/ TaskReturns \/ DropReturns \/ SvcEnds
    \/ Deinit

Spec == Init /\ [][Next]_vars

-----------------------------------------------------------------------------
(* Whatever the callbacks do between two pops, the array stays a heap in   *)
(* the order deadline, sequence, tombstones included, and fits the memory  *)
(* that growing and shrinking leave.                                       *)
HeapOrdered == /\ H!IsHeap(heap.a)
               /\ Len(heap.a) <= heap.cap
               /\ Len(slots) <= slot_cap

(* The tombstone counter is exact, so it never underflows where the code   *)
(* asserts it positive, and a reclaim leaves no tombstone behind.          *)
TombstonesCounted ==
    tombstones = Cardinality((1..Len(heap.a)) \ LivePlaces)

(* Slots and entries agree: a slot is occupied by the timer of its one     *)
(* live entry, or vacant and on the free list once, however often it was   *)
(* reused while tombstones of earlier timers still point to it.            *)
SlotsMatchEntries ==
    /\ \A p \in LivePlaces : slots[heap.a[p].index].task = heap.a[p].seq
    /\ \A i \in 1..Len(slots) :
          IF slots[i].version % 2 = 1
          THEN Cardinality({p \in LivePlaces : heap.a[p].index = i}) = 1
          ELSE Cardinality({k \in 1..Len(free) : free[k] = i}) = 1
    /\ Len(free) = Cardinality({i \in 1..Len(slots) : slots[i].version % 2 = 0})

(* The representation of the timers of a queue: array, slots, free list    *)
(* and tombstone counter agree whatever calls back into the heap.          *)
HeapConsistent ==
    TypeOK /\ HeapOrdered /\ TombstonesCounted /\ SlotsMatchEntries

(* The task of a timer is destroyed once: not before its timer has fired   *)
(* or was cancelled, and no later than the heap is released.               *)
TaskDestroyedOnce ==
    \A t \in 0..(seq_next - 1) :
        LET waits == \/ \E p \in LivePlaces : heap.a[p].seq = t
                     \/ \E k \in 1..Len(stack) :
                           stack[k].at = "run" /\ stack[k].task = t
        IN  destroyed[t] = IF waits THEN 0 ELSE 1

(* A tag cancels the timer it was returned for and no other, also when its *)
(* slot has been given to another timer since.                             *)
CancelsItsOwn ==
    [][\A t \in Ids : Cancel(t) =>
          /\ \E p \in LivePlaces : heap.a[p].seq = t
          /\ destroyed'[t] = 1]_vars

(* The heap keeps the promise of timers: fired in order, all that are due  *)
(* in a pass and none that is not or was cancelled.                        *)
Abstract == INSTANCE Timers WITH
    armed <- {[deadline |-> heap.a[p].deadline, seq |-> heap.a[p].seq] :
                 p \in LivePlaces},
    count <- seq_next,
    pass <- IF stack # <<>> /\ stack[1].now # 0 THEN stack[1].now ELSE 0

ImplementsTimers == Abstract!Spec
=============================================================================
