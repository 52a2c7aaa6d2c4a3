----------------------------- MODULE LoopProofs -----------------------------
(***************************************************************************)
(* Theorems about Loop, for every number of workers, external threads,     *)
(* queues and tasks and for every drain limit.                             *)
(***************************************************************************)
EXTENDS Loop, FiniteSetTheorems, SequenceTheorems, TLAPS

(* Nobody refers to this queue.                                            *)
Unused(q) == /\ Owners(q) = {} /\ Carriers(q) = {} /\ Drainers(q) = {}
             /\ ~Linked(q)

(* DestroyedUnused without the emptiness of the list, which follows.       *)
DestroyedUnreferenced ==
    \A q \in Queues :
        /\ q \in free \/ (\E t \in Threads : Destroying(t, q)) => Unused(q)
        /\ \A t \in Threads : Destroying(t, q) => q \notin free
        /\ \A t, u \in Threads : Destroying(t, q) /\ Destroying(u, q) => t = u

(* The inductive invariant: types, control, who schedules a queue, what a  *)
(* worker runs, who holds references, and when a queue is destroyed. None  *)
(* of its parts is inductive without the others.                           *)
Inv == /\ TypeOK
       /\ ControlOK
       /\ ScheduledOnce
       /\ RunsTheHead
       /\ RefsCountHolders
       /\ DestroyedUnreferenced

-----------------------------------------------------------------------------

(* Threads are finitely many, so sets of them can be counted.              *)
LEMMA ThreadSetsFinite ==
    ASSUME NEW S \in SUBSET Threads
    PROVE  IsFiniteSet(S) /\ Cardinality(S) \in Nat
<1>1. IsFiniteSet(Workers)
  BY WidthAssumption, FS_Interval DEF Workers
<1>2. IsFiniteSet(Threads)
  BY <1>1, ThreadsAssumption, FS_Union DEF Threads
<1> QED
  BY <1>2, FS_Subset, FS_CardinalityType

(* The holders of a queue can be counted.                                  *)
LEMMA HoldersFinite ==
    ASSUME NEW q
    PROVE  /\ IsFiniteSet(Owners(q)) /\ Cardinality(Owners(q)) \in Nat
           /\ IsFiniteSet(Carriers(q)) /\ Cardinality(Carriers(q)) \in Nat
           /\ IsFiniteSet(Drainers(q)) /\ Cardinality(Drainers(q)) \in Nat
<1>1. /\ Owners(q) \in SUBSET Threads /\ Carriers(q) \in SUBSET Threads
      /\ Drainers(q) \in SUBSET Threads
  BY DEF Owners, Carriers, Drainers
<1> QED
  BY <1>1, ThreadSetsFinite

(* One more member, one more in the count.                                 *)
LEMMA CountAdd ==
    ASSUME NEW S \in SUBSET Threads, NEW t \in Threads, t \notin S
    PROVE  Cardinality(S \cup {t}) = Cardinality(S) + 1
  BY ThreadSetsFinite, FS_AddElement

(* One member less, one less in the count.                                 *)
LEMMA CountRemove ==
    ASSUME NEW S \in SUBSET Threads, NEW t \in S
    PROVE  Cardinality(S \ {t}) = Cardinality(S) - 1
  BY ThreadSetsFinite, FS_RemoveElement

(* A reference that goes from one kind of holder to another leaves the sum *)
(* as it is.                                                               *)
LEMMA CountMove ==
    ASSUME NEW A \in SUBSET Threads, NEW B \in SUBSET Threads, NEW t \in A,
           t \notin B
    PROVE  Cardinality(A \ {t}) + Cardinality(B \cup {t})
              = Cardinality(A) + Cardinality(B)
<1>1. Cardinality(A \ {t}) = Cardinality(A) - 1
  BY CountRemove
<1>2. Cardinality(B \cup {t}) = Cardinality(B) + 1
  BY CountAdd
<1>3. Cardinality(A) \in Nat /\ Cardinality(B) \in Nat
  BY ThreadSetsFinite
<1> QED
  BY <1>1, <1>2, <1>3

(* A counter that is zero has nobody behind it, and one that is one has    *)
(* nobody but the holder in hand.                                          *)
LEMMA CountZero ==
    ASSUME NEW S \in SUBSET Threads
    PROVE  Cardinality(S) = 0 <=> S = {}
  BY ThreadSetsFinite, FS_EmptySet

(* What pushing a queue to the combine does to the links.                  *)
LEMMA LinkAppend ==
    ASSUME NEW s \in Seq(Queues), NEW x \in Queues
    PROVE  /\ \A q : (\E i \in 1..Len(Append(s, x)) : Append(s, x)[i] = q)
                        <=> (\E i \in 1..Len(s) : s[i] = q) \/ q = x
           /\ (\A i, j \in 1..Len(s) : s[i] = s[j] => i = j)
              /\ (\A i \in 1..Len(s) : s[i] # x)
              => \A i, j \in 1..Len(Append(s, x)) :
                    Append(s, x)[i] = Append(s, x)[j] => i = j
<1>1. /\ Len(Append(s, x)) = Len(s) + 1
      /\ \A i \in 1..Len(s) : Append(s, x)[i] = s[i]
      /\ Append(s, x)[Len(s) + 1] = x
      /\ Len(s) \in Nat
  BY AppendProperties, LenProperties
<1>2. \A i \in 1..(Len(s) + 1) : i \in 1..Len(s) \/ i = Len(s) + 1
  BY <1>1
<1>3. Len(s) + 1 \in 1..(Len(s) + 1) /\ \A i \in 1..Len(s) : i \in 1..(Len(s) + 1)
  BY <1>1
<1>4. ASSUME NEW q
      PROVE  (\E i \in 1..Len(Append(s, x)) : Append(s, x)[i] = q)
                <=> (\E i \in 1..Len(s) : s[i] = q) \/ q = x
  BY <1>1, <1>2, <1>3, Zenon
<1>5. ASSUME \A i, j \in 1..Len(s) : s[i] = s[j] => i = j,
             \A i \in 1..Len(s) : s[i] # x,
             NEW i \in 1..Len(Append(s, x)), NEW j \in 1..Len(Append(s, x)),
             Append(s, x)[i] = Append(s, x)[j]
      PROVE  i = j
  BY <1>1, <1>2, <1>5
<1> QED
  BY <1>4, <1>5

(* What taking the first queue out of the combine does to the links.       *)
LEMMA LinkTail ==
    ASSUME NEW s \in Seq(Queues), s # <<>>,
           \A i, j \in 1..Len(s) : s[i] = s[j] => i = j
    PROVE  /\ Head(s) \in Queues /\ Tail(s) \in Seq(Queues)
           /\ \E i \in 1..Len(s) : s[i] = Head(s)
           /\ \A q : (\E i \in 1..Len(Tail(s)) : Tail(s)[i] = q)
                        <=> (\E i \in 1..Len(s) : s[i] = q) /\ q # Head(s)
           /\ \A i, j \in 1..Len(Tail(s)) : Tail(s)[i] = Tail(s)[j] => i = j
<1>1. /\ Head(s) \in Queues /\ Tail(s) \in Seq(Queues)
      /\ Len(Tail(s)) = Len(s) - 1
      /\ \A i \in 1..Len(Tail(s)) : Tail(s)[i] = s[i + 1]
      /\ Len(s) \in Nat \ {0}
  BY HeadTailProperties, EmptySeq
<1>2. Head(s) = s[1]
  OBVIOUS
<1>3. \E i \in 1..Len(s) : s[i] = Head(s)
  BY <1>1, <1>2
<1>4. \A i, j \in 1..Len(Tail(s)) : Tail(s)[i] = Tail(s)[j] => i = j
  <2> SUFFICES ASSUME NEW i \in 1..Len(Tail(s)), NEW j \in 1..Len(Tail(s)),
                      Tail(s)[i] = Tail(s)[j]
               PROVE  i = j
    OBVIOUS
  <2>1. i + 1 \in 1..Len(s) /\ j + 1 \in 1..Len(s) /\ i \in Int /\ j \in Int
    BY <1>1
  <2>2. i + 1 = j + 1
    BY <1>1, <2>1
  <2> QED
    BY <2>1, <2>2
<1>5. ASSUME NEW q
      PROVE  (\E i \in 1..Len(Tail(s)) : Tail(s)[i] = q)
                <=> (\E i \in 1..Len(s) : s[i] = q) /\ q # Head(s)
  <2>1. ASSUME NEW i \in 1..Len(Tail(s)), Tail(s)[i] = q
        PROVE  (\E j \in 1..Len(s) : s[j] = q) /\ q # Head(s)
    <3>1. i + 1 \in 1..Len(s) /\ 1 \in 1..Len(s) /\ i + 1 # 1
      BY <1>1
    <3>2. s[i + 1] = q
      BY <1>1, <2>1
    <3> QED
      BY <1>2, <3>1, <3>2
  <2>2. ASSUME NEW j \in 1..Len(s), s[j] = q, q # Head(s)
        PROVE  \E i \in 1..Len(Tail(s)) : Tail(s)[i] = q
    <3>1. j - 1 \in 1..Len(Tail(s)) /\ (j - 1) + 1 = j
      BY <1>1, <1>2, <2>2
    <3> QED
      BY <1>1, <2>2, <3>1
  <2> QED
    BY <2>1, <2>2
<1> QED
  BY <1>1, <1>3, <1>4, <1>5

(* A queue nobody refers to has no tasks.                                  *)
LEMMA UnusedIsEmpty ==
    ASSUME ControlOK, ScheduledOnce, NEW q \in Queues, Unused(q)
    PROVE  task_list[q] = <<>>
<1>1. ~Linked(q)
  BY DEF Unused
<1>2. ASSUME NEW t \in Threads, Schedules(t, q)
      PROVE  FALSE
  <2>1. t \notin Owners(q) /\ t \notin Carriers(q) /\ t \notin Drainers(q)
    BY DEF Unused
  <2>2. q \notin own[t] /\ ~Carries(t, q) /\ cur[t] # q
    BY <2>1 DEF Owners, Carriers, Drainers
  <2>3. Linking(t, q) => FALSE
    BY <2>2 DEF Linking, Carries, ControlOK, ArgOK, Usable
  <2> QED
    BY <1>2, <2>2, <2>3 DEF Schedules, Serving, Carries
<1> QED
  BY <1>1, <1>2 DEF ScheduledOnce

-----------------------------------------------------------------------------
(* A thread is a worker or an external thread, never both.                 *)
LEMMA ThreadKinds ==
    /\ \A w \in Workers : w \in Threads /\ w \notin Externals
    /\ \A e \in Externals : e \in Threads /\ e \notin Workers
    /\ \A t \in Threads : t \in Workers \/ t \in Externals
    /\ Workers # {} /\ 1 \in Workers
  BY WidthAssumption, ThreadsAssumption DEF Threads, Workers

(* Where a call returns to, by kind of thread.                             *)
LEMMA Returns ==
    ASSUME NEW t \in Threads
    PROVE  /\ t \in Externals => Return(t) = "idle"
           /\ t \in Workers /\ cur[t] = NoQueue => Return(t) = "take"
           /\ t \in Workers /\ cur[t] # NoQueue =>
                 Return(t) = IF prev[t] = NoTask THEN "run" ELSE "drop"
           /\ Return(t) \in {"idle", "take", "run", "drop"} /\ Return(t) \in PCs
  BY ThreadKinds DEF Return, PCs

(* ntt_queue_acquire adds one to one count.                                *)
LEMMA AcquiredRefs ==
    ASSUME refs \in [Queues -> Int], NEW q \in Queues
    PROVE  /\ Acquired(q) \in [Queues -> Int]
           /\ \A p \in Queues :
                 Acquired(q)[p] = refs[p] + (IF p = q THEN 1 ELSE 0)
  BY DEF Acquired

(* A step that moves threads only between points at which they neither     *)
(* carry, link, serve nor destroy a queue, and leaves the queues alone.    *)
Quiet ==
    /\ UNCHANGED <<task_list, refs, free, combine, arg, cur, task, own>>
    /\ \A t \in Threads : pc'[t] # pc[t] =>
          {pc[t], pc'[t]} \cap {"acquire", "link", "svc", "release", "give"} = {}

(* A quiet step keeps everything the invariant says about queues.          *)
LEMMA QuietStep ==
    ASSUME ScheduledOnce, RunsTheHead, RefsCountHolders, DestroyedUnreferenced,
           Quiet
    PROVE  /\ ScheduledOnce' /\ RunsTheHead' /\ RefsCountHolders'
           /\ DestroyedUnreferenced'
<1>1. ASSUME NEW q \in Queues, NEW t \in Threads
      PROVE  /\ Schedules(t, q)' <=> Schedules(t, q)
             /\ Linking(t, q)' <=> Linking(t, q)
             /\ t \in Workers => (Serving(t, q)' <=> Serving(t, q))
             /\ Carries(t, q)' <=> Carries(t, q)
             /\ Destroying(t, q)' <=> Destroying(t, q)
  BY <1>1 DEF Quiet, Schedules, Linking, Serving, Carries, Destroying
<1>2. ASSUME NEW q \in Queues
      PROVE  /\ Owners(q)' = Owners(q)
             /\ Carriers(q)' = Carriers(q)
             /\ Drainers(q)' = Drainers(q)
             /\ Linked(q)' <=> Linked(q)
             /\ Unused(q)' <=> Unused(q)
  BY <1>1 DEF Owners, Carriers, Drainers, Linked, Unused, Quiet
<1>3. ScheduledOnce'
  BY <1>1, <1>2, ThreadKinds DEF ScheduledOnce, Quiet
<1>4. RunsTheHead'
  BY DEF RunsTheHead, Quiet
<1>5. RefsCountHolders'
  BY <1>2 DEF RefsCountHolders, Quiet
<1>6. DestroyedUnreferenced'
  BY <1>1, <1>2 DEF DestroyedUnreferenced, Quiet
<1> QED
  BY <1>3, <1>4, <1>5, <1>6

(* The control part of the invariant after a step of thread t, from what   *)
(* the step leaves alone in the other threads.                             *)
LEMMA OthersControlled ==
    ASSUME ControlOK, NEW t \in Threads,
           \A u \in Threads \ {t} :
              /\ pc'[u] = pc[u] /\ cur'[u] = cur[u] /\ arg'[u] = arg[u]
              /\ own'[u] = own[u]
              /\ u \in Workers => task'[u] = task[u] /\ prev'[u] = prev[u],
           ArgOK(t)', t \in Externals => ExternalOK(t)', t \in Workers => WorkerOK(t)'
    PROVE  ControlOK'
<1>1. ASSUME NEW u \in Threads PROVE ArgOK(u)'
  BY <1>1 DEF ControlOK, ArgOK, Usable
<1>2. ASSUME NEW e \in Externals PROVE ExternalOK(e)'
  BY <1>2, ThreadKinds DEF ControlOK, ExternalOK
<1>3. ASSUME NEW w \in Workers PROVE WorkerOK(w)'
  BY <1>3, ThreadKinds DEF ControlOK, WorkerOK
<1> QED
  BY <1>1, <1>2, <1>3 DEF ControlOK

(* A thread that moves between points at which it has no queue in hand     *)
(* keeps all of the invariant but the types of what else it writes.        *)
LEMMA MoveStep ==
    ASSUME Inv, NEW t \in Threads,
           NEW pt \in PCs \ {"acquire", "link", "svc", "release", "give"},
           pc[t] \notin {"acquire", "link", "svc", "release", "give"},
           pc' = [pc EXCEPT ![t] = pt],
           UNCHANGED <<task_list, refs, free, combine, arg, cur, task, prev, own>>,
           t \in Externals => pt \in {"idle", "wake", "nowake", "leave", "copy", "stop"},
           t \in Workers =>
              /\ pt # "idle"
              /\ pt = "run" => cur[t] # NoQueue /\ prev[t] = NoTask
              /\ pt = "drop" => cur[t] # NoQueue /\ prev[t] # NoTask
              /\ pt \in {"take", "wait", "ready", "left"} => cur[t] = NoQueue
    PROVE  /\ pc' \in [Threads -> PCs]
           /\ ControlOK' /\ ScheduledOnce' /\ RunsTheHead' /\ RefsCountHolders'
           /\ DestroyedUnreferenced'
<1> USE ThreadKinds
<1>1. /\ pc \in [Threads -> PCs] /\ ControlOK /\ cur[t] \in Queues \cup {NoQueue}
      /\ t \in Workers => prev[t] \in Tasks \cup {NoTask}
  BY DEF Inv, TypeOK
<1>2. pc' \in [Threads -> PCs]
  BY <1>1
<1>3. pc'[t] = pt /\ \A u \in Threads \ {t} : pc'[u] = pc[u]
  BY <1>1
<1>4. ControlOK'
  <2>1. ArgOK(t)'
    BY <1>1, <1>3 DEF ControlOK, ArgOK
  <2>2. t \in Externals => ExternalOK(t)'
    BY <1>1, <1>3 DEF ControlOK, ExternalOK
  <2>3. t \in Workers => WorkerOK(t)'
    <3> SUFFICES ASSUME t \in Workers PROVE WorkerOK(t)'
      OBVIOUS
    <3>1. WorkerOK(t)
      BY <1>1 DEF ControlOK
    <3> QED
      BY <1>1, <1>3, <3>1, QueuesAssumption DEF WorkerOK
  <2> QED
    BY <1>1, <1>3, <2>1, <2>2, <2>3, OthersControlled
<1>5. Quiet
  BY <1>3 DEF Quiet
<1> QED
  BY <1>2, <1>4, <1>5, QuietStep DEF Inv

(* The end of ntt_combine_push.                                            *)
LEMMA CombineWakeupStep ==
    ASSUME Inv, NEW t \in Threads, CombineWakeup(t)
    PROVE  Inv'
<1>1. /\ pc[t] \in {"wake", "nowake"} /\ pc' = [pc EXCEPT ![t] = Return(t)]
      /\ eventfd' = eventfd + 1 \/ eventfd' = eventfd
      /\ UNCHANGED <<task_list, refs, free, combine, arg, cur, task, prev, own>>
  BY DEF CombineWakeup, qvars, wvars, avars
<1>2. /\ pc' \in [Threads -> PCs]
      /\ ControlOK' /\ ScheduledOnce' /\ RunsTheHead' /\ RefsCountHolders'
      /\ DestroyedUnreferenced'
  BY <1>1, MoveStep, Returns, ThreadKinds
<1>3. TypeOK'
  <2>1. eventfd' \in Nat
    BY <1>1 DEF Inv, TypeOK
  <2> QED
    BY <1>2, <2>1 DEF Inv, TypeOK, CombineWakeup, qvars, wvars, svars, avars
<1> QED
  BY <1>2, <1>3 DEF Inv

(* The fetch_sub of ntt_loop_work_leave.                                   *)
LEMMA WorkLeaveStep ==
    ASSUME Inv, NEW t \in Threads, WorkLeave(t)
    PROVE  Inv'
<1>1. /\ pc[t] = "leave" /\ work_cnt' = work_cnt - 1
      /\ pc' = [pc EXCEPT ![t] = Return(t)] \/ pc' = [pc EXCEPT ![t] = "copy"]
      /\ UNCHANGED <<task_list, refs, free, combine, arg, cur, task, prev, own>>
  BY DEF WorkLeave, qvars, wvars, avars
<1>2. /\ pc' \in [Threads -> PCs]
      /\ ControlOK' /\ ScheduledOnce' /\ RunsTheHead' /\ RefsCountHolders'
      /\ DestroyedUnreferenced'
  <2>1. CASE pc' = [pc EXCEPT ![t] = Return(t)]
    BY <1>1, <2>1, MoveStep, Returns, ThreadKinds
  <2>2. CASE pc' = [pc EXCEPT ![t] = "copy"]
    <3>1. "copy" \in PCs
      BY DEF PCs
    <3> QED
      BY <1>1, <2>2, <3>1, MoveStep
  <2> QED
    BY <1>1, <2>1, <2>2
<1>3. TypeOK'
  <2>1. work_cnt' \in Int
    BY <1>1 DEF Inv, TypeOK
  <2> QED
    BY <1>2, <2>1 DEF Inv, TypeOK, WorkLeave, qvars, wvars, svars, avars
<1> QED
  BY <1>2, <1>3 DEF Inv

(* ntt_loop_work_leave copies the worker pointers.                         *)
LEMMA CopyWorkersStep ==
    ASSUME Inv, NEW t \in Threads, CopyWorkers(t)
    PROVE  Inv'
<1>1. /\ pc[t] = "copy" /\ pc' = [pc EXCEPT ![t] = "stop"] /\ "stop" \in PCs
      /\ UNCHANGED <<task_list, refs, free, combine, arg, cur, task, prev, own>>
  BY DEF CopyWorkers, PCs, qvars, wvars, avars
<1>2. /\ pc' \in [Threads -> PCs]
      /\ ControlOK' /\ ScheduledOnce' /\ RunsTheHead' /\ RefsCountHolders'
      /\ DestroyedUnreferenced'
  BY <1>1, MoveStep
<1>3. TypeOK'
  <2>1. stop_idx' \in [Threads -> Workers]
    BY ThreadKinds DEF Inv, TypeOK, CopyWorkers
  <2> QED
    BY <1>2, <2>1 DEF Inv, TypeOK, CopyWorkers, qvars, wvars, avars
<1> QED
  BY <1>2, <1>3 DEF Inv

(* ntt_loop_work_leave releases one worker.                                *)
LEMMA StopWorkerStep ==
    ASSUME Inv, NEW t \in Threads, StopWorker(t)
    PROVE  Inv'
<1>1. /\ pc[t] = "stop"
      /\ pc' = pc \/ pc' = [pc EXCEPT ![t] = Return(t)]
      /\ UNCHANGED <<task_list, refs, free, combine, arg, cur, task, prev, own>>
  BY DEF StopWorker, qvars, wvars, avars
<1>2. /\ pc' \in [Threads -> PCs]
      /\ ControlOK' /\ ScheduledOnce' /\ RunsTheHead' /\ RefsCountHolders'
      /\ DestroyedUnreferenced'
  <2>1. CASE pc' = [pc EXCEPT ![t] = Return(t)]
    BY <1>1, <2>1, MoveStep, Returns, ThreadKinds
  <2>2. CASE pc' = pc
    <3>1. pc' = [pc EXCEPT ![t] = "stop"] /\ "stop" \in PCs
      BY <1>1, <2>2 DEF Inv, TypeOK, PCs
    <3> QED
      BY <1>1, <3>1, MoveStep
  <2> QED
    BY <1>1, <2>1, <2>2
<1>3. stop_idx' \in [Threads -> Workers]
  <2>1. stop_idx[t] \in Workers /\ stop_idx \in [Threads -> Workers]
    BY DEF Inv, TypeOK
  <2>2. stop_idx[t] < Width => stop_idx[t] + 1 \in Workers
    BY <2>1, WidthAssumption DEF Workers
  <2>3. \/ stop_idx' = stop_idx
        \/ stop_idx[t] < Width /\ stop_idx' = [stop_idx EXCEPT ![t] = @ + 1]
    BY DEF StopWorker
  <2> QED
    BY <2>1, <2>2, <2>3
<1>4. TypeOK'
  <2>1. stopping' \in SUBSET Workers
    BY DEF Inv, TypeOK, StopWorker
  <2> QED
    BY <1>2, <1>3, <2>1 DEF Inv, TypeOK, StopWorker, qvars, wvars, avars
<1> QED
  BY <1>2, <1>4 DEF Inv

(* epoll_pwait and the eventfd.                                            *)
LEMMA SleepStep ==
    ASSUME Inv, NEW w \in Workers,
           WaitReturns(w) \/ ReadEventfd(w) \/ WaitInterrupted(w)
    PROVE  Inv'
<1>1. /\ pc[w] \in {"wait", "ready"} /\ w \in Threads
      /\ \E pt \in {"ready", "left", "take"} : pc' = [pc EXCEPT ![w] = pt]
      /\ UNCHANGED <<task_list, refs, free, combine, arg, cur, task, prev, own>>
      /\ eventfd' = eventfd \/ eventfd' = EventfdRead
  BY ThreadKinds DEF WaitReturns, ReadEventfd, WaitInterrupted, qvars, wvars, avars
<1>2. cur[w] = NoQueue
  BY <1>1 DEF Inv, ControlOK, WorkerOK
<1>3. {"ready", "left", "take"} \subseteq PCs
  BY DEF PCs
<1>4. /\ pc' \in [Threads -> PCs]
      /\ ControlOK' /\ ScheduledOnce' /\ RunsTheHead' /\ RefsCountHolders'
      /\ DestroyedUnreferenced'
  BY <1>1, <1>2, <1>3, MoveStep, ThreadKinds
<1>5. TypeOK'
  <2>1. eventfd' \in Nat
    BY <1>1 DEF Inv, TypeOK, EventfdRead
  <2> QED
    BY <1>4, <2>1 DEF Inv, TypeOK, WaitReturns, ReadEventfd, WaitInterrupted,
       qvars, wvars, svars, avars
<1> QED
  BY <1>4, <1>5 DEF Inv

(* The end of ntt_loop_run, and no step at all.                            *)
LEMMA EndStep ==
    ASSUME Inv, DestroyLoop \/ Terminated \/ UNCHANGED vars
    PROVE  Inv'
<1>0. UNCHANGED <<qvars, combine, eventfd, work_cnt, pc, arg, wvars, svars, avars,
                 dropped>> /\ freed' \in BOOLEAN
  BY DEF Inv, TypeOK, DestroyLoop, Terminated, vars
<1> USE DEF Inv, qvars, wvars, svars, avars
<1>1. TypeOK'
  BY <1>0 DEF TypeOK
<1>2. ControlOK'
  BY <1>0 DEF ControlOK, ArgOK, Usable, ExternalOK, WorkerOK
<1>3. Quiet
  BY <1>0 DEF Quiet
<1> QED
  BY <1>1, <1>2, <1>3, QuietStep

-----------------------------------------------------------------------------
(* What a push does to the task list of a queue.                           *)
LEMMA PushedList ==
    ASSUME NEW s \in Seq(Tasks), NEW k \in Tasks
    PROVE  /\ Pushed(s, k) \in Seq(Tasks) /\ Pushed(s, k) # <<>>
           /\ s # <<>> => Head(Pushed(s, k)) = Head(s)
  BY AppendProperties, EmptySeq DEF Pushed

(* What ntt_task_list_next leaves of a list that has a head.               *)
LEMMA PoppedList ==
    ASSUME NEW s \in Seq(Tasks), s # <<>>
    PROVE  /\ Popped(s) \in Seq(Tasks)
           /\ Front(Popped(s)) = NoTask <=> Popped(s) = <<>>
           /\ Popped(s) # <<>> => Front(Popped(s)) = Head(Popped(s))
           /\ Front(Popped(s)) \in Tasks \cup {NoTask}
           /\ Front(s) \in Tasks /\ Front(s) = Head(s)
<1>1. Popped(s) \in Seq(Tasks)
  BY HeadTailProperties DEF Popped
<1> QED
  BY <1>1, TasksAssumption, HeadTailProperties DEF Front

(* ntt_queue_push_task: the pusher that finds the list empty becomes the   *)
(* one place that schedules the queue.                                     *)
LEMMA PushTaskStep ==
    ASSUME Inv, NEW t \in Threads, NEW q \in Queues, NEW k \in Tasks,
           PushTask(t, q, k)
    PROVE  Inv'
<1> USE ThreadKinds DEF Inv, TypeOK, PushTask, wvars, svars
<1>1. /\ task_list' \in [Queues -> Seq(Tasks)] /\ task_list'[q] # <<>>
      /\ task_list[q] # <<>> => Head(task_list'[q]) = Head(task_list[q])
      /\ \A p \in Queues : p # q => task_list'[p] = task_list[p]
  BY PushedList
<1>2. TypeOK'
  <2>1. pc' \in [Threads -> PCs]
    BY DEF PCs
  <2>2. arg' \in [Threads -> Queues \cup {NoQueue}]
    <3>1. /\ arg \in [Threads -> Queues \cup {NoQueue}]
          /\ arg' = arg \/ arg' = [arg EXCEPT ![t] = q]
      OBVIOUS
    <3> HIDE DEF Inv, TypeOK, PushTask
    <3> QED
      BY <3>1
  <2>3. fresh' \in SUBSET Tasks
    OBVIOUS
  <2> QED
    BY <1>1, <2>1, <2>2, <2>3
<1>3. q \in Usable(t)
  OBVIOUS
<1>4. ControlOK'
  <2>0. ControlOK /\ UNCHANGED <<cur, task, prev, own>>
    OBVIOUS
  <2>1. /\ pc[t] \in {"idle", "run", "drop"}
        /\ \/ task_list[q] = <<>> /\ pc'[t] = "acquire" /\ arg'[t] = q
           \/ pc'[t] = pc[t] /\ arg'[t] = arg[t]
    BY DEF InApplication, InCallback, WasEmpty
  <2>2. \A u \in Threads \ {t} : pc'[u] = pc[u] /\ arg'[u] = arg[u]
    OBVIOUS
  <2> HIDE DEF Inv, TypeOK, PushTask
  <2>3. ArgOK(t)'
    BY <1>3, <2>0, <2>1 DEF ControlOK, ArgOK, Usable
  <2>4. t \in Externals => ExternalOK(t)'
    BY <2>0, <2>1 DEF ControlOK, ExternalOK
  <2>5. t \in Workers => WorkerOK(t)'
    BY <2>0, <2>1 DEF ControlOK, WorkerOK
  <2> QED
    BY <2>0, <2>2, <2>3, <2>4, <2>5, OthersControlled
<1>5. ASSUME NEW u \in Threads, NEW p \in Queues
      PROVE  /\ Linking(u, p)' <=> \/ Linking(u, p)
                                   \/ task_list[q] = <<>> /\ u = t /\ p = q
             /\ u \in Workers => (Serving(u, p)' <=> Serving(u, p))
             /\ Carries(u, p)' <=> Carries(u, p)
             /\ Destroying(u, p)' <=> Destroying(u, p)
  <2>1. pc[t] \in {"idle", "run", "drop"} /\ arg[t] \notin Queues
    BY DEF InApplication, InCallback, ControlOK, ArgOK
  <2>2. CASE task_list[q] = <<>>
    <3>1. /\ pc' = [pc EXCEPT ![t] = "acquire"] /\ arg' = [arg EXCEPT ![t] = q]
          /\ UNCHANGED <<cur, task>>
      BY <2>2 DEF WasEmpty
    <3> HIDE DEF PushTask
    <3> QED
      BY <2>1, <2>2, <3>1 DEF Linking, Serving, Carries, Destroying
  <2>3. CASE task_list[q] # <<>>
    BY <2>3 DEF Linking, Serving, Carries, Destroying, WasEmpty
  <2> QED
    BY <2>2, <2>3
<1>6. ASSUME NEW p \in Queues
      PROVE  /\ Owners(p)' = Owners(p) /\ Carriers(p)' = Carriers(p)
             /\ Drainers(p)' = Drainers(p)
             /\ Linked(p)' <=> Linked(p)
             /\ Unused(p)' <=> Unused(p)
  BY <1>5 DEF Owners, Carriers, Drainers, Linked, Unused
<1>7. ScheduledOnce'
  <2>0. ScheduledOnce /\ combine' = combine
    OBVIOUS
  <2>1. ASSUME NEW u \in Threads, NEW p \in Queues
        PROVE  Schedules(u, p)' <=> \/ Schedules(u, p)
                                    \/ task_list[q] = <<>> /\ u = t /\ p = q
    BY <1>5 DEF Schedules
  <2>2. task_list[q] = <<>> => ~Linked(q) /\ \A u \in Threads : ~Schedules(u, q)
    BY DEF ScheduledOnce
  <2>3. task_list[q] # <<>> => Linked(q) \/ \E u \in Threads : Schedules(u, q)
    BY DEF ScheduledOnce
  <2> HIDE DEF Inv, TypeOK, PushTask
  <2>4. ASSUME NEW p \in Queues
        PROVE  /\ task_list'[p] # <<>> <=>
                    Linked(p)' \/ \E u \in Threads : Schedules(u, p)'
               /\ \A u \in Threads : Schedules(u, p)' => ~Linked(p)'
               /\ \A u, v \in Threads : Schedules(u, p)' /\ Schedules(v, p)' => u = v
    <3>1. CASE p = q
      BY <1>1, <1>6, <2>0, <2>1, <2>2, <2>3, <3>1 DEF ScheduledOnce
    <3>2. CASE p # q
      BY <1>1, <1>6, <2>0, <2>1, <3>2 DEF ScheduledOnce
    <3> QED
      BY <3>1, <3>2
  <2>5. ASSUME NEW p \in Queues, NEW w \in Workers, Linking(w, p)', Serving(w, p)'
        PROVE  FALSE
    BY <1>5, <2>0, <2>2, <2>5 DEF Schedules, ScheduledOnce
  <2>6. \A i, j \in 1..Len(combine') : combine'[i] = combine'[j] => i = j
    BY <2>0 DEF ScheduledOnce
  <2> QED
    BY <2>4, <2>5, <2>6 DEF ScheduledOnce
<1>8. RunsTheHead'
  <2> SUFFICES ASSUME NEW w \in Workers, cur[w] # NoQueue, task[w] # NoTask
               PROVE  /\ task_list'[cur[w]] # <<>>
                      /\ task[w] = Head(task_list'[cur[w]])
    BY DEF RunsTheHead
  <2>1. cur[w] \in Queues
    OBVIOUS
  <2>2. task_list[cur[w]] # <<>> /\ task[w] = Head(task_list[cur[w]])
    BY DEF RunsTheHead
  <2> HIDE DEF Inv, TypeOK, PushTask
  <2> QED
    BY <1>1, <2>1, <2>2
<1>9. RefsCountHolders'
  BY <1>6 DEF RefsCountHolders
<1>10. DestroyedUnreferenced'
  <2>1. DestroyedUnreferenced /\ free' = free
    OBVIOUS
  <2> HIDE DEF Inv, TypeOK, PushTask
  <2> QED
    BY <1>5, <1>6, <2>1 DEF DestroyedUnreferenced
<1> QED
  BY <1>2, <1>4, <1>7, <1>8, <1>9, <1>10

(* The pusher takes the reference that will travel with the link.          *)
LEMMA AcquireForLinkStep ==
    ASSUME Inv, NEW t \in Threads, AcquireForLink(t)
    PROVE  Inv'
<1> USE ThreadKinds DEF Inv, TypeOK, AcquireForLink, wvars, svars, avars
<1>0. PICK q \in Queues : q = arg[t]
  BY DEF ControlOK, ArgOK
<1>1. q = arg[t] /\ q \in Usable(t) /\ pc[t] = "acquire"
  BY <1>0 DEF ControlOK, ArgOK
<1>2. TypeOK'
  <2>1. refs' \in [Queues -> Int]
    BY <1>1, AcquiredRefs
  <2>2. pc' \in [Threads -> PCs]
    BY DEF PCs
  <2> QED
    BY <2>1, <2>2
<1>3. ControlOK'
  <2>1. ASSUME NEW u \in Threads PROVE ArgOK(u)'
    BY DEF ControlOK, ArgOK, Usable
  <2>2. ASSUME NEW e \in Externals PROVE ExternalOK(e)'
    BY DEF ControlOK, ExternalOK
  <2>3. ASSUME NEW w \in Workers PROVE WorkerOK(w)'
    BY DEF ControlOK, WorkerOK
  <2> QED
    BY <2>1, <2>2, <2>3 DEF ControlOK
<1>4. ASSUME NEW u \in Threads, NEW p \in Queues
      PROVE  /\ Linking(u, p)' <=> Linking(u, p)
             /\ u \in Workers => (Serving(u, p)' <=> Serving(u, p))
             /\ Carries(u, p)' <=> Carries(u, p) \/ (u = t /\ p = q)
             /\ Destroying(u, p)' <=> Destroying(u, p)
  BY <1>1 DEF Linking, Serving, Carries, Destroying
<1>5. ~Carries(t, q)
  BY <1>1 DEF Carries
<1>6. ASSUME NEW p \in Queues
      PROVE  /\ Owners(p)' = Owners(p)
             /\ Carriers(p)' = IF p = q THEN Carriers(p) \cup {t} ELSE Carriers(p)
             /\ Drainers(p)' = Drainers(p)
             /\ Linked(p)' <=> Linked(p)
  <2>1. /\ Owners(p)' = Owners(p) /\ Drainers(p)' = Drainers(p)
        /\ Linked(p)' <=> Linked(p)
    BY DEF Owners, Drainers, Linked
  <2>2. Carriers(p)' = IF p = q THEN Carriers(p) \cup {t} ELSE Carriers(p)
    <3> HIDE DEF Inv, TypeOK, AcquireForLink
    <3> QED
      BY <1>4 DEF Carriers
  <2> QED
    BY <2>1, <2>2
<1>7. ScheduledOnce'
  <2>1. ASSUME NEW u \in Threads, NEW p \in Queues
        PROVE  Schedules(u, p)' <=> Schedules(u, p)
    BY <1>4 DEF Schedules
  <2> QED
    BY <1>4, <1>6, <2>1 DEF ScheduledOnce
<1>8. RunsTheHead'
  BY DEF RunsTheHead
<1>9. RefsCountHolders'
  <2> SUFFICES ASSUME NEW p \in Queues
               PROVE  refs'[p] = Cardinality(Owners(p)') + Cardinality(Carriers(p)')
                                   + Cardinality(Drainers(p)') + (IF Linked(p)' THEN 1 ELSE 0)
    BY DEF RefsCountHolders
  <2>1. Cardinality(Carriers(p)') = Cardinality(Carriers(p)) + (IF p = q THEN 1 ELSE 0)
    <3>1. Carriers(p) \in SUBSET Threads /\ (p = q => t \notin Carriers(p))
      BY <1>5 DEF Carriers
    <3>2. CASE p = q
      BY <1>6, <3>1, <3>2, CountAdd
    <3>3. CASE p # q
      <4>1. Carriers(p)' = Carriers(p)
        BY <1>6, <3>3
      <4> QED
        BY <3>3, <4>1, HoldersFinite
    <3> QED
      BY <3>2, <3>3
  <2>2. refs'[p] = refs[p] + (IF p = q THEN 1 ELSE 0)
    BY <1>1, AcquiredRefs
  <2>3. refs[p] = Cardinality(Owners(p)) + Cardinality(Carriers(p)) + Cardinality(Drainers(p)) + (IF Linked(p) THEN 1 ELSE 0)
    BY DEF RefsCountHolders
  <2> HIDE DEF Inv, TypeOK, AcquireForLink
  <2> QED
    BY <1>6, <2>1, <2>2, <2>3, HoldersFinite
<1>10. DestroyedUnreferenced'
  <2>1. t \in Owners(q) \/ t \in Drainers(q)
    BY <1>1 DEF Owners, Drainers, Usable
  <2>2. ASSUME NEW p \in Queues PROVE Unused(p) => p # q /\ Unused(p)'
    BY <1>6, <2>1 DEF Unused
  <2> QED
    BY <1>4, <2>2 DEF DestroyedUnreferenced
<1> QED
  BY <1>2, <1>3, <1>7, <1>8, <1>9, <1>10

(* ntt_combine_push: the reference moves from the pusher to the link.      *)
LEMMA CombinePushStep ==
    ASSUME Inv, NEW t \in Threads, CombinePush(t)
    PROVE  Inv'
<1> USE ThreadKinds DEF Inv, TypeOK, CombinePush, qvars, wvars, svars, avars
<1>1. PICK q \in Queues : q = arg[t] /\ pc[t] = "link"
  BY DEF ControlOK, ArgOK
<1>0. /\ ScheduledOnce /\ UNCHANGED <<refs, task_list>>
      /\ combine \in Seq(Queues) /\ combine' = Append(combine, q)
  BY <1>1
<1>2. TypeOK'
  <2>1. combine' \in Seq(Queues)
    BY <1>1, AppendProperties
  <2>2. pc' \in [Threads -> PCs]
    BY DEF PCs
  <2>3. arg' \in [Threads -> Queues \cup {NoQueue}]
    OBVIOUS
  <2> QED
    BY <2>1, <2>2, <2>3
<1>3. ControlOK'
  <2>1. ASSUME NEW u \in Threads PROVE ArgOK(u)'
    BY QueuesAssumption DEF ControlOK, ArgOK, Usable
  <2>2. ASSUME NEW e \in Externals PROVE ExternalOK(e)'
    BY DEF ControlOK, ExternalOK
  <2>3. ASSUME NEW w \in Workers PROVE WorkerOK(w)'
    BY DEF ControlOK, WorkerOK
  <2> QED
    BY <2>1, <2>2, <2>3 DEF ControlOK
<1>4. Linking(t, q) /\ Schedules(t, q) /\ ~Linked(q)
  <2>1. Linking(t, q) /\ Schedules(t, q)
    BY <1>1 DEF Linking, Schedules
  <2> QED
    BY <1>1, <2>1 DEF ScheduledOnce
<1>5. ASSUME NEW u \in Threads, NEW p \in Queues
      PROVE  /\ Linking(u, p)' <=> Linking(u, p) /\ ~(u = t /\ p = q)
             /\ u \in Workers => (Serving(u, p)' <=> Serving(u, p))
             /\ Carries(u, p)' <=> Carries(u, p) /\ ~(u = t /\ p = q)
             /\ Destroying(u, p)' <=> Destroying(u, p)
  BY <1>1, <1>4, QueuesAssumption DEF Linking, Serving, Carries, Destroying
<1>6. ASSUME NEW p \in Queues
      PROVE  /\ Owners(p)' = Owners(p)
             /\ Carriers(p)' = IF p = q THEN Carriers(p) \ {t} ELSE Carriers(p)
             /\ Drainers(p)' = Drainers(p)
  <2>1. Owners(p)' = Owners(p) /\ Drainers(p)' = Drainers(p)
    BY DEF Owners, Drainers
  <2> HIDE DEF Inv, TypeOK, CombinePush
  <2> QED
    BY <1>5, <2>1 DEF Carriers
<1>7. ASSUME NEW p \in Queues
      PROVE  Linked(p)' <=> Linked(p) \/ p = q
  <2> HIDE DEF Inv, TypeOK, CombinePush
  <2> QED
    BY <1>0, LinkAppend DEF Linked
<1>8. ScheduledOnce'
  <2>1. ASSUME NEW u \in Threads, NEW p \in Queues
        PROVE  /\ p # q => (Schedules(u, p)' <=> Schedules(u, p))
               /\ ~Schedules(u, q)'
    <3>1. u \in Workers => ~Serving(u, q)
      BY <1>1, <1>4 DEF ScheduledOnce, Schedules
    <3>2. Linking(u, q) => u = t
      BY <1>1, <1>4 DEF ScheduledOnce, Schedules
    <3> QED
      BY <1>1, <1>5, <3>1, <3>2 DEF Schedules
  <2>2. task_list[q] # <<>>
    BY <1>1, <1>4 DEF ScheduledOnce
  <2> HIDE DEF Inv, TypeOK, CombinePush
  <2>4. ASSUME NEW p \in Queues
        PROVE  /\ task_list'[p] # <<>> <=>
                    Linked(p)' \/ \E u \in Threads : Schedules(u, p)'
               /\ \A u \in Threads : Schedules(u, p)' => ~Linked(p)'
               /\ \A u, v \in Threads : Schedules(u, p)' /\ Schedules(v, p)' => u = v
    <3>1. CASE p = q
      BY <1>0, <1>7, <2>1, <2>2, <3>1 DEF ScheduledOnce
    <3>2. CASE p # q
      BY <1>0, <1>7, <2>1, <3>2 DEF ScheduledOnce
    <3> QED
      BY <3>1, <3>2
  <2>5. ASSUME NEW p \in Queues, NEW w \in Workers, Linking(w, p)', Serving(w, p)'
        PROVE  FALSE
    BY <1>0, <1>5, <2>5 DEF ScheduledOnce
  <2>6. \A i, j \in 1..Len(combine') : combine'[i] = combine'[j] => i = j
    <3>1. \A i \in 1..Len(combine) : combine[i] # q
      BY <1>4 DEF Linked
    <3>2. \A i, j \in 1..Len(combine) : combine[i] = combine[j] => i = j
      BY <1>0 DEF ScheduledOnce
    <3> QED
      BY <1>0, <3>1, <3>2, LinkAppend
  <2> QED
    BY <2>4, <2>5, <2>6 DEF ScheduledOnce
<1>9. RunsTheHead'
  BY DEF RunsTheHead
<1>10. RefsCountHolders'
  <2> SUFFICES ASSUME NEW p \in Queues
               PROVE  refs'[p] = Cardinality(Owners(p)') + Cardinality(Carriers(p)')
                                   + Cardinality(Drainers(p)') + (IF Linked(p)' THEN 1 ELSE 0)
    BY DEF RefsCountHolders
  <2>1. refs[p] = Cardinality(Owners(p)) + Cardinality(Carriers(p)) + Cardinality(Drainers(p)) + (IF Linked(p) THEN 1 ELSE 0)
    BY DEF RefsCountHolders
  <2>2. t \in Carriers(q)
    BY <1>1 DEF Carriers, Carries
  <2>3. Carriers(p) \in SUBSET Threads
    BY DEF Carriers
  <2> HIDE DEF Inv, TypeOK, CombinePush
  <2>4. CASE p = q
    <3>1. Cardinality(Carriers(p)') = Cardinality(Carriers(p)) - 1
      BY <1>6, <2>2, <2>3, <2>4, CountRemove
    <3> QED
      BY <1>0, <1>4, <1>6, <1>7, <2>1, <2>4, <3>1, HoldersFinite
  <2>5. CASE p # q
    BY <1>0, <1>6, <1>7, <2>1, <2>5
  <2> QED
    BY <2>4, <2>5
<1>11. DestroyedUnreferenced'
  <2>1. t \in Carriers(q)
    BY <1>1 DEF Carriers, Carries
  <2>2. ASSUME NEW p \in Queues PROVE Unused(p) => p # q /\ Unused(p)'
    BY <1>6, <1>7, <2>1 DEF Unused
  <2> QED
    BY <1>5, <2>2 DEF DestroyedUnreferenced
<1> QED
  BY <1>2, <1>3, <1>8, <1>9, <1>10, <1>11

(* ntt_queue_create takes a slot nobody refers to.                         *)
LEMMA CreateQueueStep ==
    ASSUME Inv, NEW w \in Workers, NEW q \in Queues, CreateQueue(w, q)
    PROVE  Inv'
<1> USE ThreadKinds DEF Inv, TypeOK, CreateQueue, wvars, svars
<1>1. Unused(q) /\ task_list[q] = <<>> /\ \A u \in Threads : ~Destroying(u, q)
  BY UnusedIsEmpty DEF DestroyedUnreferenced
<1>2. task_list' = task_list
  <2>1. task_list' = [task_list EXCEPT ![q] = task_list[q]]
    BY <1>1
  <2> QED
    BY <2>1
<1>3. TypeOK'
  <2>1. refs' \in [Queues -> Int]
    OBVIOUS
  <2>4. own' \in [Threads -> SUBSET Queues]
    OBVIOUS
  <2>2. creates' \in 0..MaxCreates /\ work_cnt' \in Int
    BY BoundsAssumption DEF WorkEntered
  <2>3. free' \in SUBSET Queues
    OBVIOUS
  <2> QED
    BY <1>2, <2>1, <2>2, <2>3, <2>4
<1>4. ControlOK'
  <2>1. ASSUME NEW u \in Threads PROVE ArgOK(u)'
    BY DEF ControlOK, ArgOK, Usable
  <2>2. ASSUME NEW e \in Externals PROVE ExternalOK(e)'
    BY DEF ControlOK, ExternalOK
  <2>3. ASSUME NEW v \in Workers PROVE WorkerOK(v)'
    BY QueuesAssumption DEF ControlOK, WorkerOK, InCallback
  <2> QED
    BY <2>1, <2>2, <2>3 DEF ControlOK
<1>5. ASSUME NEW u \in Threads, NEW p \in Queues
      PROVE  /\ Linking(u, p)' <=> Linking(u, p)
             /\ u \in Workers => (Serving(u, p)' <=> Serving(u, p))
             /\ Schedules(u, p)' <=> Schedules(u, p)
             /\ Carries(u, p)' <=> Carries(u, p)
             /\ Destroying(u, p)' <=> Destroying(u, p)
  BY DEF Linking, Serving, Schedules, Carries, Destroying
<1>6. ASSUME NEW p \in Queues
      PROVE  /\ Owners(p)' = IF p = q THEN {w} ELSE Owners(p)
             /\ Carriers(p)' = Carriers(p) /\ Drainers(p)' = Drainers(p)
             /\ Linked(p)' <=> Linked(p)
  <2>1. Owners(p)' = IF p = q THEN Owners(p) \cup {w} ELSE Owners(p)
    <3>1. \A u \in Threads : own'[u] = IF u = w THEN own[u] \cup {q} ELSE own[u]
      OBVIOUS
    <3> HIDE DEF Inv, TypeOK, CreateQueue
    <3> QED
      BY <3>1 DEF Owners
  <2> QED
    BY <1>1, <1>5, <2>1 DEF Carriers, Drainers, Linked, Unused
<1>7. ScheduledOnce'
  <2>1. ScheduledOnce /\ combine' = combine
    OBVIOUS
  <2> HIDE DEF Inv, TypeOK, CreateQueue
  <2> QED
    BY <1>2, <1>5, <1>6, <2>1 DEF ScheduledOnce
<1>8. RunsTheHead'
  BY <1>2 DEF RunsTheHead
<1>9. RefsCountHolders'
  <2> SUFFICES ASSUME NEW p \in Queues
               PROVE  refs'[p] = Cardinality(Owners(p)') + Cardinality(Carriers(p)')
                                   + Cardinality(Drainers(p)') + (IF Linked(p)' THEN 1 ELSE 0)
    BY DEF RefsCountHolders
  <2>1. CASE p = q
    <3>1. Cardinality({w}) = 1 /\ Cardinality({}) = 0
      BY FS_Singleton, FS_EmptySet
    <3>2. Carriers(p) = {} /\ Drainers(p) = {} /\ ~Linked(p) /\ refs'[p] = 1
      BY <1>1, <2>1 DEF Unused
    <3> HIDE DEF Inv, TypeOK, CreateQueue
    <3> QED
      BY <1>6, <2>1, <3>1, <3>2
  <2>2. CASE p # q
    BY <1>6, <2>2 DEF RefsCountHolders
  <2> QED
    BY <2>1, <2>2
<1>10. DestroyedUnreferenced'
  <2>1. ASSUME NEW p \in Queues, p # q PROVE Unused(p)' <=> Unused(p)
    BY <1>6, <2>1 DEF Unused
  <2>2. DestroyedUnreferenced /\ free' = free \ {q}
    OBVIOUS
  <2> HIDE DEF Inv, TypeOK, CreateQueue
  <2> QED
    BY <1>1, <1>5, <2>1, <2>2 DEF DestroyedUnreferenced
<1> QED
  BY <1>3, <1>4, <1>7, <1>8, <1>9, <1>10

(* ntt_queue_acquire on behalf of an external thread.                      *)
LEMMA ShareQueueStep ==
    ASSUME Inv, NEW w \in Workers, NEW e \in Externals, NEW q \in Queues,
           ShareQueue(w, e, q)
    PROVE  Inv'
<1> USE ThreadKinds DEF Inv, TypeOK, ShareQueue, wvars, svars
<1>0. /\ \A u \in Threads : own'[u] = IF u = e THEN own[u] \cup {q} ELSE own[u]
  OBVIOUS
<1>1. TypeOK'
  <2>1. refs' \in [Queues -> Int]
    BY AcquiredRefs
  <2>2. own' \in [Threads -> SUBSET Queues]
    OBVIOUS
  <2> QED
    BY <2>1, <2>2
<1>2. ControlOK'
  <2>1. ASSUME NEW u \in Threads PROVE ArgOK(u)'
    BY DEF ControlOK, ArgOK, Usable
  <2>2. ASSUME NEW f \in Externals PROVE ExternalOK(f)'
    BY DEF ControlOK, ExternalOK
  <2>3. ASSUME NEW v \in Workers PROVE WorkerOK(v)'
    BY DEF ControlOK, WorkerOK
  <2> QED
    BY <2>1, <2>2, <2>3 DEF ControlOK
<1>3. ASSUME NEW u \in Threads, NEW p \in Queues
      PROVE  /\ Linking(u, p)' <=> Linking(u, p)
             /\ u \in Workers => (Serving(u, p)' <=> Serving(u, p))
             /\ Schedules(u, p)' <=> Schedules(u, p)
             /\ Carries(u, p)' <=> Carries(u, p)
             /\ Destroying(u, p)' <=> Destroying(u, p)
  BY DEF Linking, Serving, Schedules, Carries, Destroying
<1>4. ASSUME NEW p \in Queues
      PROVE  /\ Owners(p)' = IF p = q THEN Owners(p) \cup {e} ELSE Owners(p)
             /\ Carriers(p)' = Carriers(p) /\ Drainers(p)' = Drainers(p)
             /\ Linked(p)' <=> Linked(p)
  <2>1. Owners(p)' = IF p = q THEN Owners(p) \cup {e} ELSE Owners(p)
    <3> HIDE DEF Inv, TypeOK, ShareQueue
    <3> QED
      BY <1>0 DEF Owners
  <2> QED
    BY <1>3, <2>1 DEF Carriers, Drainers, Linked
<1>5. ScheduledOnce'
  BY <1>3, <1>4 DEF ScheduledOnce
<1>6. RunsTheHead'
  BY DEF RunsTheHead
<1>7. RefsCountHolders'
  <2> SUFFICES ASSUME NEW p \in Queues
               PROVE  refs'[p] = Cardinality(Owners(p)') + Cardinality(Carriers(p)')
                                   + Cardinality(Drainers(p)') + (IF Linked(p)' THEN 1 ELSE 0)
    BY DEF RefsCountHolders
  <2>1. Owners(p) \in SUBSET Threads /\ (p = q => e \notin Owners(p))
    BY DEF Owners
  <2>2. refs'[p] = refs[p] + (IF p = q THEN 1 ELSE 0)
    BY AcquiredRefs
  <2>3. refs[p] = Cardinality(Owners(p)) + Cardinality(Carriers(p)) + Cardinality(Drainers(p)) + (IF Linked(p) THEN 1 ELSE 0)
    BY DEF RefsCountHolders
  <2> HIDE DEF Inv, TypeOK, ShareQueue
  <2>4. Cardinality(Owners(p)') = Cardinality(Owners(p)) + (IF p = q THEN 1 ELSE 0)
    <3>1. CASE p = q
      BY <1>4, <2>1, <3>1, CountAdd
    <3>2. CASE p # q
      BY <1>4, <3>2, HoldersFinite
    <3> QED
      BY <3>1, <3>2
  <2> QED
    BY <1>4, <2>2, <2>3, <2>4, HoldersFinite
<1>8. DestroyedUnreferenced'
  <2>1. ~Unused(q)
    BY QueuesAssumption DEF Unused, Owners, Drainers, Usable
  <2>2. ASSUME NEW p \in Queues PROVE Unused(p) => Unused(p)'
    BY <1>4, <2>1 DEF Unused
  <2> QED
    BY <1>3, <2>2 DEF DestroyedUnreferenced
<1> QED
  BY <1>1, <1>2, <1>5, <1>6, <1>7, <1>8

(* What the fetch_sub of ntt_queue_release leaves: one holder less, and    *)
(* the destruction of the queue when it was the last one. The two callers  *)
(* differ in which holder lets go.                                         *)
LEMMA ReleaseStep ==
    ASSUME Inv, NEW t \in Threads, NEW q \in Queues,
           UNCHANGED <<task_list, free, combine, cur, task>>,
           refs' = [refs EXCEPT ![q] = @ - 1],
           \/ /\ t \in Owners(q)
              /\ \A p \in Queues : Owners(p)' = IF p = q THEN Owners(p) \ {t}
                                                         ELSE Owners(p)
              /\ \A p \in Queues : Carriers(p)' = Carriers(p)
           \/ /\ t \in Carriers(q)
              /\ \A p \in Queues : Carriers(p)' = IF p = q THEN Carriers(p) \ {t}
                                                           ELSE Carriers(p)
              /\ \A p \in Queues : Owners(p)' = Owners(p),
           \A u \in Threads, p \in Queues :
              /\ Linking(u, p)' <=> Linking(u, p)
              /\ u \in Workers => (Serving(u, p)' <=> Serving(u, p))
              /\ Destroying(u, p)' <=> \/ Destroying(u, p)
                                       \/ u = t /\ p = q /\ refs[q] = 1
    PROVE  ScheduledOnce' /\ RunsTheHead' /\ RefsCountHolders' /\ DestroyedUnreferenced'
<1>1. /\ ScheduledOnce /\ RunsTheHead /\ RefsCountHolders /\ DestroyedUnreferenced
      /\ refs \in [Queues -> Int]
  BY DEF Inv, TypeOK
<1>2. ASSUME NEW p \in Queues
      PROVE  (Linked(p)' <=> Linked(p)) /\ Drainers(p)' = Drainers(p)
  BY DEF Linked, Drainers
<1>3. ScheduledOnce'
  <2>1. ASSUME NEW u \in Threads, NEW p \in Queues
        PROVE  Schedules(u, p)' <=> Schedules(u, p)
    BY DEF Schedules
  <2> QED
    BY <1>1, <1>2, <2>1, ThreadKinds DEF ScheduledOnce
<1>4. RunsTheHead'
  BY <1>1 DEF RunsTheHead
<1>5. RefsCountHolders'
  <2> SUFFICES ASSUME NEW p \in Queues
               PROVE  refs'[p] = Cardinality(Owners(p)') + Cardinality(Carriers(p)')
                                   + Cardinality(Drainers(p)') + (IF Linked(p)' THEN 1 ELSE 0)
    BY DEF RefsCountHolders
  <2>1. refs'[p] = refs[p] - (IF p = q THEN 1 ELSE 0)
    BY <1>1
  <2>2. refs[p] = Cardinality(Owners(p)) + Cardinality(Carriers(p)) + Cardinality(Drainers(p)) + (IF Linked(p) THEN 1 ELSE 0)
    BY <1>1 DEF RefsCountHolders
  <2>3. Owners(q) \in SUBSET Threads /\ Carriers(q) \in SUBSET Threads
    BY DEF Owners, Carriers
  <2>4. CASE p = q
    <3>1. Cardinality(Owners(p)') + Cardinality(Carriers(p)')
             = Cardinality(Owners(p)) + Cardinality(Carriers(p)) - 1
      <4>1. t \in Owners(p) => Cardinality(Owners(p) \ {t}) = Cardinality(Owners(p)) - 1
        BY <2>3, <2>4, CountRemove
      <4>2. t \in Carriers(p) => Cardinality(Carriers(p) \ {t}) = Cardinality(Carriers(p)) - 1
        BY <2>3, <2>4, CountRemove
      <4>3. \/ Owners(p)' = Owners(p) \ {t} /\ t \in Owners(p) /\ Carriers(p)' = Carriers(p)
            \/ Carriers(p)' = Carriers(p) \ {t} /\ t \in Carriers(p) /\ Owners(p)' = Owners(p)
        BY <2>4
      <4>4. Cardinality(Owners(p)) \in Nat /\ Cardinality(Carriers(p)) \in Nat
        BY HoldersFinite
      <4>5. CASE /\ Owners(p)' = Owners(p) \ {t} /\ t \in Owners(p)
                 /\ Carriers(p)' = Carriers(p)
        <5>1. Cardinality(Owners(p)') = Cardinality(Owners(p)) - 1
          BY <4>1, <4>5
        <5>2. Cardinality(Carriers(p)') = Cardinality(Carriers(p))
          BY <4>5
        <5> QED
          BY <4>4, <5>1, <5>2
      <4>6. CASE /\ Carriers(p)' = Carriers(p) \ {t} /\ t \in Carriers(p)
                 /\ Owners(p)' = Owners(p)
        <5>1. Cardinality(Carriers(p)') = Cardinality(Carriers(p)) - 1
          BY <4>2, <4>6
        <5>2. Cardinality(Owners(p)') = Cardinality(Owners(p))
          BY <4>6
        <5> QED
          BY <4>4, <5>1, <5>2
      <4> QED
        BY <4>3, <4>5, <4>6
    <3> QED
      BY <1>2, <2>1, <2>2, <2>4, <3>1, HoldersFinite
  <2>5. CASE p # q
    BY <1>2, <2>1, <2>2, <2>5
  <2> QED
    BY <2>4, <2>5
<1>6. DestroyedUnreferenced'
  <2>1. ~Unused(q)
    BY DEF Unused
  <2>2. ASSUME NEW p \in Queues PROVE Unused(p) => Unused(p)'
    BY <1>2, <2>1 DEF Unused
  <2>3. refs[q] = 1 => Unused(q)'
    <3> SUFFICES ASSUME refs[q] = 1 PROVE Unused(q)'
      OBVIOUS
    <3>1. refs'[q] = 0
      BY <1>1
    <3>2. 0 = Cardinality(Owners(q)') + Cardinality(Carriers(q)') + Cardinality(Drainers(q)') + (IF Linked(q)' THEN 1 ELSE 0)
      BY <1>5, <3>1 DEF RefsCountHolders
    <3>3. /\ Owners(q)' \in SUBSET Threads /\ Carriers(q)' \in SUBSET Threads
          /\ Drainers(q)' \in SUBSET Threads
      BY DEF Owners, Carriers, Drainers
    <3>4. /\ Cardinality(Owners(q)') \in Nat /\ Cardinality(Carriers(q)') \in Nat
          /\ Cardinality(Drainers(q)') \in Nat
      BY <3>3, ThreadSetsFinite
    <3>5. /\ Cardinality(Owners(q)') = 0 /\ Cardinality(Carriers(q)') = 0
          /\ Cardinality(Drainers(q)') = 0 /\ ~Linked(q)'
      BY <3>2, <3>4
    <3> QED
      BY <3>3, <3>5, CountZero DEF Unused
  <2>4. q \notin free /\ \A u \in Threads : ~Destroying(u, q)
    BY <1>1, <2>1 DEF DestroyedUnreferenced
  <2>5. ASSUME NEW p \in Queues
        PROVE  /\ p \in free' \/ (\E u \in Threads : Destroying(u, p)') => Unused(p)'
               /\ \A u \in Threads : Destroying(u, p)' => p \notin free'
               /\ \A u, v \in Threads : Destroying(u, p)' /\ Destroying(v, p)' => u = v
    BY <1>1, <2>2, <2>3, <2>4 DEF DestroyedUnreferenced
  <2> QED
    BY <2>5 DEF DestroyedUnreferenced
<1> QED
  BY <1>3, <1>4, <1>5, <1>6

(* ntt_queue_release by the application.                                   *)
LEMMA ReleaseQueueStep ==
    ASSUME Inv, NEW t \in Threads, NEW q \in Queues, ReleaseQueue(t, q)
    PROVE  Inv'
<1> USE ThreadKinds DEF Inv, TypeOK, ReleaseQueue, wvars, svars
<1>1. pc[t] \in {"idle", "run", "drop"} /\ arg[t] = NoQueue
  BY DEF InApplication, InCallback, ControlOK, ArgOK
<1>2. pc[t] = Return(t)
  <2>1. CASE t \in Externals
    <3>1. Return(t) = "idle"
      BY <2>1, Returns
    <3>2. pc[t] \notin {"run", "drop"}
      BY <2>1 DEF ControlOK, ExternalOK
    <3> QED
      BY <1>1, <3>1, <3>2
  <2>2. CASE t \in Workers
    <3>1. WorkerOK(t)
      BY <2>2 DEF ControlOK
    <3>2. cur[t] # NoQueue /\ (pc[t] = "run" \/ pc[t] = "drop")
      BY <1>1, <3>1, QueuesAssumption DEF WorkerOK
    <3>3. /\ pc[t] = "run" => prev[t] = NoTask
          /\ pc[t] = "drop" => prev[t] # NoTask
      BY <3>1, TasksAssumption DEF WorkerOK
    <3> HIDE DEF Inv, TypeOK, ReleaseQueue
    <3> QED
      BY <2>2, <3>2, <3>3, Returns
  <2> QED
    BY <2>1, <2>2
<1>3. /\ refs' = [refs EXCEPT ![q] = @ - 1]
      /\ \/ refs[q] = 1 /\ pc' = [pc EXCEPT ![t] = "give"]
            /\ arg' = [arg EXCEPT ![t] = q]
         \/ refs[q] # 1 /\ UNCHANGED <<pc, arg>>
  <2>1. DropReference(t, q) /\ pc \in [Threads -> PCs]
        /\ arg \in [Threads -> Queues \cup {NoQueue}]
    OBVIOUS
  <2> HIDE DEF Inv, TypeOK, ReleaseQueue
  <2>2. [pc EXCEPT ![t] = Return(t)] = pc /\ [arg EXCEPT ![t] = NoQueue] = arg
    BY <1>1, <1>2, <2>1
  <2> QED
    BY <2>1, <2>2 DEF DropReference, LastReference
<1>4. TypeOK'
  <2>1. pc' \in [Threads -> PCs]
    BY <1>3 DEF PCs
  <2>2. refs' \in [Queues -> Int]
    <3>1. refs \in [Queues -> Int]
      OBVIOUS
    <3> HIDE DEF Inv, TypeOK, ReleaseQueue
    <3> QED
      BY <1>3, <3>1
  <2>4. arg' \in [Threads -> Queues \cup {NoQueue}]
    <3>1. arg \in [Threads -> Queues \cup {NoQueue}]
      OBVIOUS
    <3> HIDE DEF Inv, TypeOK, ReleaseQueue
    <3> QED
      BY <1>3, <3>1
  <2>3. own' \in [Threads -> SUBSET Queues]
    OBVIOUS
  <2> QED
    BY <2>1, <2>2, <2>3, <2>4
<1>5. /\ ControlOK /\ UNCHANGED <<cur, task, prev>> /\ own'[t] = own[t] \ {q}
      /\ \/ refs[q] = 1 /\ pc'[t] = "give" /\ arg'[t] = q
         \/ refs[q] # 1 /\ pc'[t] = pc[t] /\ arg'[t] = NoQueue
      /\ \A u \in Threads \ {t} :
            pc'[u] = pc[u] /\ arg'[u] = arg[u] /\ own'[u] = own[u]
  <2>1. /\ ControlOK /\ UNCHANGED <<cur, task, prev>>
        /\ own' = [own EXCEPT ![t] = @ \ {q}] /\ own \in [Threads -> SUBSET Queues]
        /\ pc \in [Threads -> PCs] /\ arg \in [Threads -> Queues \cup {NoQueue}]
    OBVIOUS
  <2> HIDE DEF Inv, TypeOK, ReleaseQueue
  <2> QED
    BY <1>1, <1>3, <2>1
<1>6. ControlOK'
  <2> HIDE DEF Inv, TypeOK, ReleaseQueue
  <2>1. ArgOK(t)'
    BY <1>1, <1>5, QueuesAssumption DEF ArgOK
  <2>2. t \in Externals => ExternalOK(t)'
    BY <1>5 DEF ControlOK, ExternalOK
  <2>3. t \in Workers => WorkerOK(t)'
    BY <1>1, <1>5 DEF ControlOK, WorkerOK
  <2> QED
    BY <1>5, <2>1, <2>2, <2>3, OthersControlled
<1>7. ASSUME NEW u \in Threads, NEW p \in Queues
      PROVE  /\ Linking(u, p)' <=> Linking(u, p)
             /\ u \in Workers => (Serving(u, p)' <=> Serving(u, p))
             /\ Carries(u, p)' <=> Carries(u, p)
             /\ Destroying(u, p)' <=> \/ Destroying(u, p)
                                      \/ u = t /\ p = q /\ refs[q] = 1
  <2> HIDE DEF Inv, TypeOK, ReleaseQueue
  <2>1. CASE u = t
    BY <1>1, <1>5, <2>1 DEF Linking, Serving, Carries, Destroying
  <2>2. CASE u # t
    BY <1>5, <2>2 DEF Linking, Serving, Carries, Destroying
  <2> QED
    BY <2>1, <2>2
<1>8. ASSUME NEW p \in Queues
      PROVE  /\ Owners(p)' = IF p = q THEN Owners(p) \ {t} ELSE Owners(p)
             /\ Carriers(p)' = Carriers(p)
  <2>1. Carriers(p)' = Carriers(p)
    BY <1>7 DEF Carriers
  <2>2. \A u \in Threads : own'[u] = IF u = t THEN own[u] \ {q} ELSE own[u]
    OBVIOUS
  <2> HIDE DEF Inv, TypeOK, ReleaseQueue
  <2> QED
    BY <2>1, <2>2 DEF Owners
<1>9. t \in Owners(q) /\ UNCHANGED <<task_list, free, combine, cur, task>>
  BY DEF Owners
<1>10. ScheduledOnce' /\ RunsTheHead' /\ RefsCountHolders' /\ DestroyedUnreferenced'
  <2> HIDE DEF TypeOK, ReleaseQueue, Inv
  <2>1. /\ t \in Owners(q)
        /\ \A p \in Queues : Owners(p)' = IF p = q THEN Owners(p) \ {t} ELSE Owners(p)
        /\ \A p \in Queues : Carriers(p)' = Carriers(p)
    BY <1>8, <1>9
  <2>2. \A u \in Threads, p \in Queues :
           /\ Linking(u, p)' <=> Linking(u, p)
           /\ u \in Workers => (Serving(u, p)' <=> Serving(u, p))
           /\ Destroying(u, p)' <=> Destroying(u, p) \/ (u = t /\ p = q /\ refs[q] = 1)
    BY <1>7
  <2>3. UNCHANGED <<task_list, free, combine, cur, task>> /\ refs' = [refs EXCEPT ![q] = @ - 1]
    BY <1>3, <1>9
  <2> QED
    BY <2>1, <2>2, <2>3, ReleaseStep, Zenon
<1> QED
  BY <1>4, <1>10, <1>6

(* ntt_queue_release at the end of a drain.                                *)
LEMMA SvcReleaseStep ==
    ASSUME Inv, NEW t \in Workers, SvcRelease(t)
    PROVE  Inv'
<1> USE ThreadKinds DEF Inv, TypeOK, SvcRelease, wvars, svars, avars
<1>1. PICK q \in Queues : q = arg[t] /\ pc[t] = "release" /\ cur[t] = NoQueue
  BY DEF ControlOK, ArgOK, WorkerOK
<1>2. "take" = Return(t)
  BY <1>1, Returns
<1>3. /\ refs' = [refs EXCEPT ![q] = @ - 1]
      /\ \/ refs[q] = 1 /\ pc' = [pc EXCEPT ![t] = "give"] /\ arg' = [arg EXCEPT ![t] = q]
         \/ refs[q] # 1 /\ pc' = [pc EXCEPT ![t] = "take"]
            /\ arg' = [arg EXCEPT ![t] = NoQueue]
  BY <1>1, <1>2 DEF DropReference, LastReference
<1>4. TypeOK'
  <2>1. pc' \in [Threads -> PCs]
    BY <1>3 DEF PCs
  <2>2. refs' \in [Queues -> Int]
    <3>1. refs \in [Queues -> Int]
      OBVIOUS
    <3> HIDE DEF Inv, TypeOK, SvcRelease
    <3> QED
      BY <1>3, <3>1
  <2>4. arg' \in [Threads -> Queues \cup {NoQueue}]
    <3>1. arg \in [Threads -> Queues \cup {NoQueue}]
      OBVIOUS
    <3> HIDE DEF Inv, TypeOK, SvcRelease
    <3> QED
      BY <1>3, <3>1
  <2> QED
    BY <2>1, <2>2, <2>4
<1>5. /\ ControlOK /\ UNCHANGED <<cur, task, prev, own>>
      /\ \/ refs[q] = 1 /\ pc'[t] = "give" /\ arg'[t] = q
         \/ refs[q] # 1 /\ pc'[t] = "take" /\ arg'[t] = NoQueue
      /\ \A u \in Threads \ {t} : pc'[u] = pc[u] /\ arg'[u] = arg[u]
  BY <1>3
<1>6. ControlOK'
  <2> HIDE DEF Inv, TypeOK, SvcRelease
  <2>1. ArgOK(t)'
    BY <1>5, QueuesAssumption DEF ArgOK
  <2>2. WorkerOK(t)'
    BY <1>1, <1>5 DEF ControlOK, WorkerOK
  <2> QED
    BY <1>5, <2>1, <2>2, OthersControlled
<1>7. ASSUME NEW u \in Threads, NEW p \in Queues
      PROVE  /\ Linking(u, p)' <=> Linking(u, p)
             /\ u \in Workers => (Serving(u, p)' <=> Serving(u, p))
             /\ Carries(u, p)' <=> Carries(u, p) /\ ~(u = t /\ p = q)
             /\ Destroying(u, p)' <=> \/ Destroying(u, p)
                                      \/ u = t /\ p = q /\ refs[q] = 1
  <2> HIDE DEF Inv, TypeOK, SvcRelease
  <2>1. CASE u = t
    BY <1>1, <1>5, <2>1, QueuesAssumption DEF Linking, Serving, Carries, Destroying
  <2>2. CASE u # t
    BY <1>5, <2>2 DEF Linking, Serving, Carries, Destroying
  <2> QED
    BY <2>1, <2>2
<1>8. ASSUME NEW p \in Queues
      PROVE  /\ Carriers(p)' = IF p = q THEN Carriers(p) \ {t} ELSE Carriers(p)
             /\ Owners(p)' = Owners(p)
  <2>1. Owners(p)' = Owners(p)
    BY DEF Owners
  <2> HIDE DEF Inv, TypeOK, SvcRelease
  <2> QED
    BY <1>7, <2>1 DEF Carriers
<1>9. t \in Carriers(q) /\ UNCHANGED <<task_list, free, combine, cur, task>>
  BY <1>1 DEF Carriers, Carries
<1>10. ScheduledOnce' /\ RunsTheHead' /\ RefsCountHolders' /\ DestroyedUnreferenced'
  <2> HIDE DEF TypeOK, SvcRelease, Inv
  <2> QED
    BY <1>3, <1>7, <1>8, <1>9, ReleaseStep
<1> QED
  BY <1>4, <1>10, <1>6

(* ntt_slab_give of the destroyed queue.                                   *)
LEMMA GiveQueueStep ==
    ASSUME Inv, NEW t \in Threads, GiveQueue(t)
    PROVE  Inv'
<1> USE ThreadKinds DEF Inv, TypeOK, GiveQueue, wvars, svars, avars
<1>1. PICK q \in Queues : q = arg[t] /\ pc[t] = "give"
  BY DEF ControlOK, ArgOK
<1>2. TypeOK'
  <2>1. pc' \in [Threads -> PCs]
    BY DEF PCs
  <2>2. arg' \in [Threads -> Queues \cup {NoQueue}] /\ free' \in SUBSET Queues
    BY <1>1
  <2> QED
    BY <2>1, <2>2
<1>3. ControlOK'
  <2>1. ASSUME NEW u \in Threads PROVE ArgOK(u)'
    BY QueuesAssumption DEF ControlOK, ArgOK, Usable
  <2>2. ASSUME NEW e \in Externals PROVE ExternalOK(e)'
    BY DEF ControlOK, ExternalOK
  <2>3. ASSUME NEW w \in Workers PROVE WorkerOK(w)'
    BY DEF ControlOK, WorkerOK
  <2> QED
    BY <2>1, <2>2, <2>3 DEF ControlOK
<1>4. ASSUME NEW u \in Threads, NEW p \in Queues
      PROVE  /\ Linking(u, p)' <=> Linking(u, p)
             /\ u \in Workers => (Serving(u, p)' <=> Serving(u, p))
             /\ Schedules(u, p)' <=> Schedules(u, p)
             /\ Carries(u, p)' <=> Carries(u, p)
             /\ Destroying(u, p)' <=> Destroying(u, p) /\ u # t
  BY <1>1, QueuesAssumption DEF Linking, Serving, Schedules, Carries, Destroying
<1>5. ASSUME NEW p \in Queues
      PROVE  /\ Owners(p)' = Owners(p) /\ Carriers(p)' = Carriers(p)
             /\ Drainers(p)' = Drainers(p)
             /\ Linked(p)' <=> Linked(p)
             /\ Unused(p)' <=> Unused(p)
  BY <1>4 DEF Owners, Carriers, Drainers, Linked, Unused
<1>6. ScheduledOnce'
  BY <1>4, <1>5 DEF ScheduledOnce
<1>7. RunsTheHead'
  BY DEF RunsTheHead
<1>8. RefsCountHolders'
  BY <1>5 DEF RefsCountHolders
<1>9. DestroyedUnreferenced'
  <2>1. DestroyedUnreferenced /\ free' = free \cup {q} /\ Destroying(t, q)
    BY <1>1 DEF Destroying
  <2> HIDE DEF Inv, TypeOK, GiveQueue
  <2> QED
    BY <1>4, <1>5, <2>1 DEF DestroyedUnreferenced
<1> QED
  BY <1>2, <1>3, <1>6, <1>7, <1>8, <1>9

(* ntt_combine_try_take: the reference moves from the link to the worker.  *)
LEMMA TryTakeStep ==
    ASSUME Inv, NEW t \in Workers, TryTake(t)
    PROVE  Inv'
<1> USE ThreadKinds DEF Inv, TypeOK, TryTake, qvars, wvars, svars, avars
<1>1. pc[t] = "take" /\ arg[t] = NoQueue /\ cur[t] = NoQueue
  <2>1. /\ pc[t] = "take" /\ arg[t] \in Queues \cup {NoQueue}
        /\ ArgOK(t) /\ WorkerOK(t)
    BY DEF ControlOK
  <2> HIDE DEF Inv, TypeOK, TryTake
  <2> QED
    BY <2>1 DEF ArgOK, WorkerOK
<1>2. CASE combine = <<>>
  <2>1. /\ pc' = [pc EXCEPT ![t] = "wait"] /\ "wait" \in PCs
        /\ UNCHANGED <<task_list, refs, free, combine, arg, cur, task, prev, own>>
    BY <1>2 DEF PCs
  <2>2. /\ pc' \in [Threads -> PCs]
        /\ ControlOK' /\ ScheduledOnce' /\ RunsTheHead' /\ RefsCountHolders'
        /\ DestroyedUnreferenced'
    <3> HIDE DEF Inv, TypeOK, TryTake
    <3> QED
      BY <1>1, <2>1, MoveStep
  <2> QED
    BY <2>1, <2>2
<1>3. CASE combine # <<>>
  <2>0. /\ ScheduledOnce /\ UNCHANGED <<refs, task_list, free, own, cur, task>>
        /\ combine \in Seq(Queues) /\ combine' = Tail(combine)
        /\ pc' = [pc EXCEPT ![t] = "svc"]
        /\ arg' = [arg EXCEPT ![t] = Head(combine)]
        /\ DestroyedUnreferenced
    BY <1>3
  <2>1. PICK q \in Queues : q = Head(combine)
    BY <1>3, HeadTailProperties
  <2>2. /\ combine' \in Seq(Queues) /\ Linked(q)
        /\ \A p : Linked(p)' <=> Linked(p) /\ p # q
        /\ \A i, j \in 1..Len(combine') : combine'[i] = combine'[j] => i = j
    <3>1. \A i, j \in 1..Len(combine) : combine[i] = combine[j] => i = j
      BY DEF ScheduledOnce
    <3> HIDE DEF Inv, TypeOK, TryTake
    <3> QED
      <4>1. /\ Tail(combine) \in Seq(Queues)
            /\ \E i \in 1..Len(combine) : combine[i] = q
            /\ \A p : (\E i \in 1..Len(Tail(combine)) : Tail(combine)[i] = p)
                         <=> (\E i \in 1..Len(combine) : combine[i] = p) /\ p # q
            /\ \A i, j \in 1..Len(Tail(combine)) :
                  Tail(combine)[i] = Tail(combine)[j] => i = j
        BY <1>3, <2>0, <2>1, <3>1, LinkTail
      <4> QED
        BY <2>0, <4>1 DEF Linked
  <2>3. TypeOK'
    <3>1. pc' \in [Threads -> PCs]
      BY <2>0 DEF PCs
    <3>2. arg' \in [Threads -> Queues \cup {NoQueue}]
      BY <2>0, <2>1
    <3> QED
      BY <2>2, <3>1, <3>2
  <2>4. ControlOK'
    <3>1. ASSUME NEW u \in Threads PROVE ArgOK(u)'
      BY <2>0, <2>1 DEF ControlOK, ArgOK, Usable
    <3>2. ASSUME NEW e \in Externals PROVE ExternalOK(e)'
      BY <2>0 DEF ControlOK, ExternalOK
    <3>3. ASSUME NEW w \in Workers PROVE WorkerOK(w)'
      BY <1>1, <2>0 DEF ControlOK, WorkerOK
    <3> QED
      BY <3>1, <3>2, <3>3 DEF ControlOK
  <2>5. ASSUME NEW u \in Threads, NEW p \in Queues
        PROVE  /\ Linking(u, p)' <=> Linking(u, p)
               /\ u \in Workers => (Serving(u, p)' <=> Serving(u, p) \/ (u = t /\ p = q))
               /\ Schedules(u, p)' <=> Schedules(u, p) \/ (u = t /\ p = q)
               /\ Carries(u, p)' <=> Carries(u, p) \/ (u = t /\ p = q)
               /\ Destroying(u, p)' <=> Destroying(u, p)
    <3>1. pc \in [Threads -> PCs] /\ arg \in [Threads -> Queues \cup {NoQueue}]
      OBVIOUS
    <3> HIDE DEF Inv, TypeOK, TryTake
    <3> QED
      BY <1>1, <2>0, <2>1, <3>1, QueuesAssumption
         DEF Linking, Serving, Schedules, Carries, Destroying
  <2>6. ASSUME NEW p \in Queues
        PROVE  /\ Owners(p)' = Owners(p)
               /\ Carriers(p)' = IF p = q THEN Carriers(p) \cup {t} ELSE Carriers(p)
               /\ Drainers(p)' = Drainers(p)
    <3>1. Owners(p)' = Owners(p) /\ Drainers(p)' = Drainers(p)
      BY <2>0 DEF Owners, Drainers
    <3> HIDE DEF Inv, TypeOK, TryTake
    <3> QED
      BY <2>5, <3>1 DEF Carriers
  <2> HIDE DEF Inv, TypeOK, TryTake
  <2>7. ScheduledOnce'
    <3>1. task_list[q] # <<>> /\ \A u \in Threads : ~Schedules(u, q)
      BY <2>0, <2>2 DEF ScheduledOnce
    <3>2. ASSUME NEW p \in Queues
          PROVE  /\ task_list'[p] # <<>> <=>
                      Linked(p)' \/ \E u \in Threads : Schedules(u, p)'
                 /\ \A u \in Threads : Schedules(u, p)' => ~Linked(p)'
                 /\ \A u, v \in Threads : Schedules(u, p)' /\ Schedules(v, p)' => u = v
      <4>1. CASE p = q
        BY <2>0, <2>2, <2>5, <3>1, <4>1
      <4>2. CASE p # q
        BY <2>0, <2>2, <2>5, <4>2 DEF ScheduledOnce
      <4> QED
        BY <4>1, <4>2
    <3>3. ASSUME NEW p \in Queues, NEW w \in Workers, Linking(w, p)', Serving(w, p)'
          PROVE  FALSE
      <4>1. Linking(w, p)
        BY <2>5, <3>3
      <4>2. CASE w = t /\ p = q
        BY <3>1, <4>1, <4>2 DEF Schedules
      <4>3. CASE ~(w = t /\ p = q)
        BY <2>0, <2>5, <3>3, <4>1, <4>3 DEF ScheduledOnce
      <4> QED
        BY <4>2, <4>3
    <3> QED
      BY <2>2, <3>2, <3>3 DEF ScheduledOnce
  <2>8. RunsTheHead'
    BY <2>0 DEF RunsTheHead, Inv
  <2>9. RefsCountHolders'
    <3> SUFFICES ASSUME NEW p \in Queues
                 PROVE  refs'[p] = Cardinality(Owners(p)') + Cardinality(Carriers(p)')
                                     + Cardinality(Drainers(p)') + (IF Linked(p)' THEN 1 ELSE 0)
      BY DEF RefsCountHolders
    <3>1. refs[p] = Cardinality(Owners(p)) + Cardinality(Carriers(p)) + Cardinality(Drainers(p)) + (IF Linked(p) THEN 1 ELSE 0)
      BY DEF RefsCountHolders, Inv
    <3>2. Carriers(p) \in SUBSET Threads
      BY DEF Carriers
    <3>3. CASE p = q
      <4>1. t \notin Carriers(p)
        BY <1>1, <3>3, QueuesAssumption DEF Carriers, Carries
      <4>2. Cardinality(Carriers(p)') = Cardinality(Carriers(p)) + 1
        BY <2>6, <3>2, <3>3, <4>1, CountAdd
      <4> QED
        BY <2>0, <2>2, <2>6, <3>1, <3>3, <4>2, HoldersFinite
    <3>4. CASE p # q
      BY <2>0, <2>2, <2>6, <3>1, <3>4
    <3> QED
      BY <3>3, <3>4
  <2>10. DestroyedUnreferenced'
    <3>1. ASSUME NEW p \in Queues PROVE Unused(p) => Unused(p)'
      BY <2>2, <2>6 DEF Unused
    <3> QED
      BY <2>0, <2>5, <3>1 DEF DestroyedUnreferenced
  <2> QED
    BY <2>3, <2>4, <2>7, <2>8, <2>9, <2>10 DEF Inv
<1> QED
  BY <1>2, <1>3

(* ntt_queue_svc starts with the head of a list that is not empty.         *)
LEMMA SvcBeginStep ==
    ASSUME Inv, NEW t \in Workers, SvcBegin(t)
    PROVE  Inv'
<1> USE ThreadKinds
<1>1. /\ TypeOK /\ ControlOK /\ ScheduledOnce /\ RunsTheHead /\ RefsCountHolders
      /\ DestroyedUnreferenced
  BY DEF Inv
<1>2. PICK q \in Queues : /\ q = arg[t] /\ pc[t] = "svc" /\ cur[t] = NoQueue
                          /\ prev[t] = NoTask
  BY <1>1 DEF SvcBegin, ControlOK, ArgOK, WorkerOK
<1>3. /\ UNCHANGED <<task_list, refs, free, combine, own, prev>>
      /\ cur' = [cur EXCEPT ![t] = q] /\ arg' = [arg EXCEPT ![t] = NoQueue]
      /\ task' = [task EXCEPT ![t] = Front(task_list[q])]
      /\ cnt' = [cnt EXCEPT ![t] = 0]
      /\ pc' = [pc EXCEPT ![t] = "run"]
  BY <1>2 DEF SvcBegin, qvars, avars
<1>4. task_list[q] # <<>> /\ \A u \in Threads : Schedules(u, q) => u = t
  BY <1>1, <1>2 DEF ScheduledOnce, Schedules, Serving
<1>5. Front(task_list[q]) \in Tasks /\ Front(task_list[q]) = Head(task_list[q])
  BY <1>1, <1>4, PoppedList DEF TypeOK
<1>6. /\ pc'[t] = "run" /\ cur'[t] = q /\ task'[t] = Front(task_list[q])
      /\ arg'[t] = NoQueue /\ own'[t] = own[t]
      /\ prev'[t] = NoTask
  BY <1>1, <1>2, <1>3 DEF TypeOK
<1>7. ASSUME NEW u \in Threads, u # t
      PROVE  /\ pc'[u] = pc[u] /\ cur'[u] = cur[u] /\ arg'[u] = arg[u]
             /\ own'[u] = own[u]
             /\ u \in Workers => task'[u] = task[u] /\ prev'[u] = prev[u]
  BY <1>1, <1>3, <1>7 DEF TypeOK
<1>8. TypeOK'
  <2>1. pc' \in [Threads -> PCs]
    BY <1>1, <1>3 DEF TypeOK, PCs
  <2>2. arg' \in [Threads -> Queues \cup {NoQueue}]
    BY <1>1, <1>3 DEF TypeOK
  <2>3. cur' \in [Threads -> Queues \cup {NoQueue}]
    BY <1>1, <1>3 DEF TypeOK
  <2>4. task' \in [Workers -> Tasks \cup {NoTask}] /\ cnt' \in [Workers -> Nat]
    BY <1>1, <1>3, <1>5 DEF TypeOK
  <2> QED
    BY <1>1, <2>1, <2>2, <2>3, <2>4 DEF TypeOK, SvcBegin, qvars, svars, avars
<1>9. ControlOK'
  <2>1. ArgOK(t)'
    BY <1>6, QueuesAssumption DEF ArgOK
  <2>2. WorkerOK(t)'
    BY <1>5, <1>6, QueuesAssumption DEF WorkerOK
  <2> QED
    BY <1>1, <1>7, <2>1, <2>2, OthersControlled
<1>10. ASSUME NEW u \in Threads, NEW p \in Queues
       PROVE  /\ Linking(u, p)' <=> Linking(u, p)
              /\ u \in Workers => (Serving(u, p)' <=> Serving(u, p))
              /\ Carries(u, p)' <=> Carries(u, p) /\ ~(u = t /\ p = q)
              /\ cur'[u] = p <=> cur[u] = p \/ (u = t /\ p = q)
              /\ Destroying(u, p)' <=> Destroying(u, p)
  <2>1. CASE u = t
    BY <1>2, <1>5, <1>6, <2>1, QueuesAssumption, TasksAssumption
       DEF Linking, Serving, Carries, Destroying
  <2>2. CASE u # t
    BY <1>7, <2>2 DEF Linking, Serving, Carries, Destroying
  <2> QED
    BY <2>1, <2>2
<1>11. ASSUME NEW p \in Queues
       PROVE  /\ Owners(p)' = Owners(p)
              /\ Carriers(p)' = IF p = q THEN Carriers(p) \ {t} ELSE Carriers(p)
              /\ Drainers(p)' = IF p = q THEN Drainers(p) \cup {t} ELSE Drainers(p)
              /\ Linked(p)' <=> Linked(p)
              /\ p = q => t \in Carriers(p) /\ t \notin Drainers(p)
              /\ Unused(p)' <=> Unused(p)
  <2>1. Owners(p)' = Owners(p) /\ (Linked(p)' <=> Linked(p))
    BY <1>3 DEF Owners, Linked
  <2>2. /\ Carriers(p)' = IF p = q THEN Carriers(p) \ {t} ELSE Carriers(p)
        /\ Drainers(p)' = IF p = q THEN Drainers(p) \cup {t} ELSE Drainers(p)
    BY <1>10 DEF Carriers, Drainers
  <2>3. p = q => t \in Carriers(p) /\ t \notin Drainers(p)
    BY <1>2, QueuesAssumption DEF Carriers, Carries, Drainers
  <2> QED
    BY <2>1, <2>2, <2>3 DEF Unused
<1>12. ScheduledOnce'
  <2>1. ASSUME NEW u \in Threads, NEW p \in Queues
        PROVE  Schedules(u, p)' <=> Schedules(u, p)
    BY <1>10 DEF Schedules
  <2> QED
    BY <1>1, <1>3, <1>10, <1>11, <2>1 DEF ScheduledOnce
<1>13. RunsTheHead'
  <2> SUFFICES ASSUME NEW w \in Workers, cur'[w] # NoQueue, task'[w] # NoTask
               PROVE  /\ task_list'[cur'[w]] # <<>>
                      /\ task'[w] = Head(task_list'[cur'[w]])
    BY DEF RunsTheHead
  <2>1. CASE w = t
    BY <1>3, <1>4, <1>5, <1>6, <2>1
  <2>2. CASE w # t
    BY <1>1, <1>3, <1>7, <2>2 DEF RunsTheHead
  <2> QED
    BY <2>1, <2>2
<1>14. RefsCountHolders'
  <2> SUFFICES ASSUME NEW p \in Queues
               PROVE  refs'[p] = Cardinality(Owners(p)') + Cardinality(Carriers(p)')
                                   + Cardinality(Drainers(p)')
                                   + (IF Linked(p)' THEN 1 ELSE 0)
    BY DEF RefsCountHolders
  <2>1. refs[p] = Cardinality(Owners(p)) + Cardinality(Carriers(p))
                    + Cardinality(Drainers(p)) + (IF Linked(p) THEN 1 ELSE 0)
    BY <1>1 DEF RefsCountHolders
  <2>2. Carriers(p) \in SUBSET Threads /\ Drainers(p) \in SUBSET Threads
    BY DEF Carriers, Drainers
  <2>3. CASE p = q
    <3>1. Cardinality(Carriers(p)') + Cardinality(Drainers(p)')
             = Cardinality(Carriers(p)) + Cardinality(Drainers(p))
      BY <1>11, <2>2, <2>3, CountMove
    <3>2. Cardinality(Carriers(p)') \in Nat /\ Cardinality(Drainers(p)') \in Nat
      BY <1>11, <2>2, <2>3, ThreadSetsFinite
    <3> QED
      BY <1>3, <1>11, <2>1, <2>3, <3>1, <3>2, HoldersFinite
  <2>4. CASE p # q
    BY <1>3, <1>11, <2>1, <2>4
  <2> QED
    BY <2>3, <2>4
<1>15. DestroyedUnreferenced'
  BY <1>1, <1>3, <1>10, <1>11 DEF DestroyedUnreferenced
<1> QED
  BY <1>8, <1>9, <1>12, <1>13, <1>14, <1>15 DEF Inv

(* ntt_queue_next: a list that becomes empty is scheduled by nobody.       *)
LEMMA QueueNextStep ==
    ASSUME Inv, NEW t \in Workers, QueueNext(t)
    PROVE  Inv'
<1> USE ThreadKinds
<1>1. /\ TypeOK /\ ControlOK /\ ScheduledOnce /\ RunsTheHead /\ RefsCountHolders
      /\ DestroyedUnreferenced
  BY DEF Inv
<1>2. PICK q \in Queues : /\ q = cur[t] /\ pc[t] = "run" /\ task[t] \in Tasks
                          /\ arg[t] \notin Queues
  BY <1>1, QueuesAssumption DEF QueueNext, ControlOK, ArgOK, WorkerOK
<1>3. Serving(t, q) /\ task_list[q] # <<>> /\ task[t] = Head(task_list[q])
  BY <1>1, <1>2, QueuesAssumption, TasksAssumption DEF Serving, RunsTheHead
<1> DEFINE rest == Popped(task_list[q])
<1>4. /\ UNCHANGED <<refs, free, combine, arg, cur, own>>
      /\ task_list' = [task_list EXCEPT ![q] = rest]
      /\ task' = [task EXCEPT ![t] = Front(rest)]
      /\ prev' = [prev EXCEPT ![t] = task[t]]
      /\ pc' = [pc EXCEPT ![t] = "drop"]
  BY <1>2 DEF QueueNext, avars
<1>5. /\ rest \in Seq(Tasks) /\ (Front(rest) = NoTask <=> rest = <<>>)
      /\ rest # <<>> => Front(rest) = Head(rest)
      /\ Front(rest) \in Tasks \cup {NoTask}
  BY <1>1, <1>3, PoppedList DEF TypeOK
<1> HIDE DEF rest
<1>6. /\ pc'[t] = "drop" /\ cur'[t] = q /\ task'[t] = Front(rest)
      /\ prev'[t] = task[t] /\ arg'[t] = arg[t] /\ own'[t] = own[t]
  BY <1>1, <1>2, <1>4 DEF TypeOK
<1>7. ASSUME NEW u \in Threads, u # t
      PROVE  /\ pc'[u] = pc[u] /\ cur'[u] = cur[u] /\ arg'[u] = arg[u]
             /\ own'[u] = own[u]
             /\ u \in Workers => task'[u] = task[u] /\ prev'[u] = prev[u]
  BY <1>1, <1>4, <1>7 DEF TypeOK
<1>8. ASSUME NEW p \in Queues
      PROVE  task_list'[p] = IF p = q THEN rest ELSE task_list[p]
  BY <1>1, <1>4 DEF TypeOK
<1>9. TypeOK'
  <2>1. pc' \in [Threads -> PCs]
    BY <1>1, <1>4 DEF TypeOK, PCs
  <2>2. task_list' \in [Queues -> Seq(Tasks)]
    <3>1. task_list \in [Queues -> Seq(Tasks)]
      BY <1>1 DEF TypeOK
    <3> QED
      BY <1>4, <1>5, <3>1
  <2>3. task' \in [Workers -> Tasks \cup {NoTask}]
    BY <1>1, <1>4, <1>5 DEF TypeOK
  <2>4. prev' \in [Workers -> Tasks \cup {NoTask}]
    BY <1>1, <1>2, <1>4 DEF TypeOK
  <2> QED
    BY <1>1, <1>4, <2>1, <2>2, <2>3, <2>4 DEF TypeOK, QueueNext, svars, avars
<1>10. ControlOK'
  <2>1. ArgOK(t)'
    BY <1>2, <1>6 DEF ArgOK
  <2>2. WorkerOK(t)'
    BY <1>2, <1>6, QueuesAssumption, TasksAssumption DEF WorkerOK
  <2> QED
    BY <1>1, <1>7, <2>1, <2>2, OthersControlled
<1>11. ASSUME NEW u \in Threads, NEW p \in Queues
       PROVE  /\ Linking(u, p)' <=> Linking(u, p)
              /\ u \in Workers => (Serving(u, p)' <=>
                                     Serving(u, p) /\ (u = t /\ p = q => rest # <<>>))
              /\ Carries(u, p)' <=> Carries(u, p)
              /\ Destroying(u, p)' <=> Destroying(u, p)
  <2>1. CASE u = t
    BY <1>2, <1>5, <1>6, <2>1, TasksAssumption
       DEF Linking, Serving, Carries, Destroying
  <2>2. CASE u # t
    BY <1>7, <2>2 DEF Linking, Serving, Carries, Destroying
  <2> QED
    BY <2>1, <2>2
<1>12. ASSUME NEW p \in Queues
       PROVE  /\ Owners(p)' = Owners(p) /\ Carriers(p)' = Carriers(p)
              /\ Drainers(p)' = Drainers(p)
              /\ Linked(p)' <=> Linked(p)
              /\ Unused(p)' <=> Unused(p)
  BY <1>4, <1>11 DEF Owners, Carriers, Drainers, Linked, Unused
<1>13. /\ ~Linked(q) /\ \A u \in Threads : Schedules(u, q) => u = t
       /\ \A u \in Threads : ~Linking(u, q)
  <2>1. Schedules(t, q)
    BY <1>3 DEF Schedules
  <2> QED
    BY <1>1, <1>3, <2>1 DEF ScheduledOnce, Schedules
<1>14. ScheduledOnce'
  <2>1. ASSUME NEW u \in Threads, NEW p \in Queues
        PROVE  Schedules(u, p)' <=> IF p = q THEN u = t /\ rest # <<>>
                                             ELSE Schedules(u, p)
    <3>1. CASE p = q /\ u = t
      BY <1>3, <1>11, <1>13, <3>1 DEF Schedules
    <3>2. CASE p = q /\ u # t
      BY <1>11, <1>13, <3>2 DEF Schedules
    <3>3. CASE p # q
      BY <1>11, <3>3 DEF Schedules
    <3> QED
      BY <3>1, <3>2, <3>3
  <2>2. ASSUME NEW p \in Queues
        PROVE  /\ task_list'[p] # <<>> <=>
                    Linked(p)' \/ \E u \in Threads : Schedules(u, p)'
               /\ \A u \in Threads : Schedules(u, p)' => ~Linked(p)'
               /\ \A u, v \in Threads : Schedules(u, p)' /\ Schedules(v, p)' => u = v
    <3>1. CASE p = q
      BY <1>8, <1>12, <1>13, <2>1, <3>1
    <3>2. CASE p # q
      BY <1>1, <1>8, <1>12, <2>1, <3>2 DEF ScheduledOnce
    <3> QED
      BY <3>1, <3>2
  <2>3. ASSUME NEW p \in Queues, NEW w \in Workers, Linking(w, p)', Serving(w, p)'
        PROVE  FALSE
    BY <1>1, <1>11, <2>3 DEF ScheduledOnce
  <2>4. \A i, j \in 1..Len(combine') : combine'[i] = combine'[j] => i = j
    BY <1>1, <1>4 DEF ScheduledOnce
  <2> QED
    BY <2>2, <2>3, <2>4 DEF ScheduledOnce
<1>15. RunsTheHead'
  <2> SUFFICES ASSUME NEW w \in Workers, cur'[w] # NoQueue, task'[w] # NoTask
               PROVE  /\ task_list'[cur'[w]] # <<>>
                      /\ task'[w] = Head(task_list'[cur'[w]])
    BY DEF RunsTheHead
  <2>1. CASE w = t
    BY <1>5, <1>6, <1>8, <2>1
  <2>2. CASE w # t
    <3>1. cur'[w] = cur[w] /\ task'[w] = task[w] /\ cur[w] \in Queues
      BY <1>1, <1>7, <2>2 DEF TypeOK
    <3>2. cur[w] # q
      BY <1>13, <2>2, <3>1 DEF Schedules, Serving
    <3>3. task_list[cur[w]] # <<>> /\ task[w] = Head(task_list[cur[w]])
      BY <1>1, <3>1 DEF RunsTheHead
    <3> QED
      BY <1>8, <3>1, <3>2, <3>3
  <2> QED
    BY <2>1, <2>2
<1>16. RefsCountHolders'
  BY <1>1, <1>4, <1>12 DEF RefsCountHolders
<1>17. DestroyedUnreferenced'
  BY <1>1, <1>4, <1>11, <1>12 DEF DestroyedUnreferenced
<1> QED
  BY <1>9, <1>10, <1>14, <1>15, <1>16, <1>17 DEF Inv

(* The end of a drain step; a drain that stops at its limit schedules the  *)
(* queue as a pusher does.                                                 *)
LEMMA DropTaskStep ==
    ASSUME Inv, NEW t \in Workers, DropTask(t)
    PROVE  Inv'
<1> USE ThreadKinds
<1>1. /\ TypeOK /\ ControlOK /\ ScheduledOnce /\ RunsTheHead /\ RefsCountHolders
      /\ DestroyedUnreferenced
  BY DEF Inv
<1>2. PICK q \in Queues : /\ q = cur[t] /\ pc[t] = "drop" /\ arg[t] = NoQueue
                          /\ prev[t] \in Tasks /\ own[t] = {}
                          /\ task[t] \in Tasks \cup {NoTask}
  BY <1>1 DEF DropTask, TypeOK, ControlOK, ArgOK, WorkerOK
<1>3. /\ UNCHANGED <<task_list, refs, free, combine, own>>
      /\ prev' = [prev EXCEPT ![t] = NoTask]
      /\ dropped' = dropped \cup {prev[t]}
  BY DEF DropTask, qvars, avars
<1>4. \/ /\ task[t] \in Tasks /\ pc' = [pc EXCEPT ![t] = "run"]
         /\ cur' = cur /\ arg' = arg /\ task' = task
         /\ \E n \in Nat : cnt' = [cnt EXCEPT ![t] = n]
      \/ /\ pc' = [pc EXCEPT ![t] = IF task[t] = NoTask THEN "release" ELSE "link"]
         /\ arg' = [arg EXCEPT ![t] = q] /\ cur' = [cur EXCEPT ![t] = NoQueue]
         /\ task' = [task EXCEPT ![t] = NoTask]
         /\ cnt' = [cnt EXCEPT ![t] = 0]
  <2>1. CASE task[t] # NoTask /\ ~LimitHit(t)
    <3>1. cnt[t] \in Nat
      BY <1>1 DEF TypeOK
    <3>2. cnt' = [cnt EXCEPT ![t] = IF Limit[t] = 0 THEN 0 ELSE cnt[t] + 1]
      BY <2>1 DEF DropTask
    <3>3. \E n \in Nat : cnt' = [cnt EXCEPT ![t] = n]
      <4>1. (IF Limit[t] = 0 THEN 0 ELSE cnt[t] + 1) \in Nat
        BY <3>1
      <4> HIDE DEF DropTask
      <4> QED
        BY <3>2, <4>1, Zenon
    <3>4. /\ task[t] \in Tasks /\ pc' = [pc EXCEPT ![t] = "run"]
          /\ cur' = cur /\ arg' = arg /\ task' = task
      BY <1>2, <2>1 DEF DropTask
    <3> QED
      BY <3>3, <3>4
  <2>2. CASE ~(task[t] # NoTask /\ ~LimitHit(t))
    BY <1>2, <2>2 DEF DropTask, DrainEnd
  <2> QED
    BY <2>1, <2>2
<1>5. TypeOK'
  <2>1. pc' \in [Threads -> PCs]
    BY <1>1, <1>4 DEF TypeOK, PCs
  <2>2. arg' \in [Threads -> Queues \cup {NoQueue}]
    <3>1. arg \in [Threads -> Queues \cup {NoQueue}]
      BY <1>1 DEF TypeOK
    <3> QED
      BY <1>4, <3>1
  <2>3. cur' \in [Threads -> Queues \cup {NoQueue}]
    <3>1. cur \in [Threads -> Queues \cup {NoQueue}]
      BY <1>1 DEF TypeOK
    <3> QED
      BY <1>4, <3>1
  <2>4. task' \in [Workers -> Tasks \cup {NoTask}]
    BY <1>1, <1>4 DEF TypeOK
  <2>5. prev' \in [Workers -> Tasks \cup {NoTask}] /\ dropped' \in SUBSET Tasks
    BY <1>1, <1>2, <1>3 DEF TypeOK
  <2>6. cnt' \in [Workers -> Nat]
    <3>1. cnt \in [Workers -> Nat]
      BY <1>1 DEF TypeOK
    <3> QED
      BY <1>4, <3>1
  <2> QED
    BY <1>1, <2>1, <2>2, <2>3, <2>4, <2>5, <2>6 DEF TypeOK, DropTask, qvars, svars, avars
<1>6. /\ \/ /\ task[t] \in Tasks /\ pc'[t] = "run" /\ task'[t] = task[t]
            /\ cur'[t] = q /\ arg'[t] = NoQueue
         \/ /\ pc'[t] = IF task[t] = NoTask THEN "release" ELSE "link"
            /\ arg'[t] = q /\ cur'[t] = NoQueue /\ task'[t] = NoTask
      /\ own'[t] = {} /\ prev'[t] = NoTask
  BY <1>1, <1>2, <1>3, <1>4 DEF TypeOK
<1>7. ASSUME NEW u \in Threads, u # t
      PROVE  /\ pc'[u] = pc[u] /\ cur'[u] = cur[u] /\ arg'[u] = arg[u]
             /\ own'[u] = own[u]
             /\ u \in Workers => task'[u] = task[u] /\ prev'[u] = prev[u]
  <2>1. pc'[u] = pc[u] /\ cur'[u] = cur[u] /\ arg'[u] = arg[u]
    BY <1>1, <1>4, <1>7 DEF TypeOK
  <2>2. u \in Workers => task'[u] = task[u] /\ prev'[u] = prev[u]
    BY <1>1, <1>3, <1>4, <1>7 DEF TypeOK
  <2> QED
    BY <1>3, <2>1, <2>2
<1>8. ControlOK'
  <2>1. ArgOK(t)'
    BY <1>2, <1>6, QueuesAssumption DEF ArgOK
  <2>2. WorkerOK(t)'
    BY <1>2, <1>6, QueuesAssumption, TasksAssumption DEF WorkerOK
  <2> QED
    BY <1>1, <1>7, <2>1, <2>2, OthersControlled
<1>9. ASSUME NEW u \in Threads, NEW p \in Queues
      PROVE  /\ Schedules(u, p)' <=> Schedules(u, p)
             /\ u \in Workers => ~(Linking(u, p)' /\ Serving(u, p)')
             /\ Carries(u, p)' <=> \/ Carries(u, p)
                                   \/ u = t /\ p = q /\ cur'[t] = NoQueue
             /\ cur'[u] = p <=> cur[u] = p /\ ~(u = t /\ p = q /\ cur'[t] = NoQueue)
             /\ Destroying(u, p)' <=> Destroying(u, p)
  <2>1. u \in Workers => ~(Linking(u, p) /\ Serving(u, p))
    BY <1>1 DEF ScheduledOnce
  <2>2. CASE u = t
    BY <1>2, <1>6, <2>2, QueuesAssumption, TasksAssumption
       DEF Linking, Serving, Schedules, Carries, Destroying
  <2>3. CASE u # t
    BY <1>7, <2>1, <2>3 DEF Linking, Serving, Schedules, Carries, Destroying
  <2> QED
    BY <2>2, <2>3
<1> DEFINE Ends == cur'[t] = NoQueue
<1>10. ASSUME NEW p \in Queues
       PROVE  /\ Owners(p)' = Owners(p)
              /\ Carriers(p)' = IF p = q /\ Ends THEN Carriers(p) \cup {t}
                                                 ELSE Carriers(p)
              /\ Drainers(p)' = IF p = q /\ Ends THEN Drainers(p) \ {t}
                                                 ELSE Drainers(p)
              /\ Linked(p)' <=> Linked(p)
              /\ p = q => t \in Drainers(p) /\ t \notin Carriers(p)
              /\ Unused(p)' <=> Unused(p)
  <2>1. Owners(p)' = Owners(p) /\ (Linked(p)' <=> Linked(p))
    BY <1>3 DEF Owners, Linked
  <2>2. Carriers(p)' = IF p = q /\ Ends THEN Carriers(p) \cup {t} ELSE Carriers(p)
    BY <1>9 DEF Carriers
  <2>3. Drainers(p)' = IF p = q /\ Ends THEN Drainers(p) \ {t} ELSE Drainers(p)
    BY <1>9 DEF Drainers
  <2>4. p = q => t \in Drainers(p) /\ t \notin Carriers(p)
    BY <1>2 DEF Carriers, Carries, Drainers
  <2> QED
    BY <2>1, <2>2, <2>3, <2>4 DEF Unused
<1>11. ScheduledOnce'
  BY <1>1, <1>3, <1>9, <1>10 DEF ScheduledOnce
<1>12. RunsTheHead'
  <2> SUFFICES ASSUME NEW w \in Workers, cur'[w] # NoQueue, task'[w] # NoTask
               PROVE  /\ task_list'[cur'[w]] # <<>>
                      /\ task'[w] = Head(task_list'[cur'[w]])
    BY DEF RunsTheHead
  <2>1. cur'[w] = cur[w] /\ task'[w] = task[w]
    BY <1>2, <1>6, <1>7
  <2> QED
    BY <1>1, <1>3, <2>1 DEF RunsTheHead
<1>13. RefsCountHolders'
  <2> SUFFICES ASSUME NEW p \in Queues
               PROVE  refs'[p] = Cardinality(Owners(p)') + Cardinality(Carriers(p)')
                                   + Cardinality(Drainers(p)')
                                   + (IF Linked(p)' THEN 1 ELSE 0)
    BY DEF RefsCountHolders
  <2>1. refs[p] = Cardinality(Owners(p)) + Cardinality(Carriers(p))
                    + Cardinality(Drainers(p)) + (IF Linked(p) THEN 1 ELSE 0)
    BY <1>1 DEF RefsCountHolders
  <2>2. Carriers(p) \in SUBSET Threads /\ Drainers(p) \in SUBSET Threads
    BY DEF Carriers, Drainers
  <2>3. CASE p = q /\ Ends
    <3>1. Cardinality(Carriers(p)') + Cardinality(Drainers(p)')
             = Cardinality(Carriers(p)) + Cardinality(Drainers(p))
      <4>1. Cardinality(Drainers(p) \ {t}) + Cardinality(Carriers(p) \cup {t})
               = Cardinality(Drainers(p)) + Cardinality(Carriers(p))
        BY <1>10, <2>2, <2>3, CountMove
      <4>2. /\ Cardinality(Drainers(p) \ {t}) \in Nat
            /\ Cardinality(Carriers(p) \cup {t}) \in Nat
        BY <2>2, ThreadSetsFinite
      <4>3. Carriers(p)' = Carriers(p) \cup {t} /\ Drainers(p)' = Drainers(p) \ {t}
        BY <1>10, <2>3
      <4>4. Cardinality(Carriers(p)) \in Nat /\ Cardinality(Drainers(p)) \in Nat
        BY HoldersFinite
      <4> HIDE DEF Ends
      <4> QED
        BY <4>1, <4>2, <4>3, <4>4, SMTT(30)
    <3>2. Cardinality(Carriers(p)') \in Nat /\ Cardinality(Drainers(p)') \in Nat
      <4>1. Carriers(p)' \in SUBSET Threads /\ Drainers(p)' \in SUBSET Threads
        BY DEF Carriers, Drainers
      <4> QED
        BY <4>1, ThreadSetsFinite
    <3> QED
      BY <1>3, <1>10, <2>1, <2>3, <3>1, <3>2, HoldersFinite
  <2>4. CASE ~(p = q /\ Ends)
    BY <1>3, <1>10, <2>1, <2>4
  <2> QED
    BY <2>3, <2>4
<1>14. DestroyedUnreferenced'
  BY <1>1, <1>3, <1>9, <1>10 DEF DestroyedUnreferenced
<1> QED
  BY <1>5, <1>8, <1>11, <1>12, <1>13, <1>14 DEF Inv

-----------------------------------------------------------------------------
(* The invariant holds when the workers start.                             *)
LEMMA InitInv == Init => Inv
<1> SUFFICES ASSUME Init PROVE Inv
  OBVIOUS
<1> USE ThreadKinds, QueuesAssumption, TasksAssumption
<1>1. TypeOK
  <2>1. task_list \in [Queues -> Seq(Tasks)] /\ combine \in Seq(Queues)
    BY DEF Init
  <2>2. refs \in [Queues -> Int] /\ free \in SUBSET Queues
    BY DEF Init
  <2>3. freed \in BOOLEAN
    BY DEF Init
  <2>4. eventfd \in Nat /\ work_cnt \in Int /\ creates \in 0..MaxCreates
    BY BoundsAssumption DEF Init
  <2>5. /\ pc \in [Threads -> PCs]
        /\ arg \in [Threads -> Queues \cup {NoQueue}]
        /\ cur \in [Threads -> Queues \cup {NoQueue}]
        /\ own \in [Threads -> SUBSET Queues]
    BY DEF Init, PCs
  <2>6. /\ task \in [Workers -> Tasks \cup {NoTask}]
        /\ prev \in [Workers -> Tasks \cup {NoTask}]
        /\ cnt \in [Workers -> Nat] /\ stop_idx \in [Threads -> Workers]
        /\ stopping \in SUBSET Workers
        /\ fresh \in SUBSET Tasks /\ dropped \in SUBSET Tasks
    BY DEF Init
  <2> QED
    BY <2>1, <2>2, <2>3, <2>4, <2>5, <2>6 DEF TypeOK
<1>2. ControlOK
  BY DEF Init, ControlOK, ArgOK, ExternalOK, WorkerOK
<1>3. ASSUME NEW q \in Queues, NEW t \in Threads
      PROVE  /\ ~Linking(t, q) /\ ~Carries(t, q) /\ ~Destroying(t, q)
             /\ t \in Workers => ~Serving(t, q)
             /\ ~Schedules(t, q)
  BY DEF Init, Linking, Carries, Destroying, Serving, Schedules
<1>4. ASSUME NEW q \in Queues
      PROVE  /\ Linked(q) <=> q = InitQueue
             /\ Owners(q) = {} /\ Carriers(q) = {} /\ Drainers(q) = {}
  BY <1>3 DEF Init, Linked, Owners, Carriers, Drainers
<1>5. ScheduledOnce
  <2>1. \A q \in Queues : task_list[q] # <<>> <=> q = InitQueue
    BY DEF Init
  <2>2. \A i, j \in 1..Len(combine) : combine[i] = combine[j] => i = j
    BY DEF Init
  <2> QED
    BY <1>3, <1>4, <2>1, <2>2 DEF ScheduledOnce
<1>6. RunsTheHead
  BY DEF Init, RunsTheHead
<1>7. RefsCountHolders
  <2>1. Cardinality({}) = 0
    BY FS_EmptySet
  <2>2. ASSUME NEW q \in Queues
        PROVE  refs[q] = IF Linked(q) THEN 1 ELSE 0
    BY <1>4 DEF Init
  <2>3. ASSUME NEW q \in Queues
        PROVE  refs[q] = Cardinality(Owners(q)) + Cardinality(Carriers(q))
                           + Cardinality(Drainers(q)) + (IF Linked(q) THEN 1 ELSE 0)
    <3>1. Owners(q) = {} /\ Carriers(q) = {} /\ Drainers(q) = {}
      BY <1>4
    <3> QED
      BY <2>1, <2>2, <3>1
  <2> QED
    BY <2>3 DEF RefsCountHolders
<1>8. DestroyedUnreferenced
  BY <1>3, <1>4 DEF Init, DestroyedUnreferenced, Unused
<1> QED
  BY <1>1, <1>2, <1>5, <1>6, <1>7, <1>8 DEF Inv

(* Every step keeps the invariant.                                         *)
LEMMA NextInv == Inv /\ [Next]_vars => Inv'
<1> SUFFICES ASSUME Inv, [Next]_vars PROVE Inv'
  OBVIOUS
<1> USE ThreadKinds
<1>1. ASSUME NEW t \in Threads, Application(t) PROVE Inv'
  BY <1>1, PushTaskStep, ReleaseQueueStep DEF Application
<1>2. ASSUME NEW t \in Threads, Call(t) PROVE Inv'
  BY <1>2, AcquireForLinkStep, CombinePushStep, CombineWakeupStep, GiveQueueStep,
     WorkLeaveStep, CopyWorkersStep, StopWorkerStep DEF Call
<1>3. ASSUME NEW w \in Workers, Worker(w) PROVE Inv'
  BY <1>3, TryTakeStep, SvcBeginStep, QueueNextStep, DropTaskStep, SvcReleaseStep,
     SleepStep DEF Worker
<1>4. ASSUME NEW w \in Workers, NEW q \in Queues, CreateQueue(w, q) PROVE Inv'
  BY <1>4, CreateQueueStep
<1>5. ASSUME NEW w \in Workers, NEW e \in Externals, NEW q \in Queues,
             ShareQueue(w, e, q)
      PROVE  Inv'
  BY <1>5, ShareQueueStep
<1>6. CASE DestroyLoop \/ Terminated \/ UNCHANGED vars
  BY <1>6, EndStep
<1> QED
  BY <1>1, <1>2, <1>3, <1>4, <1>5, <1>6 DEF Next

(* The invariant holds in every reachable state.                           *)
LEMMA Invariance == Spec => []Inv
  BY InitInv, NextInv, PTL DEF Spec

(* The variables of the execution core never leave their types: no task    *)
(* pointer is read off an empty list and no counter below zero is stored   *)
(* in the eventfd.                                                         *)
THEOREM TypeCorrect == Spec => []TypeOK
<1>1. Inv => TypeOK
  BY DEF Inv
<1> QED
  BY <1>1, Invariance, PTL

(* ntt_queue_push_task and ntt_queue_svc schedule a queue with tasks from  *)
(* exactly one place and an empty one from none: its tasks never overlap   *)
(* and none is forgotten.                                                  *)
THEOREM SchedulesOnce == Spec => []ScheduledOnce
<1>1. Inv => ScheduledOnce
  BY DEF Inv
<1> QED
  BY <1>1, Invariance, PTL

(* ntt_queue_svc runs, through its local pointer, the head of the list.    *)
THEOREM AlwaysRunsTheHead == Spec => []RunsTheHead
<1>1. Inv => RunsTheHead
  BY DEF Inv
<1> QED
  BY <1>1, Invariance, PTL

(* external_refs equals the number of holders of the queue.                *)
THEOREM RefsAreExact == Spec => []RefsCountHolders
<1>1. Inv => RefsCountHolders
  BY DEF Inv
<1> QED
  BY <1>1, Invariance, PTL

(* The asserts of ntt_queue_deinit hold whenever ntt_queue_release reaches *)
(* it, and it is reached once per life of a queue.                         *)
THEOREM DestroysUnused == Spec => []DestroyedUnused
<1>1. Inv => DestroyedUnused
  <2> SUFFICES ASSUME Inv PROVE DestroyedUnused
    OBVIOUS
  <2>1. \A q \in Queues : Unused(q) => task_list[q] = <<>>
    BY UnusedIsEmpty DEF Inv
  <2> QED
    BY <2>1 DEF Inv, DestroyedUnreferenced, DestroyedUnused, Unused
<1> QED
  BY <1>1, Invariance, PTL

-----------------------------------------------------------------------------
(* A step of one thread keeps NoLostWakeup if it neither links a queue,    *)
(* writes the eventfd nor puts a worker to sleep.                          *)
LEMMA AwakeStep ==
    ASSUME TypeOK, NoLostWakeup, NEW t \in Threads, NEW pt,
           pc' = [pc EXCEPT ![t] = pt], UNCHANGED <<combine, eventfd>>,
           pc[t] # "wake",
           t \in Workers => pt \notin {"wait", "left"} \/ pc[t] \in {"wait", "left"}
    PROVE  NoLostWakeup'
  BY ThreadKinds DEF TypeOK, NoLostWakeup

(* Every step keeps NoLostWakeup.                                          *)
LEMMA NextWakeup == Inv /\ NoLostWakeup /\ [Next]_vars => NoLostWakeup'
<1> SUFFICES ASSUME Inv, NoLostWakeup, [Next]_vars PROVE NoLostWakeup'
  OBVIOUS
<1> USE ThreadKinds
<1>0. TypeOK /\ ControlOK /\ pc \in [Threads -> PCs] /\ eventfd \in Nat
  BY DEF Inv, TypeOK
<1>s. UNCHANGED <<pc, combine, eventfd>> => NoLostWakeup'
  BY DEF NoLostWakeup
<1>1. ASSUME NEW t \in Threads, NEW q \in Queues, NEW k \in Tasks, PushTask(t, q, k)
      PROVE  NoLostWakeup'
  <2>1. /\ UNCHANGED <<combine, eventfd>> /\ pc[t] # "wake"
        /\ pc' = pc \/ pc' = [pc EXCEPT ![t] = "acquire"]
    BY <1>1 DEF PushTask, InApplication, InCallback
  <2> QED
    BY <1>0, <1>s, <2>1, AwakeStep
<1>2. ASSUME NEW t \in Threads, NEW q \in Queues, ReleaseQueue(t, q)
      PROVE  NoLostWakeup'
  <2>1. /\ UNCHANGED <<combine, eventfd>> /\ pc[t] # "wake"
        /\ pc' = [pc EXCEPT ![t] = "give"] \/ pc' = [pc EXCEPT ![t] = Return(t)]
    BY <1>2 DEF ReleaseQueue, DropReference, InApplication, InCallback
  <2> QED
    BY <1>0, <2>1, AwakeStep, Returns
<1>3. ASSUME NEW t \in Threads, CombinePush(t)
      PROVE  NoLostWakeup'
  <2>1. /\ pc[t] = "link" /\ eventfd' = eventfd
        /\ pc' = [pc EXCEPT ![t] = IF combine = <<>> THEN "wake" ELSE "nowake"]
    BY <1>3 DEF CombinePush, WasEmpty
  <2>2. CASE t \in Workers
    BY <1>0, <2>1, <2>2 DEF NoLostWakeup
  <2>3. CASE t \in Externals /\ combine = <<>>
    BY <1>0, <2>1, <2>3 DEF NoLostWakeup
  <2>4. CASE t \in Externals /\ combine # <<>>
    BY <1>0, <2>1, <2>4 DEF NoLostWakeup
  <2> QED
    BY <2>2, <2>3, <2>4
<1>4. ASSUME NEW t \in Threads, CombineWakeup(t)
      PROVE  NoLostWakeup'
  <2>1. /\ pc[t] \in {"wake", "nowake"} /\ combine' = combine
        /\ eventfd' = IF pc[t] = "wake" /\ t \in Externals THEN eventfd + 1 ELSE eventfd
        /\ pc' = [pc EXCEPT ![t] = Return(t)]
    BY <1>4 DEF CombineWakeup, WritesEventfd
  <2>2. CASE t \in Workers
    BY <1>0, <2>1, <2>2, Returns DEF NoLostWakeup
  <2>3. CASE t \in Externals
    BY <1>0, <2>1, <2>3, Returns DEF NoLostWakeup
  <2> QED
    BY <2>2, <2>3
<1>5. ASSUME NEW t \in Threads,
             AcquireForLink(t) \/ GiveQueue(t) \/ WorkLeave(t) \/ CopyWorkers(t)
      PROVE  NoLostWakeup'
  <2>1. /\ UNCHANGED <<combine, eventfd>> /\ pc[t] # "wake"
        /\ \E pt \in {"link", "leave", "copy", "stop", Return(t)} :
              pc' = [pc EXCEPT ![t] = pt]
    BY <1>5 DEF AcquireForLink, GiveQueue, WorkLeave, CopyWorkers, qvars
  <2> QED
    BY <1>0, <2>1, AwakeStep, Returns
<1>6. ASSUME NEW t \in Threads, StopWorker(t)
      PROVE  NoLostWakeup'
  <2>1. /\ UNCHANGED <<combine, eventfd>> /\ pc[t] # "wake"
        /\ pc' = pc \/ pc' = [pc EXCEPT ![t] = Return(t)]
    BY <1>6 DEF StopWorker, qvars
  <2> QED
    BY <1>0, <1>s, <2>1, AwakeStep, Returns
<1>7. ASSUME NEW w \in Workers, TryTake(w)
      PROVE  NoLostWakeup'
  <2>1. /\ eventfd' = eventfd /\ pc[w] = "take"
        /\ \/ combine' = <<>>
           \/ pc' = [pc EXCEPT ![w] = "svc"]
    BY <1>7 DEF TryTake
  <2> QED
    BY <1>0, <2>1 DEF NoLostWakeup
<1>8. ASSUME NEW w \in Workers, SvcBegin(w) \/ QueueNext(w) \/ DropTask(w) \/ SvcRelease(w)
      PROVE  NoLostWakeup'
  <2>1. /\ UNCHANGED <<combine, eventfd>> /\ pc[w] # "wake"
        /\ \E pt \in {"run", "drop", "release", "link", "give", Return(w)} :
              pc' = [pc EXCEPT ![w] = pt]
    BY <1>8 DEF SvcBegin, QueueNext, DropTask, DrainEnd, SvcRelease, DropReference, qvars
  <2> QED
    BY <1>0, <2>1, AwakeStep, Returns
<1>9. ASSUME NEW w \in Workers, WaitReturns(w) \/ WaitInterrupted(w)
      PROVE  NoLostWakeup'
  <2>1. /\ UNCHANGED <<combine, eventfd>> /\ pc[w] = "wait"
        /\ pc' = [pc EXCEPT ![w] = "ready"] \/ pc' = [pc EXCEPT ![w] = "left"]
    BY <1>9 DEF WaitReturns, WaitInterrupted
  <2> QED
    BY <1>0, <2>1, AwakeStep
<1>10. ASSUME NEW w \in Workers, ReadEventfd(w)
       PROVE  NoLostWakeup'
  BY <1>0, <1>10 DEF ReadEventfd, NoLostWakeup
<1>11. ASSUME NEW w \in Workers, NEW q \in Queues,
              CreateQueue(w, q) \/ \E e \in Externals : ShareQueue(w, e, q)
       PROVE  NoLostWakeup'
  BY <1>s, <1>11 DEF CreateQueue, ShareQueue
<1>12. CASE DestroyLoop \/ Terminated \/ UNCHANGED vars
  BY <1>s, <1>12 DEF DestroyLoop, Terminated, vars
<1> QED
  BY <1>1, <1>2, <1>3, <1>4, <1>5, <1>6, <1>7, <1>8, <1>9, <1>10, <1>11, <1>12
     DEF Next, Application, Call, Worker

(* A linked queue never waits for nothing: although a push by a worker     *)
(* writes no eventfd and several workers read the same count, the combine  *)
(* is not left non empty with every worker asleep and no wakeup due.       *)
THEOREM WakesUp == Spec => []NoLostWakeup
<1>1. Init => NoLostWakeup
  BY ThreadKinds DEF Init, NoLostWakeup
<1> QED
  BY <1>1, NextWakeup, Invariance, PTL DEF Spec

-----------------------------------------------------------------------------
(* On top of the invariant: tasks are destroyed once, the loop ends once   *)
(* and unused, and its queues implement the serial queues of SerialQueue.  *)

(* A task is in one place: not pushed yet, at one position of one list, in *)
(* the hands of the one worker that destroys it, or destroyed.             *)
Listed(k) == \E q \in Queues : \E i \in 1..Len(task_list[q]) : task_list[q][i] = k

TasksOnce ==
    /\ \A k \in Tasks : Listed(k) => k \notin fresh /\ k \notin dropped
    /\ \A q, p \in Queues :
          \A i \in 1..Len(task_list[q]), j \in 1..Len(task_list[p]) :
             task_list[q][i] = task_list[p][j] => q = p /\ i = j
    /\ \A w \in Workers : prev[w] # NoTask =>
          /\ prev[w] \notin fresh /\ prev[w] \notin dropped /\ ~Listed(prev[w])
          /\ \A v \in Workers : prev[v] = prev[w] => v = w
    /\ \A k \in dropped : k \notin fresh

-----------------------------------------------------------------------------
(* Pushing adds one task to one list, at its end.                          *)
LEMMA PushedPositions ==
    ASSUME NEW s \in Seq(Tasks), NEW k \in Tasks
    PROVE  /\ Len(s) \in Nat /\ Len(Pushed(s, k)) = Len(s) + 1
           /\ \A i \in 1..Len(s) : Pushed(s, k)[i] = s[i]
           /\ Pushed(s, k)[Len(s) + 1] = k
  BY AppendProperties, LenProperties DEF Pushed

(* ntt_queue_next takes the first one away.                                *)
LEMMA PoppedPositions ==
    ASSUME NEW s \in Seq(Tasks), s # <<>>
    PROVE  /\ Len(s) \in Nat /\ Len(s) > 0 /\ Len(Popped(s)) = Len(s) - 1
           /\ \A i \in 1..Len(Popped(s)) : Popped(s)[i] = s[i + 1]
           /\ Head(s) = s[1]
  BY HeadTailProperties, EmptySeq DEF Popped

(* A step that leaves tasks where they are.                                *)
LEMMA TasksStay ==
    ASSUME TasksOnce, UNCHANGED <<task_list, prev, fresh, dropped>>
    PROVE  TasksOnce'
  BY DEF TasksOnce, Listed

(* ntt_queue_push_task moves a task into a list.                           *)
LEMMA PushTaskOnce ==
    ASSUME Inv, TasksOnce, NEW t \in Threads, NEW q \in Queues, NEW k \in Tasks,
           PushTask(t, q, k)
    PROVE  TasksOnce'
<1>1. /\ task_list \in [Queues -> Seq(Tasks)] /\ fresh \in SUBSET Tasks
      /\ dropped \in SUBSET Tasks /\ prev \in [Workers -> Tasks \cup {NoTask}]
  BY DEF Inv, TypeOK
<1>2. /\ task_list' = [task_list EXCEPT ![q] = Pushed(@, k)]
      /\ k \in fresh /\ fresh' = fresh \ {k}
      /\ UNCHANGED <<prev, dropped>>
  BY DEF PushTask, wvars
<1>3. /\ task_list'[q] = Pushed(task_list[q], k)
      /\ \A p \in Queues \ {q} : task_list'[p] = task_list[p]
  BY <1>1, <1>2
<1>4. /\ Len(task_list[q]) \in Nat /\ Len(task_list'[q]) = Len(task_list[q]) + 1
      /\ \A i \in 1..Len(task_list[q]) : task_list'[q][i] = task_list[q][i]
      /\ task_list'[q][Len(task_list[q]) + 1] = k
  <2>1. task_list[q] \in Seq(Tasks)
    BY <1>1
  <2> QED
    BY <1>3, <2>1, PushedPositions
<1>5. ASSUME NEW p \in Queues, NEW i \in 1..Len(task_list'[p])
      PROVE  \/ i \in 1..Len(task_list[p]) /\ task_list'[p][i] = task_list[p][i]
             \/ p = q /\ i = Len(task_list[q]) + 1 /\ task_list'[p][i] = k
  <2>1. CASE p # q
    BY <1>3, <2>1
  <2>2. CASE p = q
    <3>1. i \in 1..Len(task_list[q]) \/ i = Len(task_list[q]) + 1
      BY <1>4, <2>2
    <3> QED
      BY <1>4, <2>2, <3>1
  <2> QED
    BY <2>1, <2>2
<1>6. ~Listed(k) /\ k \notin dropped /\ \A w \in Workers : prev[w] # k
  BY <1>2, TasksAssumption DEF TasksOnce
<1>7. ASSUME NEW x PROVE Listed(x)' => Listed(x) \/ x = k
  BY <1>5 DEF Listed
<1>8. ASSUME NEW r \in Queues, NEW p \in Queues,
             NEW i \in 1..Len(task_list'[r]), NEW j \in 1..Len(task_list'[p]),
             task_list'[r][i] = task_list'[p][j]
      PROVE  r = p /\ i = j
  <2>1. ASSUME NEW a \in Queues, NEW b \in 1..Len(task_list[a])
        PROVE  task_list[a][b] # k
    BY <1>6 DEF Listed
  <2> QED
    BY <1>5, <1>8, <2>1, SMTT(30) DEF TasksOnce
<1> QED
  BY <1>1, <1>2, <1>6, <1>7, <1>8 DEF TasksOnce

(* ntt_queue_next moves the head of a list into the hands of its worker.   *)
LEMMA QueueNextOnce ==
    ASSUME Inv, TasksOnce, NEW w \in Workers, QueueNext(w)
    PROVE  TasksOnce'
<1>1. /\ task_list \in [Queues -> Seq(Tasks)] /\ fresh \in SUBSET Tasks
      /\ dropped \in SUBSET Tasks /\ prev \in [Workers -> Tasks \cup {NoTask}]
  BY DEF Inv, TypeOK
<1>2. PICK q \in Queues : q = cur[w] /\ task[w] \in Tasks
  BY QueuesAssumption DEF Inv, ControlOK, WorkerOK, QueueNext
<1>3. task_list[q] # <<>> /\ task[w] = Head(task_list[q])
  BY <1>2, QueuesAssumption, TasksAssumption DEF Inv, RunsTheHead
<1>4. /\ task_list' = [task_list EXCEPT ![q] = Popped(@)]
      /\ prev' = [prev EXCEPT ![w] = task[w]]
      /\ UNCHANGED <<fresh, dropped>>
  BY <1>2 DEF QueueNext, avars
<1>5. /\ task_list'[q] = Popped(task_list[q])
      /\ \A p \in Queues \ {q} : task_list'[p] = task_list[p]
  BY <1>1, <1>4
<1>6. /\ Len(task_list[q]) \in Nat /\ Len(task_list[q]) > 0
      /\ Len(task_list'[q]) = Len(task_list[q]) - 1
      /\ \A i \in 1..Len(task_list'[q]) : task_list'[q][i] = task_list[q][i + 1]
      /\ task[w] = task_list[q][1]
  <2>1. task_list[q] \in Seq(Tasks)
    BY <1>1
  <2> QED
    BY <1>3, <1>5, <2>1, PoppedPositions
<1>7. 1 \in 1..Len(task_list[q])
  BY <1>6
<1>8. ASSUME NEW p \in Queues, NEW i \in 1..Len(task_list'[p])
      PROVE  \/ p # q /\ i \in 1..Len(task_list[p]) /\ task_list'[p][i] = task_list[p][i]
             \/ /\ p = q /\ i + 1 \in 1..Len(task_list[p]) /\ i + 1 # 1
                /\ task_list'[p][i] = task_list[p][i + 1]
  <2>1. CASE p # q
    BY <1>5, <2>1
  <2>2. CASE p = q
    BY <1>6, <2>2
  <2> QED
    BY <2>1, <2>2
<1>9. ASSUME NEW x PROVE Listed(x)' => Listed(x) /\ x # task[w]
  <2> SUFFICES ASSUME NEW p \in Queues, NEW i \in 1..Len(task_list'[p]),
                      task_list'[p][i] = x
               PROVE  Listed(x) /\ x # task[w]
    BY DEF Listed
  <2>1. PICK j \in 1..Len(task_list[p]) : /\ task_list[p][j] = x
                                          /\ p = q => j # 1
    BY <1>8
  <2> QED
    BY <1>6, <1>7, <2>1 DEF Listed, TasksOnce
<1>10. Listed(task[w])
  BY <1>6, <1>7 DEF Listed
<1>11. ASSUME NEW r \in Queues, NEW p \in Queues,
              NEW i \in 1..Len(task_list'[r]), NEW j \in 1..Len(task_list'[p]),
              task_list'[r][i] = task_list'[p][j]
       PROVE  r = p /\ i = j
  <2>1. i \in Int /\ j \in Int
    OBVIOUS
  <2>2. CASE r = q /\ p = q
    <3>1. /\ i + 1 \in 1..Len(task_list[q]) /\ task_list'[r][i] = task_list[q][i + 1]
          /\ j + 1 \in 1..Len(task_list[q]) /\ task_list'[p][j] = task_list[q][j + 1]
      BY <1>8, <2>2
    <3>2. \A a, b \in 1..Len(task_list[q]) : task_list[q][a] = task_list[q][b] => a = b
      BY DEF TasksOnce
    <3>3. task_list[q][i + 1] = task_list[q][j + 1]
      BY <1>11, <3>1
    <3>4. i + 1 = j + 1
      BY <3>1, <3>2, <3>3
    <3> QED
      BY <2>1, <2>2, <3>4
  <2>3. CASE r # q \/ p # q
    BY <1>8, <1>11, <2>3, SMTT(30) DEF TasksOnce
  <2> QED
    BY <2>2, <2>3
<1>12. ASSUME NEW v \in Workers, NEW x, x = prev'[v], x # NoTask
       PROVE  /\ x \notin fresh' /\ x \notin dropped' /\ ~Listed(x)'
              /\ \A u \in Workers : prev'[u] = x => u = v
  <2>1. \A u \in Workers : prev'[u] = IF u = w THEN task[w] ELSE prev[u]
    BY <1>1, <1>4
  <2>2. \A u \in Workers : prev[u] # task[w]
    BY <1>2, <1>10, TasksAssumption DEF TasksOnce
  <2>3. CASE v = w
    BY <1>2, <1>4, <1>9, <1>10, <1>12, <2>1, <2>2, <2>3 DEF TasksOnce
  <2>4. CASE v # w
    BY <1>4, <1>9, <1>12, <2>1, <2>2, <2>4 DEF TasksOnce
  <2> QED
    BY <2>3, <2>4
<1> QED
  BY <1>4, <1>9, <1>11, <1>12 DEF TasksOnce, Listed

(* ntt_task_destroy.                                                       *)
LEMMA DropTaskOnce ==
    ASSUME Inv, TasksOnce, NEW w \in Workers, DropTask(w)
    PROVE  TasksOnce'
<1>1. /\ prev \in [Workers -> Tasks \cup {NoTask}]
      /\ prev[w] \in Tasks /\ prev[w] # NoTask
  BY TasksAssumption DEF Inv, TypeOK, ControlOK, WorkerOK, DropTask
<1>2. /\ UNCHANGED <<task_list, fresh>>
      /\ dropped' = dropped \cup {prev[w]}
      /\ \A u \in Workers : prev'[u] = IF u = w THEN NoTask ELSE prev[u]
  BY <1>1 DEF DropTask, qvars, avars
<1>3. \A x : Listed(x)' <=> Listed(x)
  BY <1>2 DEF Listed
<1> QED
  BY <1>1, <1>2, <1>3 DEF TasksOnce

(* ntt_queue_create initialises the list of a queue that was unused.       *)
LEMMA CreateQueueOnce ==
    ASSUME Inv, TasksOnce, NEW w \in Workers, NEW q \in Queues, CreateQueue(w, q)
    PROVE  TasksOnce'
<1>1. task_list \in [Queues -> Seq(Tasks)]
  BY DEF Inv, TypeOK
<1>2. task_list[q] = <<>>
  BY UnusedIsEmpty DEF CreateQueue, Inv, DestroyedUnreferenced
<1>3. task_list' = task_list
  BY <1>1, <1>2 DEF CreateQueue
<1> QED
  BY <1>3, TasksStay DEF CreateQueue, wvars

(* Every step keeps tasks in one place.                                    *)
LEMMA NextTasksOnce == Inv /\ TasksOnce /\ [Next]_vars => TasksOnce'
<1> SUFFICES ASSUME Inv, TasksOnce, [Next]_vars PROVE TasksOnce'
  OBVIOUS
<1>1. ASSUME NEW t \in Threads, Call(t) PROVE TasksOnce'
  BY <1>1, TasksStay DEF Call, AcquireForLink, CombinePush, CombineWakeup,
     GiveQueue, WorkLeave, CopyWorkers, StopWorker, qvars, wvars, avars
<1>2. ASSUME NEW t \in Threads, NEW q \in Queues, ReleaseQueue(t, q)
      PROVE  TasksOnce'
  BY <1>2, TasksStay DEF ReleaseQueue, wvars
<1>3. ASSUME NEW w \in Workers, Worker(w) PROVE TasksOnce'
  <2>1. CASE QueueNext(w)
    BY <2>1, QueueNextOnce
  <2>2. CASE DropTask(w)
    BY <2>2, DropTaskOnce
  <2>3. CASE TryTake(w) \/ SvcBegin(w) \/ SvcRelease(w) \/ WaitReturns(w)
               \/ ReadEventfd(w) \/ WaitInterrupted(w)
    BY <2>3, TasksStay DEF TryTake, SvcBegin, SvcRelease, WaitReturns,
       ReadEventfd, WaitInterrupted, qvars, wvars, avars
  <2> QED
    BY <1>3, <2>1, <2>2, <2>3 DEF Worker
<1>4. ASSUME NEW w \in Workers, NEW e \in Externals, NEW q \in Queues,
             ShareQueue(w, e, q)
      PROVE  TasksOnce'
  BY <1>4, TasksStay DEF ShareQueue, wvars
<1>5. CASE DestroyLoop \/ Terminated \/ UNCHANGED vars
  BY <1>5, TasksStay DEF DestroyLoop, Terminated, vars, qvars, wvars, avars
<1> QED
  BY <1>1, <1>2, <1>3, <1>4, <1>5, PushTaskOnce, CreateQueueOnce
     DEF Next, Application

(* A task is destroyed once, and not while any list, any body or any other *)
(* worker still has it, although ntt_task_destroy of one task overlaps the *)
(* next run of the same queue on another worker.                           *)
THEOREM DestroysTasksOnce == Spec => []TaskDestroyedOnce
<1>1. Init => TasksOnce
  <2> SUFFICES ASSUME Init PROVE TasksOnce
    OBVIOUS
  <2>1. ASSUME NEW q \in Queues, NEW i \in 1..Len(task_list[q])
        PROVE  q = InitQueue /\ i = 1 /\ task_list[q][i] = InitTask
    BY <2>1 DEF Init
  <2> QED
    BY <2>1, TasksAssumption DEF Init, TasksOnce, Listed
<1>2. Inv /\ TasksOnce => TaskDestroyedOnce
  <2> SUFFICES ASSUME Inv, TasksOnce, NEW w \in Workers, prev[w] # NoTask
               PROVE  /\ prev[w] \notin dropped
                      /\ ~Listed(prev[w])
                      /\ \A v \in Workers : /\ task[v] # prev[w]
                                            /\ v # w => prev[v] # prev[w]
    BY DEF TaskDestroyedOnce, Listed
  <2>1. prev[w] \in Tasks /\ prev[w] # NoTask
    BY DEF Inv, TypeOK
  <2>2. prev[w] \notin dropped /\ ~Listed(prev[w])
    BY <2>1 DEF TasksOnce
  <2>3. \A v \in Workers : v # w => prev[v] # prev[w]
    BY <2>1 DEF TasksOnce
  <2>4. ASSUME NEW v \in Workers, task[v] = prev[w] PROVE FALSE
    <3>1. cur[v] \in Queues
      BY <2>1, <2>4, ThreadKinds DEF Inv, TypeOK, ControlOK, WorkerOK
    <3>2. task_list[cur[v]] # <<>> /\ prev[w] = Head(task_list[cur[v]])
      BY <2>1, <2>4, <3>1, QueuesAssumption DEF Inv, RunsTheHead
    <3>3. task_list[cur[v]] \in Seq(Tasks)
      BY <3>1 DEF Inv, TypeOK
    <3>4. 1 \in 1..Len(task_list[cur[v]]) /\ task_list[cur[v]][1] = prev[w]
      BY <3>2, <3>3, PoppedPositions
    <3> QED
      BY <2>2, <3>1, <3>4 DEF Listed
  <2> QED
    BY <2>2, <2>3, <2>4
<1> QED
  BY <1>1, <1>2, NextTasksOnce, Invariance, PTL DEF Spec

-----------------------------------------------------------------------------
(* The inductive invariant about the end of the loop: the work count, who  *)
(* stops the workers and how far that is, that a worker leaves only when   *)
(* it was stopped and the loop is freed only when all have left, and that  *)
(* an external thread inside a push keeps a reference of the application,  *)
(* which keeps the loop.                                                   *)
Leaving == {t \in Threads : pc[t] = "leave"}
Existing == Queues \ free

EndInv ==
    /\ work_cnt = Cardinality(Existing) + Cardinality(Leaving)
    /\ \A t \in Threads : pc[t] \in {"copy", "stop"} => work_cnt = 0
    /\ stopping # {} => work_cnt = 0
    /\ \A t \in Threads : pc[t] = "copy" => stopping = {}
    /\ \A t \in Threads : pc[t] = "stop" => stopping = 1..(stop_idx[t] - 1)
    /\ \A t, u \in Threads :
          pc[t] \in {"copy", "stop"} /\ pc[u] \in {"copy", "stop"} => t = u
    /\ \A w \in Workers : pc[w] = "left" => w \in stopping
    /\ freed => \A w \in Workers : pc[w] = "left"
    /\ \A e \in Externals : pc[e] \in {"acquire", "link", "wake", "nowake"}
                               => own[e] # {}

(* When the work count is zero nothing is left that could raise it: every  *)
(* queue is given back, nobody holds or serves one and the combine is      *)
(* empty.                                                                  *)
LEMMA NoWorkNoUse ==
    ASSUME Inv, EndInv, work_cnt = 0
    PROVE  /\ free = Queues /\ combine = <<>>
           /\ \A t \in Threads :
                 /\ pc[t] \notin {"acquire", "link", "svc", "run", "drop",
                                  "release", "give", "leave"}
                 /\ own[t] = {} /\ cur[t] = NoQueue
<1>1. free \in SUBSET Queues /\ own \in [Threads -> SUBSET Queues]
      /\ combine \in Seq(Queues) /\ pc \in [Threads -> PCs]
      /\ cur \in [Threads -> Queues \cup {NoQueue}]
  BY DEF Inv, TypeOK
<1>2. /\ IsFiniteSet(Existing) /\ Cardinality(Existing) \in Nat
      /\ Existing = {} <=> Cardinality(Existing) = 0
  BY QueuesAssumption, FS_Subset, FS_CardinalityType, FS_EmptySet DEF Existing
<1>3. Leaving \in SUBSET Threads
  BY DEF Leaving
<1>4. Cardinality(Leaving) \in Nat /\ (Cardinality(Leaving) = 0 <=> Leaving = {})
  BY <1>3, ThreadSetsFinite, CountZero
<1>5. Cardinality(Existing) = 0 /\ Cardinality(Leaving) = 0
  BY <1>2, <1>4 DEF EndInv
<1>6. free = Queues /\ Leaving = {}
  BY <1>1, <1>2, <1>4, <1>5 DEF Existing
<1>7. \A q \in Queues : /\ Owners(q) = {} /\ Carriers(q) = {} /\ ~Linked(q)
                        /\ Drainers(q) = {}
                        /\ \A t \in Threads : ~Destroying(t, q)
  BY <1>6 DEF Inv, DestroyedUnreferenced, Unused
<1>8. combine = <<>>
  <2> SUFFICES ASSUME combine # <<>> PROVE FALSE
    OBVIOUS
  <2>1. combine[1] \in Queues /\ 1 \in 1..Len(combine)
    BY <1>1, ElementOfSeq, EmptySeq, LenProperties
  <2> QED
    BY <1>7, <2>1 DEF Linked
<1>9. ASSUME NEW t \in Threads
      PROVE  /\ pc[t] \notin {"acquire", "link", "svc", "run", "drop",
                              "release", "give", "leave"}
             /\ own[t] = {} /\ cur[t] = NoQueue
  <2>1. own[t] = {}
    BY <1>1, <1>7 DEF Owners
  <2>2. cur[t] = NoQueue /\ pc[t] \notin {"link", "svc", "release"}
    BY <1>1, <1>7 DEF Carriers, Carries, Drainers, Inv, ControlOK, ArgOK
  <2>3. pc[t] \notin {"run", "drop"}
    BY <2>2, ThreadKinds, QueuesAssumption DEF Inv, ControlOK, WorkerOK, ExternalOK
  <2>4. pc[t] \notin {"acquire", "give"}
    BY <1>7, <2>1, <2>2 DEF Inv, ControlOK, ArgOK, Usable, Destroying
  <2>5. pc[t] # "leave"
    BY <1>6 DEF Leaving
  <2> QED
    BY <2>1, <2>2, <2>3, <2>4, <2>5
<1> QED
  BY <1>6, <1>8, <1>9

(* A thread that moves between points that have nothing to do with the end *)
(* of the loop.                                                            *)
LEMMA EndMove ==
    ASSUME Inv, EndInv, NEW t \in Threads, NEW pt,
           pc' = [pc EXCEPT ![t] = pt],
           pc[t] \notin {"leave", "copy", "stop", "left"},
           pt \notin {"leave", "copy", "stop", "left"},
           UNCHANGED <<free, work_cnt, stopping, stop_idx, freed>>,
           \A e \in Externals \ {t} : own'[e] = own[e],
           t \in Externals /\ pt \in {"acquire", "link", "wake", "nowake"}
              => own'[t] # {}
    PROVE  EndInv'
<1>1. /\ pc'[t] = pt /\ \A u \in Threads \ {t} : pc'[u] = pc[u]
  BY DEF Inv, TypeOK
<1>2. Leaving' = Leaving /\ Existing' = Existing
  BY <1>1 DEF Leaving, Existing
<1> QED
  BY <1>1, <1>2, ThreadKinds DEF EndInv

(* Nobody is stopping the loop while a queue exists or a unit of work is   *)
(* still to be left.                                                       *)
LEMMA BusyNotStopping ==
    ASSUME Inv, EndInv, NEW t \in Threads,
           pc[t] \in {"acquire", "link", "svc", "run", "drop", "release", "give",
                     "leave"}
    PROVE  /\ work_cnt # 0 /\ stopping = {} /\ ~freed
           /\ \A u \in Threads : pc[u] \notin {"copy", "stop", "left"}
<1>1. work_cnt # 0
  BY NoWorkNoUse
<1>2. stopping = {} /\ \A u \in Threads : pc[u] \notin {"copy", "stop"}
  BY <1>1 DEF EndInv
<1>3. \A u \in Threads : pc[u] # "left"
  BY <1>2, ThreadKinds DEF EndInv, Inv, ControlOK, ExternalOK
<1> QED
  BY <1>1, <1>2, <1>3, ThreadKinds DEF EndInv

(* The queues that exist can be counted.                                   *)
LEMMA ExistingCount ==
    ASSUME NEW S \in SUBSET Queues
    PROVE  /\ IsFiniteSet(S) /\ Cardinality(S) \in Nat
           /\ \A q \in Queues : q \notin S => Cardinality(S \cup {q}) = Cardinality(S) + 1
           /\ \A q \in S : Cardinality(S \ {q}) = Cardinality(S) - 1
  BY QueuesAssumption, FS_Subset, FS_CardinalityType, FS_AddElement, FS_RemoveElement

(* A unit of work is entered with the queue that is created.               *)
LEMMA CreateQueueEnd ==
    ASSUME Inv, EndInv, NEW w \in Workers, NEW q \in Queues, CreateQueue(w, q)
    PROVE  EndInv'
<1>1. /\ pc[w] \in {"run", "drop"} /\ q \in free /\ free' = free \ {q} /\ work_cnt' = work_cnt + 1
      /\ UNCHANGED <<pc, stopping, stop_idx, freed>>
      /\ own' = [own EXCEPT ![w] = @ \cup {q}]
  BY DEF CreateQueue, InCallback, WorkEntered, svars
<1>2. free \in SUBSET Queues /\ own \in [Threads -> SUBSET Queues]
  BY DEF Inv, TypeOK
<1>3. Leaving' = Leaving /\ Existing' = Existing \cup {q} /\ q \notin Existing
  BY <1>1, <1>2 DEF Leaving, Existing
<1>4. Cardinality(Existing') = Cardinality(Existing) + 1
  BY <1>3, ExistingCount DEF Existing
<1>5. Cardinality(Existing) \in Nat /\ Cardinality(Leaving) \in Nat
  BY ExistingCount, ThreadSetsFinite DEF Existing, Leaving
<1>6. stopping = {} /\ ~freed /\ \A u \in Threads : pc[u] \notin {"copy", "stop", "left"}
  BY <1>1, BusyNotStopping, ThreadKinds
<1>7. \A e \in Externals : own'[e] = own[e]
  BY <1>1, <1>2, ThreadKinds
<1>8. work_cnt' = Cardinality(Existing') + Cardinality(Leaving')
  BY <1>1, <1>3, <1>4, <1>5 DEF EndInv
<1> QED
  BY <1>1, <1>6, <1>7, <1>8, ThreadKinds DEF EndInv

(* A queue that is given back still has its unit of work to leave.         *)
LEMMA GiveQueueEnd ==
    ASSUME Inv, EndInv, NEW t \in Threads, GiveQueue(t)
    PROVE  EndInv'
<1> DEFINE q == arg[t]
<1>1. /\ pc[t] = "give" /\ free' = free \cup {q} /\ pc' = [pc EXCEPT ![t] = "leave"]
      /\ UNCHANGED <<work_cnt, stopping, stop_idx, freed, own>>
  BY DEF GiveQueue, svars, avars
<1>2. /\ free \in SUBSET Queues /\ pc'[t] = "leave"
      /\ \A u \in Threads \ {t} : pc'[u] = pc[u]
  BY <1>1 DEF Inv, TypeOK
<1>3. q \in Queues /\ q \notin free
  BY <1>1 DEF Inv, ControlOK, ArgOK, DestroyedUnreferenced, Destroying
<1>4. /\ Existing' = Existing \ {q} /\ q \in Existing
      /\ Leaving' = Leaving \cup {t} /\ t \notin Leaving
  BY <1>1, <1>2, <1>3 DEF Existing, Leaving
<1>5. Cardinality(Existing') = Cardinality(Existing) - 1
  BY <1>4, ExistingCount DEF Existing
<1>6. Leaving \in SUBSET Threads
  BY DEF Leaving
<1>7. Cardinality(Leaving') = Cardinality(Leaving) + 1
  BY <1>4, <1>6, CountAdd
<1>8. Cardinality(Existing) \in Nat /\ Cardinality(Leaving) \in Nat
  BY <1>6, ExistingCount, ThreadSetsFinite DEF Existing
<1>9. work_cnt' = Cardinality(Existing') + Cardinality(Leaving')
  BY <1>1, <1>5, <1>7, <1>8 DEF EndInv
<1>10. stopping = {} /\ ~freed /\ \A u \in Threads : pc[u] \notin {"copy", "stop", "left"}
  BY <1>1, BusyNotStopping
<1> QED
  BY <1>1, <1>2, <1>9, <1>10, ThreadKinds DEF EndInv

(* The last unit of work makes its thread the only one that stops workers. *)
LEMMA WorkLeaveEnd ==
    ASSUME Inv, EndInv, NEW t \in Threads, WorkLeave(t)
    PROVE  EndInv'
<1>1. /\ pc[t] = "leave" /\ work_cnt' = work_cnt - 1
      /\ pc' = [pc EXCEPT ![t] = IF work_cnt = 1 THEN "copy" ELSE Return(t)]
      /\ UNCHANGED <<free, stopping, stop_idx, freed, own>>
  BY DEF WorkLeave, LastWork, qvars, svars, avars
<1>2. /\ pc'[t] = IF work_cnt = 1 THEN "copy" ELSE Return(t)
      /\ \A u \in Threads \ {t} : pc'[u] = pc[u]
  BY <1>1 DEF Inv, TypeOK
<1>3. Return(t) \in {"idle", "take", "run", "drop"}
  BY Returns
<1>4. Existing' = Existing /\ Leaving' = Leaving \ {t} /\ t \in Leaving
  BY <1>1, <1>2, <1>3 DEF Existing, Leaving
<1>5. Leaving \in SUBSET Threads
  BY DEF Leaving
<1>6. Cardinality(Leaving') = Cardinality(Leaving) - 1
  BY <1>4, <1>5, CountRemove
<1>7. Cardinality(Existing) \in Nat /\ Cardinality(Leaving) \in Nat
  BY <1>5, ExistingCount, ThreadSetsFinite DEF Existing
<1>8. work_cnt' = Cardinality(Existing') + Cardinality(Leaving')
  BY <1>1, <1>4, <1>6, <1>7 DEF EndInv
<1>9. stopping = {} /\ ~freed /\ \A u \in Threads : pc[u] \notin {"copy", "stop", "left"}
  BY <1>1, BusyNotStopping
<1>10. \A u \in Threads : pc'[u] \in {"copy", "stop"} => u = t /\ work_cnt' = 0 /\ pc'[u] = "copy"
  BY <1>1, <1>2, <1>3, <1>9
<1> QED
  BY <1>1, <1>2, <1>3, <1>8, <1>9, <1>10, ThreadKinds DEF EndInv

(* The workers are taken out of the loop, then stopped in order.           *)
LEMMA StopEnd ==
    ASSUME Inv, EndInv, NEW t \in Threads, CopyWorkers(t) \/ StopWorker(t)
    PROVE  EndInv'
<1>1. /\ pc[t] \in {"copy", "stop"} /\ UNCHANGED <<free, work_cnt, freed, own>>
  BY DEF CopyWorkers, StopWorker, qvars, avars
<1>2. /\ pc \in [Threads -> PCs] /\ stop_idx \in [Threads -> Workers]
      /\ stop_idx[t] \in 1..Width
  BY DEF Inv, TypeOK, Workers
<1>3. work_cnt = 0 /\ \A u \in Threads \ {t} : pc[u] \notin {"copy", "stop"}
  BY <1>1 DEF EndInv
<1>4. Return(t) \in {"idle", "take", "run", "drop"}
  BY Returns
<1>5. /\ \A u \in Threads \ {t} : pc'[u] = pc[u]
      /\ pc'[t] \in {"stop", Return(t)}
  BY <1>2 DEF CopyWorkers, StopWorker
<1>6. Existing' = Existing /\ Leaving' = Leaving
  BY <1>1, <1>4, <1>5 DEF Existing, Leaving
<1>7. pc'[t] = "stop" => stopping' = 1..(stop_idx'[t] - 1)
  <2>1. CASE CopyWorkers(t)
    BY <1>2, <2>1 DEF CopyWorkers, EndInv
  <2>2. CASE StopWorker(t)
    <3>1. stopping = 1..(stop_idx[t] - 1) /\ stopping' = stopping \cup {stop_idx[t]}
      BY <2>2 DEF StopWorker, EndInv
    <3>2. pc'[t] = "stop" => stop_idx'[t] = stop_idx[t] + 1
      BY <1>2, <1>4, <2>2 DEF StopWorker
    <3> QED
      BY <1>2, <3>1, <3>2
  <2> QED
    BY <2>1, <2>2
<1>8. stopping \subseteq stopping'
  BY DEF CopyWorkers, StopWorker
<1>9. t \in Workers => ~freed
  BY <1>1 DEF EndInv
<1> QED
  BY <1>1, <1>3, <1>4, <1>5, <1>6, <1>7, <1>8, <1>9, ThreadKinds DEF EndInv

(* A worker leaves when it was stopped, and the loop goes when all left.   *)
LEMMA LeaveEnd ==
    ASSUME Inv, EndInv, (\E w \in Workers : WaitInterrupted(w)) \/ DestroyLoop
    PROVE  EndInv'
<1>1. UNCHANGED <<free, work_cnt, stopping, stop_idx, own>>
  BY DEF WaitInterrupted, DestroyLoop, qvars, svars, avars
<1>2. CASE DestroyLoop
  <2>1. pc' = pc /\ \A w \in Workers : pc[w] = "left"
    BY <1>2 DEF DestroyLoop, Joined
  <2>2. Existing' = Existing /\ Leaving' = Leaving
    BY <1>1, <2>1 DEF Existing, Leaving
  <2> QED
    BY <1>1, <2>1, <2>2 DEF EndInv
<1>3. ASSUME NEW w \in Workers, WaitInterrupted(w) PROVE EndInv'
  <2>1. /\ pc[w] = "wait" /\ w \in stopping /\ pc'[w] = "left" /\ freed' = freed
        /\ \A u \in Threads \ {w} : pc'[u] = pc[u]
    BY <1>3, ThreadKinds DEF WaitInterrupted, Inv, TypeOK
  <2>2. Existing' = Existing /\ Leaving' = Leaving
    BY <1>1, <2>1 DEF Existing, Leaving
  <2> QED
    BY <1>1, <2>1, <2>2, ThreadKinds DEF EndInv
<1> QED
  BY <1>2, <1>3

(* Every step keeps the invariant about the end.                           *)
LEMMA NextEnd == Inv /\ EndInv /\ [Next]_vars => EndInv'
<1> SUFFICES ASSUME Inv, EndInv, [Next]_vars PROVE EndInv'
  OBVIOUS
<1>0. pc \in [Threads -> PCs] /\ own \in [Threads -> SUBSET Queues]
  BY DEF Inv, TypeOK
<1>1. ASSUME NEW t \in Threads, NEW q \in Queues, NEW k \in Tasks, PushTask(t, q, k)
      PROVE  EndInv'
  <2>1. t \in Externals => own[t] # {}
    BY <1>1 DEF PushTask, Usable, Inv, ControlOK, ExternalOK
  <2>2. /\ pc' = [pc EXCEPT ![t] = pc[t]] \/ pc' = [pc EXCEPT ![t] = "acquire"]
        /\ pc[t] \in {"idle", "run", "drop"}
        /\ UNCHANGED <<free, work_cnt, stopping, stop_idx, freed, own>>
    BY <1>0, <1>1 DEF PushTask, InApplication, InCallback, svars
  <2> QED
    BY <2>1, <2>2, EndMove
<1>2. ASSUME NEW t \in Threads, NEW q \in Queues, ReleaseQueue(t, q)
      PROVE  EndInv'
  <2>1. /\ pc' = [pc EXCEPT ![t] = "give"] \/ pc' = [pc EXCEPT ![t] = Return(t)]
        /\ pc[t] \in {"idle", "run", "drop"}
        /\ UNCHANGED <<free, work_cnt, stopping, stop_idx, freed>>
    BY <1>2 DEF ReleaseQueue, DropReference, InApplication, InCallback, svars
  <2>2. \A e \in Externals \ {t} : own'[e] = own[e]
    BY <1>0, <1>2, ThreadKinds DEF ReleaseQueue
  <2> QED
    BY <2>1, <2>2, EndMove, Returns
<1>3. ASSUME NEW t \in Threads, AcquireForLink(t) \/ CombinePush(t) \/ CombineWakeup(t)
      PROVE  EndInv'
  <2>1. /\ \E pt \in {"link", "wake", "nowake", Return(t)} : pc' = [pc EXCEPT ![t] = pt]
        /\ pc[t] \in {"acquire", "link", "wake", "nowake"}
        /\ UNCHANGED <<free, work_cnt, stopping, stop_idx, freed, own>>
    BY <1>3 DEF AcquireForLink, CombinePush, CombineWakeup, qvars, svars, avars
  <2>2. t \in Externals => own[t] # {}
    BY <2>1 DEF EndInv
  <2> QED
    BY <2>1, <2>2, EndMove, Returns
<1>4. ASSUME NEW w \in Workers,
             TryTake(w) \/ SvcBegin(w) \/ QueueNext(w) \/ DropTask(w)
               \/ SvcRelease(w) \/ WaitReturns(w) \/ ReadEventfd(w)
      PROVE  EndInv'
  <2>1. /\ \E pt \in {"wait", "svc", "run", "drop", "release", "link", "give",
                       "ready", "take", Return(w)} : pc' = [pc EXCEPT ![w] = pt]
        /\ pc[w] \notin {"leave", "copy", "stop", "left"}
        /\ UNCHANGED <<free, work_cnt, stopping, stop_idx, freed, own>>
    BY <1>4 DEF TryTake, SvcBegin, QueueNext, DropTask, DrainEnd, SvcRelease,
       DropReference, WaitReturns, ReadEventfd, qvars, svars, avars
  <2> QED
    BY <2>1, EndMove, Returns, ThreadKinds
<1>5. ASSUME NEW w \in Workers, NEW e \in Externals, NEW q \in Queues,
             ShareQueue(w, e, q)
      PROVE  EndInv'
  <2>1. /\ UNCHANGED <<free, work_cnt, stopping, stop_idx, freed, pc>>
        /\ \A u \in Threads : own[u] \subseteq own'[u]
    BY <1>0, <1>5, ThreadKinds DEF ShareQueue, svars
  <2>2. Existing' = Existing /\ Leaving' = Leaving
    BY <2>1 DEF Existing, Leaving
  <2> QED
    BY <2>1, <2>2, ThreadKinds DEF EndInv
<1>6. CASE Terminated \/ UNCHANGED vars
  <2>1. UNCHANGED <<free, work_cnt, stopping, stop_idx, freed, pc, own>>
    BY <1>6 DEF Terminated, vars, qvars, svars, avars
  <2> QED
    BY <2>1 DEF EndInv, Existing, Leaving
<1> QED
  BY <1>1, <1>2, <1>3, <1>4, <1>5, <1>6, CreateQueueEnd, GiveQueueEnd,
     WorkLeaveEnd, StopEnd, LeaveEnd
     DEF Next, Application, Call, Worker

(* The loop ends once and unused: the work count is exact, one thread      *)
(* stops every worker once and only when no queue is left, and the loop is *)
(* freed when nobody is at a step that uses it.                            *)
THEOREM LoopEndsOnceUnused == Spec => []EndsOnceUnused
<1>1. Init => EndInv
  <2> SUFFICES ASSUME Init PROVE EndInv
    OBVIOUS
  <2>1. Existing = {InitQueue} /\ Leaving = {}
    BY QueuesAssumption DEF Init, Existing, Leaving
  <2>2. Cardinality(Existing) = 1 /\ Cardinality(Leaving) = 0
    BY <2>1, FS_Singleton, FS_EmptySet
  <2> QED
    BY <2>2, ThreadKinds DEF Init, EndInv
<1>2. Inv /\ EndInv => EndsOnceUnused
  <2> SUFFICES ASSUME Inv, EndInv PROVE EndsOnceUnused
    OBVIOUS
  <2>1. WorkCountsQueues
    BY DEF EndInv, WorkCountsQueues, Existing, Leaving
  <2>2. stopping # {} => free = Queues /\ combine = <<>>
    BY NoWorkNoUse DEF EndInv
  <2>3. LoopOutlivesUse
    <3> SUFFICES ASSUME freed, NEW t \in Threads
                 PROVE  pc[t] \in {"idle", "left", "stop"}
      BY DEF LoopOutlivesUse
    <3>1. work_cnt = 0 /\ 1 \in stopping
      BY ThreadKinds DEF EndInv
    <3>2. CASE t \in Workers
      BY <3>2 DEF EndInv
    <3>3. CASE t \in Externals
      <4>1. /\ own[t] = {} /\ pc[t] \notin {"give", "leave"}
        BY <3>1, NoWorkNoUse
      <4>2. pc[t] \notin {"acquire", "link", "wake", "nowake", "copy"}
        BY <3>1, <3>3, <4>1 DEF EndInv
      <4> QED
        BY <3>3, <4>1, <4>2 DEF Inv, ControlOK, ExternalOK
    <3> QED
      BY <3>2, <3>3, ThreadKinds
  <2> QED
    BY <2>1, <2>2, <2>3 DEF EndsOnceUnused, StoppedOnceWhenIdle, EndInv
<1> QED
  BY <1>1, <1>2, NextEnd, Invariance, PTL DEF Spec

-----------------------------------------------------------------------------
(* A worker runs a task of this queue: what the refinement mapping of Loop *)
(* calls running.                                                          *)
Runs(w, q) == cur[w] = q /\ prev[w] = NoTask /\ task[w] # NoTask
RunningQueues == {q \in Queues : \E w \in Workers : Runs(w, q)}

(* What SerialQueue sees of a state of Loop.                               *)
LEMMA SerialView ==
    /\ Serial!vars = <<task_list, RunningQueues, fresh>>
    /\ Serial!vars' = <<task_list', RunningQueues', fresh'>>
  BY DEF Serial!vars, RunningQueues, Runs

(* A step that leaves lists and fresh tasks alone and starts or ends no    *)
(* body is invisible to SerialQueue.                                       *)
LEMMA InvisibleStep ==
    ASSUME UNCHANGED <<task_list, fresh>>,
           \A w \in Workers, q \in Queues : Runs(w, q)' <=> Runs(w, q)
    PROVE  UNCHANGED Serial!vars
<1>1. RunningQueues' = RunningQueues
  BY DEF RunningQueues
<1> QED
  BY <1>1, SerialView

(* A worker that runs a task of a queue is the only one: nobody else       *)
(* serves the queue.                                                       *)
LEMMA RunsAlone ==
    ASSUME Inv, NEW w \in Workers, NEW v \in Workers, NEW q \in Queues,
           Serving(w, q), Serving(v, q)
    PROVE  v = w
  BY ThreadKinds DEF Inv, ScheduledOnce, Schedules

(* ntt_queue_push_task is a Push.                                          *)
LEMMA PushTaskSerial ==
    ASSUME Inv, NEW t \in Threads, NEW q \in Queues, NEW k \in Tasks,
           PushTask(t, q, k)
    PROVE  Serial!Push(q, k)
<1>1. /\ k \in fresh /\ fresh' = fresh \ {k}
      /\ task_list' = [task_list EXCEPT ![q] = Append(@, k)]
      /\ UNCHANGED <<cur, task, prev>>
  BY DEF PushTask, Pushed, wvars
<1>4. RunningQueues' = RunningQueues
  BY <1>1 DEF RunningQueues, Runs
<1> QED
  BY <1>1, <1>4 DEF Serial!Push, RunningQueues, Runs

(* ntt_queue_svc reads the front: a Start.                                 *)
LEMMA SvcBeginSerial ==
    ASSUME Inv, NEW w \in Workers, SvcBegin(w)
    PROVE  \E q \in Queues : Serial!Start(q)
<1> DEFINE q == arg[w]
<1>1. /\ pc[w] = "svc" /\ UNCHANGED <<task_list, fresh>>
      /\ cur' = [cur EXCEPT ![w] = q]
      /\ task' = [task EXCEPT ![w] = Front(task_list[q])]
      /\ prev' = prev
  BY DEF SvcBegin, qvars, avars
<1>2. /\ cur \in [Threads -> Queues \cup {NoQueue}]
      /\ task \in [Workers -> Tasks \cup {NoTask}]
      /\ task_list \in [Queues -> Seq(Tasks)]
  BY DEF Inv, TypeOK
<1>3. q \in Queues /\ cur[w] = NoQueue /\ prev[w] = NoTask
  BY <1>1, ThreadKinds DEF Inv, ControlOK, ArgOK, WorkerOK
<1>4. Serving(w, q) /\ Schedules(w, q)
  BY <1>1 DEF Serving, Schedules
<1>5. task_list[q] # <<>>
  BY <1>3, <1>4, ThreadKinds DEF Inv, ScheduledOnce
<1>6. Front(task_list[q]) \in Tasks /\ Front(task_list[q]) # NoTask
  BY <1>2, <1>3, <1>5, TasksAssumption, HeadTailProperties DEF Front
<1>7. \A v \in Workers : ~Runs(v, q)
  <2> SUFFICES ASSUME NEW v \in Workers, Runs(v, q) PROVE FALSE
    OBVIOUS
  <2>1. Serving(v, q)
    BY DEF Runs, Serving
  <2>2. v = w
    BY <1>3, <1>4, <2>1, RunsAlone
  <2> QED
    BY <1>3, <2>2, QueuesAssumption DEF Runs
<1>8. /\ cur'[w] = q /\ prev'[w] = NoTask /\ task'[w] # NoTask
      /\ \A v \in Workers \ {w} :
            cur'[v] = cur[v] /\ prev'[v] = prev[v] /\ task'[v] = task[v]
  BY <1>1, <1>2, <1>3, <1>6, ThreadKinds
<1>9. RunningQueues' = RunningQueues \cup {q} /\ q \notin RunningQueues
  BY <1>3, <1>7, <1>8, QueuesAssumption DEF RunningQueues, Runs
<1> QED
  BY <1>1, <1>3, <1>5, <1>9 DEF Serial!Start, RunningQueues, Runs

(* ntt_queue_next after the body has returned: a Finish.                   *)
LEMMA QueueNextSerial ==
    ASSUME Inv, NEW w \in Workers, QueueNext(w)
    PROVE  \E q \in Queues : Serial!Finish(q)
<1>0. PICK q \in Queues : q = cur[w]
  BY QueuesAssumption DEF QueueNext, Inv, ControlOK, WorkerOK
<1>1. /\ pc[w] = "run" /\ UNCHANGED <<cur, fresh>>
      /\ task_list' = [task_list EXCEPT ![q] = Tail(@)]
      /\ \E x : task' = [task EXCEPT ![w] = x]
      /\ prev' = [prev EXCEPT ![w] = task[w]]
  BY <1>0 DEF QueueNext, Popped, avars
<1>2. /\ prev \in [Workers -> Tasks \cup {NoTask}]
      /\ task \in [Workers -> Tasks \cup {NoTask}]
  BY DEF Inv, TypeOK
<1>3. task[w] \in Tasks /\ task[w] # NoTask /\ prev[w] = NoTask
  BY <1>0, <1>1, QueuesAssumption, TasksAssumption DEF Inv, ControlOK, WorkerOK
<1>4. Serving(w, q) /\ Runs(w, q)
  BY <1>0, <1>1, <1>3 DEF Serving, Runs
<1>5. \A v \in Workers \ {w} : ~Runs(v, q)
  BY <1>4, RunsAlone DEF Runs, Serving
<1>6. /\ prev'[w] # NoTask
      /\ \A v \in Workers \ {w} : prev'[v] = prev[v] /\ task'[v] = task[v]
  BY <1>1, <1>2, <1>3
<1>7. /\ ~\E v \in Workers : Runs(v, q)'
      /\ \A v \in Workers, p \in Queues \ {q} : Runs(v, p)' <=> Runs(v, p)
  BY <1>0, <1>1, <1>5, <1>6 DEF Runs
<1>8. RunningQueues' = RunningQueues \ {q} /\ q \in RunningQueues
  BY <1>4, <1>7 DEF RunningQueues
<1>9. Serial!Finish(q)
  BY <1>1, <1>8, Zenon DEF Serial!Finish, RunningQueues, Runs
<1> QED
  BY <1>9

(* The next task of the same drain is a Start; a drain that stops shows    *)
(* nothing.                                                                *)
LEMMA DropTaskSerial ==
    ASSUME Inv, NEW w \in Workers, DropTask(w)
    PROVE  (\E q \in Queues : Serial!Start(q)) \/ UNCHANGED Serial!vars
<1> DEFINE q == cur[w]
<1>1. /\ pc[w] = "drop" /\ UNCHANGED <<task_list, fresh>>
      /\ prev' = [prev EXCEPT ![w] = NoTask]
  BY DEF DropTask, qvars, avars
<1>2. /\ prev \in [Workers -> Tasks \cup {NoTask}]
      /\ task \in [Workers -> Tasks \cup {NoTask}]
      /\ cur \in [Threads -> Queues \cup {NoQueue}]
  BY DEF Inv, TypeOK
<1>3. q \in Queues /\ prev[w] # NoTask
  BY <1>1, TasksAssumption DEF Inv, ControlOK, WorkerOK
<1>4. CASE task[w] # NoTask /\ ~LimitHit(w)
  <2>1. UNCHANGED <<cur, task>>
    BY <1>4 DEF DropTask
  <2>2. Serving(w, q) /\ Schedules(w, q)
    BY <1>4 DEF Serving, Schedules
  <2>3. task_list[q] # <<>>
    BY <1>3, <2>2, ThreadKinds DEF Inv, ScheduledOnce
  <2>4. \A v \in Workers : ~Runs(v, q)
    BY <1>1, <1>3, <2>2, RunsAlone DEF Runs, Serving
  <2>5. prev'[w] = NoTask /\ \A v \in Workers \ {w} : prev'[v] = prev[v]
    BY <1>1, <1>2
  <2>6. RunningQueues' = RunningQueues \cup {q} /\ q \notin RunningQueues
    BY <1>1, <1>3, <1>4, <2>1, <2>4, <2>5 DEF RunningQueues, Runs
  <2> QED
    BY <1>1, <1>3, <2>3, <2>6 DEF Serial!Start, RunningQueues, Runs
<1>5. CASE ~(task[w] # NoTask /\ ~LimitHit(w))
  <2>1. /\ cur' = [cur EXCEPT ![w] = NoQueue]
        /\ task' = [task EXCEPT ![w] = NoTask]
    BY <1>5 DEF DropTask
  <2>2. /\ cur'[w] = NoQueue
        /\ \A v \in Workers \ {w} :
              cur'[v] = cur[v] /\ prev'[v] = prev[v] /\ task'[v] = task[v]
    BY <1>1, <1>2, <2>1, ThreadKinds
  <2>3. \A v \in Workers, p \in Queues : Runs(v, p)' <=> Runs(v, p)
    BY <1>3, <2>2, QueuesAssumption DEF Runs
  <2> QED
    BY <1>1, <2>3, InvisibleStep
<1> QED
  BY <1>4, <1>5

(* Every step of the loop is a step of the serial queues or invisible.     *)
LEMMA NextSerial == Inv /\ [Next]_vars => [Serial!Next]_(Serial!vars)
<1> SUFFICES ASSUME Inv, [Next]_vars PROVE Serial!Next \/ UNCHANGED Serial!vars
  OBVIOUS
<1>s. ASSUME UNCHANGED <<task_list, fresh, cur, task, prev>>
      PROVE  UNCHANGED Serial!vars
  BY <1>s, InvisibleStep DEF Runs
<1>1. ASSUME NEW t \in Threads, NEW q \in Queues, NEW k \in Tasks, PushTask(t, q, k)
      PROVE  Serial!Next
  BY <1>1, PushTaskSerial DEF Serial!Next
<1>2. ASSUME NEW t \in Threads, NEW q \in Queues, ReleaseQueue(t, q)
      PROVE  UNCHANGED Serial!vars
  BY <1>2, <1>s DEF ReleaseQueue, wvars
<1>3. ASSUME NEW t \in Threads, Call(t)
      PROVE  UNCHANGED Serial!vars
  BY <1>3, <1>s DEF Call, AcquireForLink, CombinePush, CombineWakeup, GiveQueue,
     WorkLeave, CopyWorkers, StopWorker, qvars, wvars, avars
<1>4. ASSUME NEW w \in Workers,
             TryTake(w) \/ SvcRelease(w) \/ WaitReturns(w) \/ ReadEventfd(w)
               \/ WaitInterrupted(w)
      PROVE  UNCHANGED Serial!vars
  BY <1>4, <1>s DEF TryTake, SvcRelease, WaitReturns, ReadEventfd,
     WaitInterrupted, qvars, wvars, avars
<1>5. ASSUME NEW w \in Workers, SvcBegin(w) \/ QueueNext(w) \/ DropTask(w)
      PROVE  Serial!Next \/ UNCHANGED Serial!vars
  BY <1>5, SvcBeginSerial, QueueNextSerial, DropTaskSerial DEF Serial!Next
<1>6. ASSUME NEW w \in Workers, NEW q \in Queues, CreateQueue(w, q)
      PROVE  UNCHANGED Serial!vars
  <2>1. task_list[q] = <<>> /\ task_list \in [Queues -> Seq(Tasks)]
    BY <1>6, UnusedIsEmpty DEF CreateQueue, Inv, TypeOK, DestroyedUnreferenced
  <2> QED
    BY <1>6, <1>s, <2>1 DEF CreateQueue, wvars
<1>7. ASSUME NEW w \in Workers, NEW e \in Externals, NEW q \in Queues,
             ShareQueue(w, e, q)
      PROVE  UNCHANGED Serial!vars
  BY <1>7, <1>s DEF ShareQueue, wvars
<1>8. CASE DestroyLoop \/ Terminated \/ UNCHANGED vars
  BY <1>8, <1>s DEF DestroyLoop, Terminated, vars, qvars, wvars, avars
<1> QED
  BY <1>1, <1>2, <1>3, <1>4, <1>5, <1>6, <1>7, <1>8 DEF Next, Application, Worker

(* The queues of the loop are serial queues: tasks of one queue run one at *)
(* a time, in the order of the pushes, whatever worker serves the queue    *)
(* and however a drain is cut off by its limit.                            *)
THEOREM QueuesAreSerial == Spec => Serial!Init /\ [][Serial!Next]_(Serial!vars)
<1>1. Init => Serial!Init
  <2> SUFFICES ASSUME Init PROVE Serial!Init
    OBVIOUS
  <2>1. RunningQueues = {}
    BY ThreadKinds, QueuesAssumption DEF Init, RunningQueues, Runs
  <2>2. task_list \in [Queues -> {<<>>} \cup {<<k>> : k \in Tasks}]
    BY TasksAssumption DEF Init
  <2> QED
    BY <2>1, <2>2 DEF Init, Serial!Init, RunningQueues, Runs
<1> QED
  BY <1>1, NextSerial, Invariance, PTL DEF Spec
=============================================================================
