----------------------------- MODULE WorkerProofs -----------------------------
(***************************************************************************)
(* Theorems about Worker, for any number of workers, client threads,       *)
(* barriers and events.                                                    *)
(***************************************************************************)
EXTENDS Worker, FiniteSetTheorems, SequenceTheorems, TLAPS

(* Points inside ntt_queue_push_task on a local queue.                     *)
CallPCs == {"push", "acquire", "signal"}

(* Points before a worker has passed the enter barrier.                    *)
EnteringPCs == {"unborn", "create", "init", "enter", "count", "asleep", "awake"}

PCs == EnteringPCs \cup CallPCs \cup
       {"check", "combine", "app", "wait", "dispatch", "returned", "local",
        "body", "next", "unhold", "left", "idle", "leave", "copy", "release"}

-----------------------------------------------------------------------------
(* What a program counter says about the other locals of its thread.       *)
ThreadOK(t) ==
    /\ t \in Clients => pc[t] \in CallPCs \cup {"idle", "app", "leave", "copy", "release"}
    /\ t \in Workers => pc[t] # "idle"
    /\ pc[t] = "create" => t = 1
    /\ pc[t] \in {"asleep", "awake"} => why[t] = "own" /\ target[t] = t
    /\ pc[t] \in CallPCs \cup {"release"} /\ why[t] = "own" =>
          t \in Workers /\ target[t] = t
    /\ pc[t] = "release" => why[t] # "barrier"
    /\ pc[t] \in CallPCs /\ why[t] = "barrier" => job[t] \in Barriers
    /\ pc[t] = "push" /\ why[t] # "barrier" => job[t] = StopTask

ControlOK ==
    /\ \A t \in Threads : ThreadOK(t)
    /\ pc[1] = "create" => \A w \in Workers : w > target[1] => pc[w] = "unborn"

(* Who has entered: the table and the count of ntt_loop_worker_enter.      *)
(* Nobody is past the barrier, and the first task does not run, before     *)
(* everybody has been counted.                                             *)
Entered(w) == pc[w] \notin {"unborn", "create", "init", "enter", "count"}
Counted == {w \in Workers : Entered(w)}
AllIn == \A w \in Workers : Entered(w)

EnterOK ==
    /\ \A w \in Workers : w \in known <=>
          pc[w] \notin {"unborn", "create", "init", "enter"}
    /\ enter_cnt = Cardinality(Counted)
    /\ \A t \in Threads : pc[t] \notin EnteringPCs \cup {"idle"} => AllIn
    /\ ~first => AllIn

(* The work count is the number of threads that hold a unit, and the one   *)
(* thread that dropped the last unit releases the workers.                 *)
Holds(t) == pc[t] \in {"app", "leave"} \/ (pc[t] \in CallPCs /\ why[t] = "barrier")
Holders == {t \in Threads : Holds(t)}
Leaver(t) == pc[t] = "copy" \/ (pc[t] \in CallPCs \cup {"release"} /\ why[t] = "leave")

WorkOK ==
    /\ work_cnt = Cardinality(Holders) + (IF first THEN 1 ELSE 0)
    /\ \A t \in Threads : Leaver(t) => work_cnt = 0
    /\ \A t, u \in Threads : Leaver(t) /\ Leaver(u) => t = u

(* The work guard of a worker: its own reference, and that of the loop     *)
(* until ntt_loop_work_leave has come to it.                               *)
OwnHeld(w) == \/ pc[w] \in {"enter", "count", "asleep", "awake"}
              \/ pc[w] = "release" /\ why[w] = "own"
Passed(t, w) == /\ pc[t] # "copy"
                /\ w < target[t] \/ (w = target[t] /\ pc[t] # "release")
Released(w) == work_cnt = 0 /\ \A t \in Threads : Leaver(t) => Passed(t, w)

RefsOK ==
    \A w \in Workers :
        refs[w] = (IF OwnHeld(w) THEN 1 ELSE 0)
                    + (IF w \in known /\ ~Released(w) THEN 1 ELSE 0)

(* Wakeups of the local queues: OneWakeupPerDrain and LocalQueueStays      *)
(* without cardinalities.                                                  *)
Sends(t, w) == pc[t] \in {"acquire", "signal"} /\ target[t] = w
Drains(w) == w \in need_drain /\ pc[w] # "unhold"

WakeOK ==
    /\ \A w \in Workers : signals[w] \in {0, 1}
    /\ \A w \in Workers, t, u \in Threads : Sends(t, w) /\ Sends(u, w) => t = u
    /\ \A w \in Workers, t \in Threads : Sends(t, w) => signals[w] = 0 /\ ~Drains(w)
    /\ \A w \in Workers : signals[w] = 1 => ~Drains(w)
    /\ \A w \in Workers : list[w] # <<>> <=>
          signals[w] = 1 \/ Drains(w) \/ \E t \in Threads : Sends(t, w)
    /\ \A w \in Workers : pc[w] \in {"local", "body", "next", "unhold"}
                             => w \in need_drain
    /\ \A w \in Workers : w \notin known => w \notin need_drain /\ signals[w] = 0

(* The references of a local queue: the one of its worker, and one per     *)
(* wakeup that has acquired it and is not released yet.                    *)
QrefsOK ==
    \A w \in Workers : pc[w] \notin {"unborn", "create", "init"} =>
        qrefs[w] = 1 + signals[w] + (IF w \in need_drain THEN 1 ELSE 0)
                     + (IF \E t \in Threads : Sends(t, w) /\ pc[t] = "signal"
                        THEN 1 ELSE 0)

(* The stop task of a worker: pushed once, by whoever drops the last       *)
(* reference, and the last thing in the local queue.                       *)
StopPusher(t, w) == pc[t] = "push" /\ why[t] # "barrier" /\ target[t] = w
StopListed(w) == \E p \in 1..Len(list[w]) : list[w][p] = StopTask

StopOK ==
    \A w \in Workers :
        /\ \A t, u \in Threads : StopPusher(t, w) /\ StopPusher(u, w) => t = u
        /\ \A t \in Threads : StopPusher(t, w) =>
              refs[w] = 0 /\ ~StopListed(w) /\ w \notin stopped
        /\ \A p \in 1..Len(list[w]) : list[w][p] = StopTask =>
              refs[w] = 0 /\ p = Len(list[w])
        /\ w \in stopped =>
              /\ refs[w] = 0
              /\ \/ pc[w] = "next" /\ Len(list[w]) = 1 /\ list[w][1] = StopTask
                 \/ pc[w] \in {"unhold", "check", "left"} /\ list[w] = <<>>
        /\ pc[w] = "left" => w \in stopped

(* Barriers: the references of a context are the workers that have still   *)
(* to run their part, whether the push to them is to come or done.         *)
Pushing(t, b) == pc[t] \in CallPCs /\ why[t] = "barrier" /\ job[t] = b
ToCome(t, w) == w > target[t] \/ (w = target[t] /\ pc[t] = "push")
Ran(w, p) == p = 1 /\ pc[w] \in {"body", "next"}
Waits(w, b) ==
    \/ \E t \in Threads : Pushing(t, b) /\ ToCome(t, w)
    \/ \E p \in 1..Len(list[w]) : list[w][p] = b /\ ~Ran(w, p)
Pending(b) == {w \in Workers : Waits(w, b)}

ListsOK ==
    /\ \A w \in Workers : \A p, q \in 1..Len(list[w]) :
          list[w][p] = list[w][q] /\ list[w][p] \in Barriers => p = q
    /\ \A w \in Workers, t \in Threads, b \in Barriers :
          Pushing(t, b) /\ ToCome(t, w) =>
              \A p \in 1..Len(list[w]) : list[w][p] # b
    /\ \A b \in Barriers, t, u \in Threads : Pushing(t, b) /\ Pushing(u, b) => t = u
    /\ \A b \in Barriers : barrier[b] = "unused" =>
          /\ \A t \in Threads : ~Pushing(t, b)
          /\ \A w \in Workers : \A p \in 1..Len(list[w]) : list[w][p] # b

BarrierOK ==
    /\ \A b \in Barriers : brefs[b] = Cardinality(Pending(b))
    /\ \A b \in Barriers : barrier[b] = "freed" => Pending(b) = {}
    /\ \A w \in Workers : pc[w] = "body" => list[w][1] \in Barriers
    /\ \A w \in Workers, b \in Barriers : pc[w] = "body" /\ list[w][1] = b =>
          barrier[b] = "sent" /\ Pending(b) = {}
    /\ \A v, w \in Workers : pc[v] = "body" /\ pc[w] = "body"
                             /\ list[v][1] = list[w][1] => v = w

(* A worker that dispatches a notification of the deleted descriptor has   *)
(* still to come to every barrier pushed after the deletion.               *)
DrainOK ==
    \A b \in after_del :
        /\ ~fd
        /\ \A v \in Workers : pc[v] = "dispatch" => v \in Pending(b)

(* The inductive invariant.                                                *)
Inv == /\ TypeOK /\ ControlOK /\ EnterOK /\ WorkOK /\ RefsOK /\ WakeOK
       /\ QrefsOK /\ StopOK /\ ListsOK /\ BarrierOK /\ DrainOK

-----------------------------------------------------------------------------
LEMMA ThreadFacts ==
    /\ Workers \subseteq Threads /\ Clients \subseteq Threads
    /\ \A t \in Threads : t \in Workers <=> t \notin Clients
    /\ 1 \in Workers /\ Workers \subseteq Nat
    /\ \A w \in Workers : 1 <= w /\ w <= Width
    /\ \A w \in Workers : w < Width => w + 1 \in Workers
    /\ IsFiniteSet(Workers) /\ Cardinality(Workers) = Width
    /\ IsFiniteSet(Threads)
<1>1. IsFiniteSet(Workers) /\ Cardinality(Workers) = Width
  BY WorkerWidth, FS_Interval DEF Workers
<1>2. IsFiniteSet(Threads)
  BY <1>1, WorkerThreads, FS_Union DEF Threads
<1> QED
  BY <1>1, <1>2, WorkerWidth, WorkerThreads DEF Workers, Threads

(* A thread that is past the enter barrier finds every worker in the       *)
(* table.                                                                  *)
LEMMA AllKnown ==
    ASSUME Inv, NEW t \in Threads, pc[t] \notin EnteringPCs \cup {"idle"}
    PROVE  AllIn /\ known = Workers
  BY ThreadFacts DEF Inv, TypeOK, EnterOK, AllIn, Entered, EnteringPCs

LEMMA HoldersFinite ==
    /\ IsFiniteSet(Holders) /\ Cardinality(Holders) \in Nat
    /\ \A b : IsFiniteSet(Pending(b)) /\ Cardinality(Pending(b)) \in Nat
                /\ Cardinality(Pending(b)) <= Width
    /\ IsFiniteSet(Counted) /\ Cardinality(Counted) \in Nat
    /\ Cardinality(Counted) <= Width
    /\ Cardinality(Counted) = Width => AllIn
<1>1. Holders \in SUBSET Threads
  BY DEF Holders
<1>2. IsFiniteSet(Holders) /\ Cardinality(Holders) \in Nat
  BY <1>1, ThreadFacts, FS_Subset, FS_CardinalityType
<1>3. ASSUME NEW b PROVE IsFiniteSet(Pending(b)) /\ Cardinality(Pending(b)) \in Nat
                         /\ Cardinality(Pending(b)) <= Width
  <2>1. Pending(b) \in SUBSET Workers
    BY DEF Pending
  <2> QED
    BY <2>1, ThreadFacts, FS_Subset, FS_CardinalityType
<1>4. Counted \in SUBSET Workers
  BY DEF Counted
<1>5. /\ IsFiniteSet(Counted) /\ Cardinality(Counted) \in Nat
      /\ Cardinality(Counted) <= Width
      /\ Cardinality(Counted) = Width => Counted = Workers
  BY <1>4, ThreadFacts, FS_Subset, FS_CardinalityType
<1> QED
  BY <1>2, <1>3, <1>5 DEF Counted, AllIn

(* A thread that holds a unit of work keeps the count and the references   *)
(* of the workers up, so nothing is released under it.                     *)
LEMMA HoldersKeep ==
    ASSUME Inv, NEW t \in Threads, Holds(t)
    PROVE  /\ work_cnt >= 1
           /\ \A u \in Threads : ~Leaver(u)
           /\ \A w \in Workers : refs[w] >= 1
<1>1. t \in Holders
  BY DEF Holders
<1>2. Cardinality(Holders) >= 1
  BY <1>1, HoldersFinite, FS_EmptySet
<1>3. work_cnt >= 1
  BY <1>2, HoldersFinite DEF Inv, WorkOK
<1>4. \A u \in Threads : ~Leaver(u)
  BY <1>3 DEF Inv, WorkOK
<1>5. known = Workers
  BY AllKnown DEF Holds, CallPCs, EnteringPCs
<1>6. \A w \in Workers : ~Released(w)
  BY <1>3 DEF Released, Inv, TypeOK
<1>7. ASSUME NEW w \in Workers PROVE refs[w] >= 1
  BY <1>5, <1>6 DEF Inv, RefsOK
<1> QED
  BY <1>3, <1>4, <1>7

-----------------------------------------------------------------------------
(* Frame lemmas: what a part of the invariant depends on.                  *)
LEMMA EnterFrame ==
    ASSUME Inv, UNCHANGED <<known, enter_cnt>>,
           \A w \in Workers :
               \/ pc'[w] = pc[w]
               \/ Entered(w) /\ Entered(w)'
               \/ {pc[w], pc'[w]} \subseteq {"unborn", "create", "init", "enter"},
           \A t \in Threads : pc'[t] = pc[t] \/ pc'[t] \in EnteringPCs \/ AllIn,
           first' = first \/ AllIn
    PROVE  EnterOK'
<1>1. Counted' = Counted /\ (AllIn' <=> AllIn)
  BY DEF Counted, AllIn, Entered
<1>2. \A w \in Workers : w \in known' <=>
          pc'[w] \notin {"unborn", "create", "init", "enter"}
  BY DEF Inv, EnterOK, Entered
<1> QED
  BY <1>1, <1>2 DEF Inv, EnterOK

LEMMA WorkFrame ==
    ASSUME Inv, UNCHANGED <<work_cnt, first>>,
           \A t \in Threads : Holds(t)' <=> Holds(t),
           \A t \in Threads : Leaver(t)' => Leaver(t)
    PROVE  WorkOK'
<1>1. Holders' = Holders
  BY DEF Holders
<1> QED
  BY <1>1 DEF Inv, WorkOK

LEMMA RefsFrame ==
    ASSUME Inv, UNCHANGED <<refs, known, work_cnt>>,
           \A w \in Workers : OwnHeld(w)' <=> OwnHeld(w),
           \A t \in Threads : Leaver(t)' <=> Leaver(t),
           \A t \in Threads, w \in Workers : Leaver(t) => (Passed(t, w)' <=> Passed(t, w))
    PROVE  RefsOK'
<1>1. ASSUME NEW w \in Workers PROVE Released(w)' <=> Released(w)
  BY DEF Released
<1> QED
  BY <1>1 DEF Inv, RefsOK

LEMMA WakeFrame ==
    ASSUME Inv, UNCHANGED <<list, qrefs, signals, need_drain>>, known \subseteq known',
           \A t \in Threads, w \in Workers : Sends(t, w)' <=> Sends(t, w),
           \A t \in Threads : pc'[t] = "signal" <=> pc[t] = "signal",
           \A w \in Workers : pc'[w] = "unhold" <=> pc[w] = "unhold",
           \A w \in Workers : pc'[w] \in {"local", "body", "next"} => w \in need_drain,
           \A w \in Workers : pc'[w] \notin {"unborn", "create", "init"} =>
               pc[w] \notin {"unborn", "create", "init"}
    PROVE  WakeOK' /\ QrefsOK'
<1>1. \A w \in Workers : Drains(w)' <=> Drains(w)
  BY DEF Drains
<1>2. WakeOK'
  BY <1>1 DEF Inv, WakeOK
<1>3. QrefsOK'
  <2>1. ASSUME NEW w \in Workers, pc'[w] \notin {"unborn", "create", "init"}
        PROVE  qrefs'[w] = 1 + signals'[w] + (IF w \in need_drain' THEN 1 ELSE 0)
                     + (IF \E t \in Threads : Sends(t, w)' /\ pc'[t] = "signal"
                        THEN 1 ELSE 0)
    <3>1. (\E t \in Threads : Sends(t, w)' /\ pc'[t] = "signal") <=>
          (\E t \in Threads : Sends(t, w) /\ pc[t] = "signal")
      OBVIOUS
    <3> QED
      BY <2>1, <3>1 DEF Inv, QrefsOK
  <2> QED
    BY <2>1 DEF QrefsOK
<1> QED
  BY <1>2, <1>3

LEMMA StopFrame ==
    ASSUME Inv, UNCHANGED <<refs, list, stopped>>,
           \A t \in Threads, w \in Workers : StopPusher(t, w)' => StopPusher(t, w),
           \A w \in stopped : pc'[w] = pc[w] \/ (pc'[w] \in {"check", "left"} /\ pc[w] # "next"),
           \A w \in Workers : pc'[w] = "left" => w \in stopped
    PROVE  StopOK'
<1>1. \A w \in Workers : StopListed(w)' <=> StopListed(w)
  BY DEF StopListed
<1>2. stopped \subseteq Workers
  BY DEF Inv, TypeOK
<1> QED
  BY <1>1, <1>2 DEF Inv, StopOK

(* The barriers, when nobody comes closer to running its part.             *)
LEMMA WaitsFrame ==
    ASSUME Inv, UNCHANGED <<list, brefs, barrier, after_del>>, fd' => fd,
           \A t \in Threads : pc'[t] \in CallPCs /\ why'[t] = "barrier" <=>
               pc[t] \in CallPCs /\ why[t] = "barrier",
           \A t \in Threads : pc[t] \in CallPCs /\ why[t] = "barrier" =>
               /\ job'[t] = job[t] /\ target'[t] = target[t]
               /\ pc'[t] = "push" <=> pc[t] = "push",
           \A w \in Workers : pc'[w] \in {"body", "next"} <=> pc[w] \in {"body", "next"},
           \A w \in Workers : pc'[w] = "body" => pc[w] = "body",
           \A w \in Workers : pc'[w] = "dispatch" => pc[w] = "dispatch" \/ fd
    PROVE  ListsOK' /\ BarrierOK' /\ DrainOK'
<1>1. \A t \in Threads : \A b \in Barriers : Pushing(t, b)' <=> Pushing(t, b)
  BY DEF Pushing
<1>2. \A t \in Threads : \A b \in Barriers : \A w \in Workers :
          Pushing(t, b) => (ToCome(t, w)' <=> ToCome(t, w))
  BY DEF Pushing, ToCome
<1>3. \A w \in Workers : \A p : Ran(w, p)' <=> Ran(w, p)
  BY DEF Ran
<1>4. ASSUME NEW b \in Barriers PROVE Pending(b)' = Pending(b)
  <2>1. ASSUME NEW w \in Workers PROVE Waits(w, b)' <=> Waits(w, b)
    BY <1>1, <1>2, <1>3 DEF Waits
  <2> QED
    BY <2>1 DEF Pending
<1>5. ListsOK'
  BY <1>1, <1>2 DEF Inv, ListsOK
<1>6. BarrierOK'
  BY <1>4 DEF Inv, BarrierOK
<1>7. DrainOK'
  <2>1. after_del \subseteq Barriers
    BY DEF Inv, TypeOK
  <2> QED
    BY <1>4, <2>1 DEF Inv, DrainOK
<1> QED
  BY <1>5, <1>6, <1>7

-----------------------------------------------------------------------------
LEMMA InitInv == Init => Inv
<1> SUFFICES ASSUME Init PROVE Inv
  OBVIOUS
<1> USE ThreadFacts
<1>1. TypeOK
  <2>1. list \in [Workers -> Seq(Jobs)]
    BY DEF Init, Jobs
  <2>2. /\ enter_cnt \in 0..Width /\ events \in 0..MaxEvents /\ work_cnt \in Nat
        /\ refs \in [Workers -> 0..2] /\ qrefs \in [Workers -> Nat]
        /\ signals \in [Workers -> Nat] /\ brefs \in [Barriers -> 0..Width]
        /\ target \in [Threads -> Workers]
    BY WorkerWidth, WorkerBounds DEF Init
  <2>3. job \in [Threads -> Jobs]
    BY DEF Init, Jobs
  <2> QED
    BY <2>1, <2>2, <2>3, Zenon DEF Init, TypeOK
<1>2. ControlOK
  BY DEF Init, ControlOK, ThreadOK, CallPCs
<1>3. \A w \in Workers : ~Entered(w)
  BY DEF Init, Entered
<1>4. EnterOK
  <2>1. Counted = {}
    BY <1>3 DEF Counted
  <2>2. enter_cnt = Cardinality(Counted)
    BY <2>1, FS_EmptySet DEF Init
  <2> QED
    BY <2>2 DEF Init, EnterOK, EnteringPCs
<1>5. WorkOK
  <2>1. Holders = {}
    BY DEF Init, Holders, Holds, CallPCs
  <2>2. work_cnt = Cardinality(Holders) + (IF first THEN 1 ELSE 0)
    BY <2>1, FS_EmptySet DEF Init
  <2> QED
    BY <2>2 DEF Init, WorkOK, Leaver, CallPCs
<1>6. RefsOK
  BY DEF Init, RefsOK, OwnHeld
<1>7. WakeOK /\ QrefsOK
  BY DEF Init, WakeOK, QrefsOK, Sends, Drains
<1>8. StopOK
  BY DEF Init, StopOK, StopPusher
<1>9. ListsOK
  BY DEF Init, ListsOK, Pushing, CallPCs
<1>10. \A b \in Barriers : Pending(b) = {}
  BY DEF Init, Pending, Waits, Pushing, CallPCs
<1>11. BarrierOK
  BY <1>10, FS_EmptySet DEF Init, BarrierOK
<1>12. DrainOK
  BY DEF Init, DrainOK
<1> QED
  BY <1>1, <1>2, <1>4, <1>5, <1>6, <1>7, <1>8, <1>9, <1>11, <1>12 DEF Inv

(* Steps of the service loop, of the application and of epoll that change  *)
(* nothing but the position of their thread.                               *)
LEMMA PlainStep ==
    ASSUME Inv, NEW t \in Threads, NEW x,
           pc' = [pc EXCEPT ![t] = x],
           UNCHANGED <<refs, local_vars, known, enter_cnt, work_cnt, first,
                       flag_vars, call_vars, bar_vars>>,
           fd' \in BOOLEAN, fd' => fd, events' \in 0..MaxEvents, freed' \in BOOLEAN,
           \/ /\ t \in Workers
              /\ pc[t] \in {"check", "combine", "wait", "dispatch", "returned"}
              /\ x \in {"check", "combine", "wait", "dispatch", "returned", "local", "left"}
              /\ t \in stopped <=> x = "left"
              /\ x = "local" => t \in need_drain
              /\ x = "dispatch" => fd
           \/ pc[t] = "app" /\ x \in {"app", "leave"}
    PROVE  Inv'
<1> USE ThreadFacts DEF local_vars, flag_vars, call_vars, bar_vars
<1>1. /\ \A u \in Threads : pc'[u] = IF u = t THEN x ELSE pc[u]
      /\ stopped \subseteq Workers
  BY DEF Inv, TypeOK
<1>2. AllIn
  BY AllKnown DEF EnteringPCs
<1>3. TypeOK'
  BY DEF Inv, TypeOK
<1>4. ControlOK'
  BY <1>1 DEF Inv, ControlOK, ThreadOK, CallPCs
<1>5. EnterOK'
  BY <1>1, <1>2, EnterFrame DEF Entered
<1>6. WorkOK'
  BY <1>1, WorkFrame DEF Holds, Leaver, CallPCs
<1>7. RefsOK'
  BY <1>1, RefsFrame DEF OwnHeld, Leaver, Passed, CallPCs
<1>8. WakeOK' /\ QrefsOK'
  <2>1. \A w \in Workers : pc[w] \in {"local", "body", "next"} => w \in need_drain
    BY DEF Inv, WakeOK
  <2> QED
    BY <1>1, <2>1, WakeFrame DEF Sends
<1>9. StopOK'
  <2>1. \A w \in Workers : pc[w] = "left" => w \in stopped
    BY DEF Inv, StopOK
  <2>2. \A w \in stopped : pc[w] \in {"next", "unhold", "check", "left"}
    BY <1>1 DEF Inv, StopOK
  <2>3. \A w \in stopped : pc'[w] = pc[w] \/ (pc'[w] \in {"check", "left"} /\ pc[w] # "next")
    BY <1>1, <2>2
  <2>4. \A w \in Workers : pc'[w] = "left" => w \in stopped
    BY <1>1, <2>1
  <2>5. \A u \in Threads, w \in Workers : StopPusher(u, w)' => StopPusher(u, w)
    BY <1>1 DEF StopPusher
  <2> QED
    BY <2>3, <2>4, <2>5, StopFrame
<1>10. ListsOK' /\ BarrierOK' /\ DrainOK'
  BY <1>1, WaitsFrame DEF CallPCs
<1> QED
  BY <1>3, <1>4, <1>5, <1>6, <1>7, <1>8, <1>9, <1>10 DEF Inv

-----------------------------------------------------------------------------
(* Entering.                                                               *)
LEMMA NotReleasedBefore ==
    ASSUME Inv, ~AllIn
    PROVE  /\ first /\ work_cnt >= 1
           /\ \A w \in Workers : ~Released(w)
           /\ \A t \in Threads : pc[t] \in EnteringPCs \cup {"idle"}
<1>1. first /\ \A t \in Threads : pc[t] \in EnteringPCs \cup {"idle"}
  BY DEF Inv, EnterOK
<1>2. work_cnt >= 1
  BY <1>1, HoldersFinite DEF Inv, WorkOK
<1> QED
  BY <1>1, <1>2 DEF Released, Inv, TypeOK

LEMMA CreateFollowerStep ==
    ASSUME Inv, CreateFollower
    PROVE  Inv'
<1> USE ThreadFacts DEF local_vars, loop_vars, flag_vars, bar_vars, epoll_vars
<1>1. /\ pc[1] = "create" /\ target[1] \in Workers
      /\ UNCHANGED <<refs, local_vars, loop_vars, flag_vars, why, job, bar_vars, epoll_vars>>
  BY DEF CreateFollower, Inv, TypeOK
<1>2. PICK v \in Workers :
        /\ pc' = [pc EXCEPT ![v] = "init"]
        /\ pc[v] = (IF target[1] < Width THEN "unborn" ELSE "create")
        /\ v = IF target[1] < Width THEN target[1] + 1 ELSE 1
        /\ \A u \in Threads : u # 1 => target'[u] = target[u]
        /\ target'[1] = IF target[1] < Width THEN target[1] + 1 ELSE target[1]
  <2>1. target[1] < Width => target[1] + 1 \in Workers /\ target[1] + 1 > target[1]
    BY <1>1, WorkerWidth DEF Workers
  <2>2. target[1] < Width => pc[target[1] + 1] = "unborn"
    BY <2>1, <1>1 DEF Inv, ControlOK
  <2>3. CASE target[1] < Width
    <3>1. /\ pc' = [pc EXCEPT ![target[1] + 1] = "init"]
          /\ \A u \in Threads : u # 1 => target'[u] = target[u]
          /\ target'[1] = target[1] + 1
      BY <2>1, <2>3 DEF CreateFollower, Inv, TypeOK
    <3> QED
      BY <3>1, <2>1, <2>2, <2>3
  <2>4. CASE ~(target[1] < Width)
    <3>1. /\ pc' = [pc EXCEPT ![1] = "init"]
          /\ target' = target
      BY <2>4 DEF CreateFollower, Go, Inv, TypeOK
    <3> QED
      BY <3>1, <1>1, <2>4
  <2> QED
    BY <2>3, <2>4
<1>3. TypeOK'
  <2>1. target' \in [Threads -> Workers]
    <3>1. target[1] < Width => target[1] + 1 \in Workers
      BY <1>1, WorkerWidth DEF Workers
    <3> QED
      BY <3>1 DEF CreateFollower, Inv, TypeOK
  <2> QED
    BY <2>1, <1>1, <1>2 DEF Inv, TypeOK
<1>a. \A u \in Threads : pc'[u] = IF u = v THEN "init" ELSE pc[u]
  BY <1>2 DEF Inv, TypeOK
<1>4. ControlOK'
  <2>1. \A t \in Threads : ThreadOK(t)'
    BY <1>1, <1>2, <1>a DEF Inv, ControlOK, ThreadOK, CallPCs
  <2>2. ASSUME pc'[1] = "create", NEW w \in Workers, w > target'[1]
        PROVE  pc'[w] = "unborn"
    <3>1. v # 1 /\ target[1] < Width /\ v = target[1] + 1
      BY <2>2, <1>a, <1>1, <1>2
    <3>2. w > target[1] /\ w # v
      BY <2>2, <3>1, <1>1, <1>2 DEF Workers
    <3> QED
      BY <3>2, <1>a, <1>1 DEF Inv, ControlOK
  <2> QED
    BY <2>1, <2>2 DEF ControlOK
<1>5. EnterOK'
  BY <1>1, <1>2, <1>a, EnterFrame DEF Entered, EnteringPCs
<1>6. WorkOK'
  BY <1>1, <1>2, <1>a, WorkFrame DEF Holds, Leaver, CallPCs
<1>7. ~AllIn
  BY <1>1 DEF AllIn, Entered
<1>8. \A t \in Threads : ~Leaver(t)
  BY <1>7, NotReleasedBefore DEF Leaver, CallPCs, EnteringPCs
<1>9. \A t \in Threads : ~Leaver(t)'
  BY <1>1, <1>2, <1>a, <1>8 DEF Leaver, CallPCs
<1>10. RefsOK'
  <2>1. \A w \in Workers : OwnHeld(w)' <=> OwnHeld(w)
    BY <1>1, <1>2, <1>a DEF OwnHeld
  <2> QED
    BY <1>1, <1>8, <1>9, <2>1, RefsFrame
<1>11. WakeOK' /\ QrefsOK'
  <2>1. \A t \in Threads, w \in Workers : ~Sends(t, w)
    BY <1>7, NotReleasedBefore DEF Sends, EnteringPCs
  <2>2. \A t \in Threads, w \in Workers : ~Sends(t, w)'
    BY <1>7, <1>2, <1>a, NotReleasedBefore DEF Sends, EnteringPCs
  <2> QED
    BY <1>1, <1>2, <1>a, <1>7, <2>1, <2>2, NotReleasedBefore, WakeFrame DEF EnteringPCs
<1>12. StopOK'
  <2>1. stopped = {}
    BY <1>7, NotReleasedBefore DEF Inv, StopOK, EnteringPCs, TypeOK
  <2> QED
    BY <1>1, <1>2, <1>a, <1>7, <2>1, NotReleasedBefore, StopFrame DEF StopPusher, EnteringPCs
<1>13. ListsOK' /\ BarrierOK' /\ DrainOK'
  BY <1>1, <1>2, <1>a, <1>7, NotReleasedBefore, WaitsFrame DEF CallPCs, EnteringPCs
<1> QED
  BY <1>3, <1>4, <1>5, <1>6, <1>10, <1>11, <1>12, <1>13 DEF Inv

LEMMA WorkerInitStep ==
    ASSUME Inv, NEW w \in Workers, WorkerInit(w)
    PROVE  Inv'
<1> USE ThreadFacts DEF local_vars, loop_vars, flag_vars, call_vars, bar_vars, epoll_vars
<1>1. /\ pc[w] = "init"
      /\ \A u \in Threads : pc'[u] = IF u = w THEN "enter" ELSE pc[u]
      /\ \A v \in Workers : refs'[v] = IF v = w THEN 1 ELSE refs[v]
      /\ \A v \in Workers : qrefs'[v] = IF v = w THEN 1 ELSE qrefs[v]
      /\ UNCHANGED <<list, signals, loop_vars, flag_vars, call_vars, bar_vars, epoll_vars>>
  BY DEF WorkerInit, Go, Inv, TypeOK
<1>2. TypeOK'
  <2>1. refs' \in [Workers -> 0..2] /\ qrefs' \in [Workers -> Nat]
    BY DEF WorkerInit, Inv, TypeOK
  <2> QED
    BY <2>1 DEF WorkerInit, Go, Inv, TypeOK
<1>3. ControlOK'
  BY <1>1 DEF Inv, ControlOK, ThreadOK, CallPCs
<1>4. EnterOK'
  BY <1>1, EnterFrame DEF Entered, EnteringPCs
<1>5. WorkOK'
  BY <1>1, WorkFrame DEF Holds, Leaver, CallPCs
<1>6. ~AllIn /\ w \notin known
  BY <1>1 DEF AllIn, Entered, Inv, EnterOK
<1>7. \A t \in Threads : pc[t] \in EnteringPCs \cup {"idle"}
  BY <1>6, NotReleasedBefore
<1>8. \A t \in Threads : ~Leaver(t) /\ ~Leaver(t)'
  BY <1>1, <1>7 DEF Leaver, CallPCs, EnteringPCs
<1>9. RefsOK'
  <2>1. \A v \in Workers : Released(v)' <=> Released(v)
    BY <1>1, <1>8 DEF Released
  <2>2. \A v \in Workers : v # w => (OwnHeld(v)' <=> OwnHeld(v))
    BY <1>1 DEF OwnHeld
  <2>3. OwnHeld(w)'
    BY <1>1 DEF OwnHeld
  <2> QED
    BY <1>1, <1>6, <2>1, <2>2, <2>3 DEF Inv, RefsOK
<1>10. \A t \in Threads, v \in Workers : ~Sends(t, v) /\ ~Sends(t, v)'
  BY <1>1, <1>7 DEF Sends, EnteringPCs
<1>11. WakeOK'
  <2>1. \A v \in Workers : Drains(v)' <=> Drains(v)
    BY <1>1 DEF Drains
  <2> QED
    BY <1>1, <1>10, <2>1 DEF Inv, WakeOK
<1>12. QrefsOK'
  BY <1>1, <1>6, <1>10 DEF Inv, QrefsOK, WakeOK
<1>13. StopOK'
  <2>1. \A t \in Threads, v \in Workers : ~StopPusher(t, v)'
    BY <1>1, <1>7 DEF StopPusher, EnteringPCs
  <2>2. stopped = {}
    BY <1>7 DEF Inv, StopOK, EnteringPCs, TypeOK
  <2>3. list[w] = <<>>
    BY <1>6, <1>10 DEF Inv, WakeOK, Drains
  <2> QED
    BY <1>1, <1>7, <2>1, <2>2, <2>3 DEF Inv, StopOK, EnteringPCs
<1>14. ListsOK' /\ BarrierOK' /\ DrainOK'
  BY <1>1, <1>7, WaitsFrame DEF CallPCs, EnteringPCs
<1> QED
  BY <1>2, <1>3, <1>4, <1>5, <1>9, <1>11, <1>12, <1>13, <1>14 DEF Inv

LEMMA WorkerEnterStep ==
    ASSUME Inv, NEW w \in Workers, WorkerEnter(w)
    PROVE  Inv'
<1> USE ThreadFacts DEF local_vars, loop_vars, flag_vars, call_vars, bar_vars, epoll_vars
<1>1. /\ pc[w] = "enter"
      /\ \A u \in Threads : pc'[u] = IF u = w THEN "count" ELSE pc[u]
      /\ \A v \in Workers : refs'[v] = IF v = w THEN refs[v] + 1 ELSE refs[v]
      /\ known' = known \cup {w}
      /\ UNCHANGED <<local_vars, enter_cnt, work_cnt, first, freed, flag_vars,
                     call_vars, bar_vars, epoll_vars>>
  BY DEF WorkerEnter, Go, Inv, TypeOK
<1>2. ~AllIn /\ w \notin known
  BY <1>1 DEF AllIn, Entered, Inv, EnterOK
<1>3. /\ \A t \in Threads : pc[t] \in EnteringPCs \cup {"idle"}
      /\ work_cnt >= 1 /\ first
  BY <1>2, NotReleasedBefore
<1>4. refs[w] = 1
  BY <1>1, <1>2 DEF Inv, RefsOK, OwnHeld
<1>5. TypeOK'
  <2>1. refs' \in [Workers -> 0..2]
    BY <1>4 DEF WorkerEnter, Inv, TypeOK
  <2> QED
    BY <2>1 DEF WorkerEnter, Go, Inv, TypeOK
<1>6. ControlOK'
  BY <1>1 DEF Inv, ControlOK, ThreadOK, CallPCs
<1>7. EnterOK'
  <2>1. Counted' = Counted
    BY <1>1 DEF Counted, Entered
  <2>2. \A t \in Threads : pc'[t] \in EnteringPCs \cup {"idle"}
    BY <1>1, <1>3 DEF EnteringPCs
  <2> QED
    BY <1>1, <1>3, <2>1, <2>2 DEF Inv, EnterOK
<1>8. WorkOK'
  BY <1>1, WorkFrame DEF Holds, Leaver, CallPCs
<1>9. RefsOK'
  <2>1. \A v \in Workers : ~Released(v)' /\ ~Released(v)
    BY <1>1, <1>3 DEF Released, Inv, TypeOK
  <2>2. \A v \in Workers : OwnHeld(v)' <=> OwnHeld(v)
    BY <1>1 DEF OwnHeld
  <2> QED
    BY <1>1, <1>2, <1>4, <2>1, <2>2 DEF Inv, RefsOK
<1>10. \A t \in Threads, v \in Workers : ~Sends(t, v) /\ ~Sends(t, v)'
  BY <1>1, <1>3 DEF Sends, EnteringPCs
<1>11. WakeOK' /\ QrefsOK'
  BY <1>1, <1>3, <1>10, WakeFrame DEF EnteringPCs
<1>12. StopOK'
  <2>1. \A t \in Threads, v \in Workers : ~StopPusher(t, v)'
    BY <1>1, <1>3 DEF StopPusher, EnteringPCs
  <2>2. stopped = {}
    BY <1>3 DEF Inv, StopOK, EnteringPCs, TypeOK
  <2>3. list[w] = <<>>
    BY <1>2, <1>10 DEF Inv, WakeOK, Drains
  <2> QED
    BY <1>1, <1>3, <2>1, <2>2, <2>3 DEF Inv, StopOK, EnteringPCs
<1>13. ListsOK' /\ BarrierOK' /\ DrainOK'
  BY <1>1, <1>3, WaitsFrame DEF CallPCs, EnteringPCs
<1> QED
  BY <1>5, <1>6, <1>7, <1>8, <1>9, <1>11, <1>12, <1>13 DEF Inv

(* The last worker to be counted wakes the others; all the workers are in. *)
LEMMA EnterBarrierStep ==
    ASSUME Inv, NEW w \in Workers, EnterBarrier(w)
    PROVE  Inv'
<1> USE ThreadFacts DEF local_vars, loop_vars, flag_vars, call_vars, bar_vars, epoll_vars
<1> DEFINE all == AllEntered(enter_cnt + 1)
<1>1. /\ pc[w] = "count"
      /\ enter_cnt' = enter_cnt + 1
      /\ \A u \in Threads : pc'[u] = IF u = w THEN IF all THEN "release" ELSE "asleep"
                     ELSE IF all /\ pc[u] = "asleep" THEN "awake" ELSE pc[u]
      /\ \A u \in Threads : why'[u] = IF u = w THEN "own" ELSE why[u]
      /\ \A u \in Threads : target'[u] = IF u = w THEN w ELSE target[u]
      /\ UNCHANGED <<refs, local_vars, known, work_cnt, first, freed, flag_vars,
                     job, bar_vars, epoll_vars>>
  BY DEF EnterBarrier, Inv, TypeOK
<1> HIDE DEF all
<1>2. ~AllIn /\ w \in known
  BY <1>1 DEF AllIn, Entered, Inv, EnterOK
<1>3. /\ \A t \in Threads : pc[t] \in EnteringPCs \cup {"idle"}
      /\ work_cnt >= 1 /\ first
  BY <1>2, NotReleasedBefore
<1>4. enter_cnt \in Nat /\ enter_cnt < Width /\ Cardinality(Counted') = enter_cnt + 1
  <2>1. w \notin Counted /\ Counted' = Counted \cup {w}
    BY <1>1 DEF Counted, Entered
  <2>2. enter_cnt = Cardinality(Counted) /\ IsFiniteSet(Counted)
    BY HoldersFinite DEF Inv, EnterOK
  <2>3. Cardinality(Counted) # Width
    BY <1>2, HoldersFinite
  <2>4. Cardinality(Counted') = Cardinality(Counted) + 1
    BY <2>1, <2>2, FS_AddElement
  <2> QED
    BY <2>2, <2>3, <2>4, HoldersFinite, WorkerWidth
<1>5. all => AllIn'
  <2>1. Counted' \in SUBSET Workers
    BY DEF Counted
  <2>2. Cardinality(Counted') <= Width
    BY <2>1, FS_Subset
  <2>3. all => Cardinality(Counted') = Width
    BY <1>4, <2>2, WorkerWidth DEF all, AllEntered
  <2>4. Cardinality(Counted') = Width => Counted' = Workers
    BY <2>1, FS_Subset
  <2> QED
    BY <2>3, <2>4 DEF Counted, AllIn
<1>6. TypeOK'
  <2>1. enter_cnt' \in 0..Width
    BY <1>1, <1>4, WorkerWidth
  <2>2. pc' \in [Threads -> PCs]
    BY DEF EnterBarrier, Inv, TypeOK, PCs, EnteringPCs, CallPCs
  <2>3. why' \in [Threads -> {"barrier", "leave", "own"}] /\ target' \in [Threads -> Workers]
    BY DEF EnterBarrier, Inv, TypeOK
  <2> QED
    BY <1>1, <2>1, <2>2, <2>3 DEF Inv, TypeOK, PCs, EnteringPCs, CallPCs
<1>7. ControlOK'
  BY <1>1 DEF Inv, ControlOK, ThreadOK, CallPCs
<1>8. EnterOK'
  <2>1. \A v \in Workers : v \in known' <=>
          pc'[v] \notin {"unborn", "create", "init", "enter"}
    BY <1>1 DEF Inv, EnterOK
  <2>2. \A t \in Threads : pc'[t] \in EnteringPCs \cup {"idle"} \/ all
    BY <1>1, <1>3 DEF EnteringPCs
  <2> QED
    BY <1>1, <1>3, <1>4, <1>5, <2>1, <2>2 DEF EnterOK
<1>9. \A t \in Threads : ~Leaver(t)' /\ ~Leaver(t)
  BY <1>1, <1>3 DEF Leaver, CallPCs, EnteringPCs
<1>10. WorkOK'
  <2>1. \A t \in Threads : Holds(t)' <=> Holds(t)
    BY <1>1, <1>3 DEF Holds, CallPCs, EnteringPCs
  <2> QED
    BY <1>1, <1>9, <2>1, WorkFrame
<1>11. RefsOK'
  <2>1. \A v \in Workers : OwnHeld(v)' <=> OwnHeld(v)
    BY <1>1 DEF OwnHeld
  <2> QED
    BY <1>1, <1>9, <2>1, RefsFrame
<1>12. \A t \in Threads, v \in Workers : ~Sends(t, v) /\ ~Sends(t, v)'
  BY <1>1, <1>3 DEF Sends, EnteringPCs
<1>13. WakeOK' /\ QrefsOK'
  <2>1. \A v \in Workers : pc'[v] \notin {"local", "body", "next", "unhold", "signal"}
    BY <1>1, <1>3 DEF EnteringPCs
  <2>2. \A t \in Threads : pc'[t] # "signal" /\ pc[t] # "signal"
    BY <1>1, <1>3 DEF EnteringPCs
  <2>3. \A v \in Workers : pc'[v] \notin {"unborn", "create", "init"} =>
               pc[v] \notin {"unborn", "create", "init"}
    BY <1>1
  <2>4. \A v \in Workers : pc[v] # "unhold"
    BY <1>3 DEF EnteringPCs
  <2> QED
    BY <1>1, <1>12, <2>1, <2>2, <2>3, <2>4, WakeFrame
<1>14. StopOK'
  <2>1. \A t \in Threads, v \in Workers : ~StopPusher(t, v)'
    BY <1>1, <1>3 DEF StopPusher, EnteringPCs
  <2>2. stopped = {}
    BY <1>3 DEF Inv, StopOK, EnteringPCs, TypeOK
  <2>3. \A v \in Workers : pc'[v] # "left"
    BY <1>1, <1>3 DEF EnteringPCs
  <2> QED
    BY <1>1, <2>1, <2>2, <2>3, StopFrame
<1>15. ListsOK' /\ BarrierOK' /\ DrainOK'
  BY <1>1, <1>3, WaitsFrame DEF CallPCs, EnteringPCs
<1> QED
  BY <1>6, <1>7, <1>8, <1>10, <1>11, <1>13, <1>14, <1>15 DEF Inv

LEMMA EnterWakesStep ==
    ASSUME Inv, NEW w \in Workers, EnterWakes(w)
    PROVE  Inv'
<1> USE ThreadFacts DEF local_vars, loop_vars, flag_vars, call_vars, bar_vars, epoll_vars
<1>1. PICK x \in {"release", "asleep"} :
        /\ \A u \in Threads : pc'[u] = IF u = w THEN x ELSE pc[u]
        /\ x = "release" => enter_cnt >= Width
  BY DEF EnterWakes, Go, AllEntered, Inv, TypeOK
<1>2. /\ pc[w] \in {"asleep", "awake"}
      /\ UNCHANGED <<refs, local_vars, loop_vars, flag_vars, call_vars, bar_vars, epoll_vars>>
      /\ why[w] = "own" /\ target[w] = w
  BY DEF EnterWakes, Inv, ControlOK, ThreadOK
<1>3. x = "release" => AllIn
  BY <1>1, HoldersFinite, WorkerWidth DEF Inv, EnterOK
<1>4. TypeOK'
  BY DEF EnterWakes, Go, Inv, TypeOK
<1>5. ControlOK'
  BY <1>1, <1>2 DEF Inv, ControlOK, ThreadOK, CallPCs
<1>6. EnterOK'
  BY <1>1, <1>2, <1>3, EnterFrame DEF Entered, EnteringPCs
<1>7. WorkOK'
  BY <1>1, <1>2, WorkFrame DEF Holds, Leaver, CallPCs
<1>8. RefsOK'
  BY <1>1, <1>2, RefsFrame DEF OwnHeld, Leaver, Passed, CallPCs
<1>9. WakeOK' /\ QrefsOK'
  <2>1. \A v \in Workers : pc[v] \in {"local", "body", "next"} => v \in need_drain
    BY DEF Inv, WakeOK
  <2> QED
    BY <1>1, <1>2, <2>1, WakeFrame DEF Sends
<1>10. StopOK'
  <2>1. \A v \in Workers : pc[v] = "left" => v \in stopped
    BY DEF Inv, StopOK
  <2>2. \A v \in stopped : v \in Workers /\ pc[v] \in {"next", "unhold", "check", "left"}
    BY DEF Inv, StopOK, TypeOK
  <2>3. \A t \in Threads, v \in Workers : StopPusher(t, v)' => StopPusher(t, v)
    BY <1>1, <1>2 DEF StopPusher
  <2> QED
    BY <1>1, <1>2, <2>1, <2>2, <2>3, StopFrame
<1>11. ListsOK' /\ BarrierOK' /\ DrainOK'
  BY <1>1, <1>2, WaitsFrame DEF CallPCs
<1> QED
  BY <1>4, <1>5, <1>6, <1>7, <1>8, <1>9, <1>10, <1>11 DEF Inv

-----------------------------------------------------------------------------
(* Pushing to a local queue, and releasing a worker.                       *)

(* Proceed leaves the push or the release of one worker for the next one,  *)
(* or leaves the call.                                                     *)
LEMMA ProceedEffect ==
    ASSUME Inv, NEW t \in Threads, Proceed(t)
    PROVE  /\ pc' \in [Threads -> PCs] /\ target' \in [Threads -> Workers]
           /\ \A u \in Threads : u # t => pc'[u] = pc[u] /\ target'[u] = target[u]
           /\ \/ /\ why[t] = "barrier" /\ target[t] < Width
                 /\ target'[t] = target[t] + 1 /\ pc'[t] = "push"
              \/ /\ why[t] = "leave" /\ target[t] < Width
                 /\ target'[t] = target[t] + 1 /\ pc'[t] = "release"
              \/ why[t] = "own" /\ target'[t] = target[t] /\ pc'[t] = "check"
              \/ /\ why[t] = "barrier" /\ target[t] = Width
                 /\ target'[t] = target[t] /\ pc'[t] = "app"
              \/ /\ why[t] = "leave" /\ target[t] = Width
                 /\ target'[t] = target[t] /\ pc'[t] = Home(t)
<1> USE ThreadFacts
<1>1. /\ why[t] \in {"barrier", "leave", "own"} /\ target[t] \in Workers
      /\ target \in [Threads -> Workers]
      /\ target[t] <= Width /\ target[t] \in Nat
      /\ target[t] < Width => target[t] + 1 \in Workers
  BY DEF Inv, TypeOK
<1>2. pc \in [Threads -> PCs]
  BY DEF Inv, TypeOK, PCs, EnteringPCs, CallPCs
<1>3. Home(t) \in PCs
  BY DEF Home, PCs
<1>4. {"push", "release", "check", "app"} \subseteq PCs
  BY DEF PCs, CallPCs
<1>5. CASE why[t] # "own" /\ target[t] < Width
  <2>1. /\ target' = [target EXCEPT ![t] = target[t] + 1]
        /\ pc' = [pc EXCEPT ![t] = IF why[t] = "barrier" THEN "push" ELSE "release"]
    BY <1>5 DEF Proceed, Go
  <2> QED
    BY <1>1, <1>2, <1>4, <1>5, <2>1
<1>6. CASE why[t] = "own"
  <2>1. target' = target /\ pc' = [pc EXCEPT ![t] = "check"]
    BY <1>6 DEF Proceed, Go
  <2> QED
    BY <1>1, <1>2, <1>4, <1>6, <2>1
<1>7. CASE why[t] # "own" /\ ~(target[t] < Width)
  <2>0. target[t] = Width
    BY <1>1, <1>7, WorkerWidth
  <2>1. CASE why[t] = "barrier"
    <3>1. target' = target /\ pc' = [pc EXCEPT ![t] = "app"]
      BY <1>7, <2>1 DEF Proceed, Go
    <3> QED
      BY <1>1, <1>2, <1>4, <2>0, <2>1, <3>1
  <2>2. CASE why[t] = "leave"
    <3>1. target' = target /\ pc' = [pc EXCEPT ![t] = Home(t)]
      BY <1>7, <2>2 DEF Proceed, Go
    <3> QED
      BY <1>1, <1>2, <1>3, <2>0, <2>2, <3>1
  <2> QED
    BY <1>1, <1>7, <2>1, <2>2
<1> QED
  BY <1>5, <1>6, <1>7

(* Proceed at the end of a push: what it cannot disturb.                   *)
LEMMA ProceedFrame ==
    ASSUME Inv, NEW t \in Threads, pc[t] \in CallPCs, Proceed(t),
           UNCHANGED <<refs, known, enter_cnt, work_cnt, first, why, job>>
    PROVE  ControlOK' /\ EnterOK' /\ WorkOK' /\ RefsOK'
<1> USE ThreadFacts, ProceedEffect
<1>1. AllIn
  BY AllKnown DEF CallPCs, EnteringPCs
<1>2. pc'[t] \in {"push", "release", "check", "app", "idle", "combine"}
  BY DEF Home
<1>3. ControlOK'
  <2>1. \A u \in Threads : u # t => ThreadOK(u)'
    BY DEF Inv, ControlOK, ThreadOK
  <2>2. ThreadOK(t)'
    BY DEF Inv, ControlOK, ThreadOK, CallPCs, Home
  <2>3. pc'[1] # "create"
    BY <1>1, <1>2 DEF AllIn, Entered
  <2> QED
    BY <2>1, <2>2, <2>3 DEF ControlOK
<1>4. EnterOK'
  BY <1>1, <1>2, EnterFrame DEF AllIn, Entered
<1>5. WorkOK'
  <2>1. \A u \in Threads : Holds(u)' <=> Holds(u)
    BY DEF Holds, CallPCs, Home
  <2>2. \A u \in Threads : Leaver(u)' => Leaver(u)
    BY DEF Leaver, CallPCs, Home
  <2> QED
    BY <2>1, <2>2, WorkFrame
<1>6. RefsOK'
  <2>1. \A w \in Workers : OwnHeld(w)' <=> OwnHeld(w)
    BY DEF OwnHeld, CallPCs, Home
  <2>2. target[t] \in Nat
    BY DEF Inv, TypeOK
  <2>3. \A w \in Workers : Leaver(t) /\ Leaver(t)' => (Passed(t, w)' <=> Passed(t, w))
    BY <2>2 DEF Leaver, Passed, CallPCs, Home
  <2>4. \A w \in Workers : Leaver(t) /\ ~Leaver(t)' => Passed(t, w)
    BY <2>2 DEF Leaver, Passed, CallPCs, Home
  <2>5. Leaver(t)' => Leaver(t)
    BY DEF Leaver, CallPCs, Home
  <2>6. \A w \in Workers, u \in Threads : u # t =>
            (Leaver(u)' <=> Leaver(u)) /\ (Passed(u, w)' <=> Passed(u, w))
    BY DEF Leaver, Passed
  <2>7. \A w \in Workers : Released(w)' <=> Released(w)
    BY <2>3, <2>4, <2>5, <2>6 DEF Released
  <2> QED
    BY <2>1, <2>7 DEF Inv, RefsOK
<1> QED
  BY <1>3, <1>4, <1>5, <1>6

(* The push to the target is over, the ones to the workers after it are    *)
(* still to come.                                                          *)
LEMMA ProceedComes ==
    ASSUME Inv, NEW t \in Threads, pc[t] \in CallPCs, Proceed(t), UNCHANGED <<why, job>>
    PROVE  \A u \in Threads, b \in Barriers :
               /\ Pushing(u, b)' => Pushing(u, b)
               /\ \A v \in Workers : (Pushing(u, b)' /\ ToCome(u, v)') <=>
                    (Pushing(u, b) /\ ToCome(u, v) /\ ~(u = t /\ v = target[t]))
<1> USE ThreadFacts, ProceedEffect
<1>1. target[t] \in Nat /\ target[t] <= Width /\ Width \in Nat
  BY WorkerWidth DEF Inv, TypeOK
<1>2. ASSUME NEW u \in Threads, NEW b \in Barriers, u # t
      PROVE  /\ Pushing(u, b)' <=> Pushing(u, b)
             /\ \A v \in Workers : ToCome(u, v)' <=> ToCome(u, v)
  BY <1>2 DEF Pushing, ToCome
<1>3. ASSUME NEW b \in Barriers PROVE Pushing(t, b)' => Pushing(t, b)
  BY DEF Pushing, CallPCs, Home
<1>4. ASSUME NEW b \in Barriers, NEW v \in Workers
      PROVE  (Pushing(t, b)' /\ ToCome(t, v)') <=>
                    (Pushing(t, b) /\ ToCome(t, v) /\ v # target[t])
  <2>1. CASE why[t] = "barrier" /\ target[t] < Width
    BY <1>1, <2>1 DEF Pushing, ToCome, CallPCs
  <2>2. CASE why[t] = "barrier" /\ target[t] = Width
    <3>1. pc'[t] = "app" /\ v <= target[t]
      BY <1>1, <2>2
    <3> QED
      BY <1>1, <3>1 DEF Pushing, ToCome, CallPCs
  <2>3. CASE why[t] # "barrier"
    BY <2>3 DEF Pushing
  <2> QED
    BY <1>1, <2>1, <2>2, <2>3
<1> QED
  BY <1>2, <1>3, <1>4

(* The barriers, when the same parts of them are pending.                  *)
LEMMA PendingFrame ==
    ASSUME Inv, UNCHANGED <<brefs, barrier, after_del>>, fd' => fd,
           \A b \in Barriers, w \in Workers : Waits(w, b)' <=> Waits(w, b),
           \A w \in Workers : pc'[w] = "body" => pc[w] = "body" /\ list'[w][1] = list[w][1],
           \A w \in Workers : pc'[w] = "dispatch" => pc[w] = "dispatch" \/ fd
    PROVE  BarrierOK' /\ DrainOK'
<1>1. \A b \in Barriers : Pending(b)' = Pending(b)
  BY DEF Pending
<1>2. BarrierOK'
  BY <1>1 DEF Inv, BarrierOK
<1>3. after_del \subseteq Barriers
  BY DEF Inv, TypeOK
<1>4. DrainOK'
  BY <1>1, <1>3 DEF Inv, DrainOK
<1> QED
  BY <1>2, <1>4

LEMMA SendSignalStep ==
    ASSUME Inv, NEW t \in Threads, SendSignal(t)
    PROVE  Inv'
<1> USE ThreadFacts DEF local_vars, loop_vars, flag_vars, bar_vars, epoll_vars
<1>1. /\ pc[t] = "signal" /\ pc[t] \in CallPCs /\ Proceed(t)
      /\ UNCHANGED <<refs, list, qrefs, loop_vars, flag_vars, why, job, bar_vars, epoll_vars>>
      /\ signals' = [signals EXCEPT ![target[t]] = @ + 1]
  BY DEF SendSignal, CallPCs
<1>2. PICK w \in Workers : w = target[t]
  BY DEF Inv, TypeOK
<1>3. \A v \in Workers : signals'[v] = IF v = w THEN signals[v] + 1 ELSE signals[v]
  BY <1>1, <1>2 DEF Inv, TypeOK
<1>4. /\ \A u \in Threads : u # t => pc'[u] = pc[u] /\ target'[u] = target[u]
      /\ pc'[t] \in {"push", "release", "check", "app", "idle", "combine"}
  BY <1>1, ProceedEffect DEF Home
<1>5. StopOK'
  <2>1. \A u \in Threads, v \in Workers : StopPusher(u, v)' => StopPusher(u, v)
    BY <1>1, ProceedEffect DEF StopPusher, Home
  <2>2. \A v \in Workers : pc[v] = "left" => v \in stopped
    BY DEF Inv, StopOK
  <2>3. \A v \in stopped : v \in Workers /\ pc[v] \in {"next", "unhold", "check", "left"}
    BY DEF Inv, StopOK, TypeOK
  <2> QED
    BY <1>1, <1>4, <2>1, <2>2, <2>3, StopFrame
<1>6. ControlOK' /\ EnterOK' /\ WorkOK' /\ RefsOK'
  BY <1>1, ProceedFrame
<1>7. TypeOK'
  <2>1. signals' \in [Workers -> Nat]
    BY <1>1, <1>2 DEF Inv, TypeOK
  <2> QED
    BY <1>1, <2>1, ProceedEffect DEF Inv, TypeOK, PCs, EnteringPCs, CallPCs
<1>8. AllIn /\ known = Workers
  BY <1>1, AllKnown DEF EnteringPCs
<1>9. Sends(t, w) /\ \A u \in Threads : Sends(u, w) => u = t
  BY <1>1, <1>2 DEF Sends, Inv, WakeOK
<1>10. \A u \in Threads, v \in Workers : Sends(u, v)' <=> Sends(u, v) /\ u # t
  BY <1>4, <1>1, <1>2 DEF Sends
<1>11. signals[w] = 0 /\ ~Drains(w) /\ list[w] # <<>>
  BY <1>9 DEF Inv, WakeOK
<1>12. \A v \in Workers : Drains(v)' <=> Drains(v)
  BY <1>1, <1>4 DEF Drains
<1>13. WakeOK'
  <2>1. \A v \in Workers : signals'[v] \in {0, 1}
    BY <1>3, <1>11 DEF Inv, WakeOK
  <2>2. \A v \in Workers, u, r \in Threads : Sends(u, v)' /\ Sends(r, v)' => u = r
    BY <1>10 DEF Inv, WakeOK
  <2>3. \A v \in Workers, u \in Threads : Sends(u, v)' => signals'[v] = 0 /\ ~Drains(v)'
    BY <1>3, <1>9, <1>10, <1>12 DEF Inv, WakeOK
  <2>4. \A v \in Workers : signals'[v] = 1 => ~Drains(v)'
    BY <1>3, <1>11, <1>12 DEF Inv, WakeOK
  <2>5. ASSUME NEW v \in Workers
        PROVE  list'[v] # <<>> <=>
                 signals'[v] = 1 \/ Drains(v)' \/ \E u \in Threads : Sends(u, v)'
    <3>1. CASE v = w
      <4>1. list'[v] # <<>>
        BY <1>1, <1>11, <3>1
      <4>2. signals'[v] = 1
        <5>1. signals[v] = 0
          BY <1>11, <3>1
        <5>2. signals'[v] = signals[v] + 1
          BY <1>3, <3>1
        <5> QED
          BY <5>1, <5>2
      <4> QED
        BY <4>1, <4>2
    <3>2. CASE v # w
      <4>1. \A u \in Threads : Sends(u, v)' <=> Sends(u, v)
        BY <1>2, <1>10, <3>2 DEF Sends
      <4> QED
        BY <1>1, <1>3, <1>12, <3>2, <4>1 DEF Inv, WakeOK
    <3> QED
      BY <3>1, <3>2
  <2>6. \A v \in Workers : pc'[v] \in {"local", "body", "next", "unhold"} => v \in need_drain'
    BY <1>1, <1>4 DEF Inv, WakeOK
  <2> QED
    BY <1>1, <1>8, <2>1, <2>2, <2>3, <2>4, <2>5, <2>6 DEF WakeOK
<1>14. QrefsOK'
  <2>1. ASSUME NEW v \in Workers
        PROVE  qrefs'[v] = 1 + signals'[v] + (IF v \in need_drain' THEN 1 ELSE 0)
                     + (IF \E u \in Threads : Sends(u, v)' /\ pc'[u] = "signal"
                        THEN 1 ELSE 0)
    <3>0. qrefs[v] = 1 + signals[v] + (IF v \in need_drain THEN 1 ELSE 0)
                     + (IF \E u \in Threads : Sends(u, v) /\ pc[u] = "signal"
                        THEN 1 ELSE 0)
      BY <1>8 DEF AllIn, Entered, Inv, QrefsOK
    <3>1. CASE v = w
      <4>1. \E u \in Threads : Sends(u, v) /\ pc[u] = "signal"
        BY <1>1, <1>9, <3>1
      <4>2. \A u \in Threads : ~Sends(u, v)'
        BY <1>9, <1>10, <3>1
      <4> QED
        BY <1>1, <1>3, <1>11, <3>0, <3>1, <4>1, <4>2
    <3>2. CASE v # w
      <4>1. \A u \in Threads : (Sends(u, v)' /\ pc'[u] = "signal") <=>
                               (Sends(u, v) /\ pc[u] = "signal")
        BY <1>2, <1>4, <1>10, <3>2 DEF Sends
      <4> QED
        BY <1>1, <1>3, <3>0, <3>2, <4>1
    <3> QED
      BY <3>1, <3>2
  <2> QED
    BY <2>1 DEF QrefsOK
<1>15. \A u \in Threads, b \in Barriers :
          /\ Pushing(u, b)' => Pushing(u, b)
          /\ \A v \in Workers : (Pushing(u, b)' /\ ToCome(u, v)') <=>
                                (Pushing(u, b) /\ ToCome(u, v))
  <2>1. ~ToCome(t, w)
    BY <1>1, <1>2 DEF ToCome
  <2> QED
    BY <1>1, <1>2, <2>1, ProceedComes
<1>16. ListsOK'
  BY <1>1, <1>15 DEF Inv, ListsOK
<1>17. BarrierOK' /\ DrainOK'
  <2>1. \A v \in Workers, p \in Nat : Ran(v, p)' <=> Ran(v, p)
    BY <1>1, <1>4 DEF Ran
  <2>2. \A b \in Barriers, v \in Workers : Waits(v, b)' <=> Waits(v, b)
    <3>1. \A v \in Workers : list[v] \in Seq(Jobs)
      BY DEF Inv, TypeOK
    <3>2. ASSUME NEW b \in Barriers, NEW v \in Workers PROVE Waits(v, b)' <=> Waits(v, b)
      <4>1. (\E u \in Threads : Pushing(u, b)' /\ ToCome(u, v)') <=>
            (\E u \in Threads : Pushing(u, b) /\ ToCome(u, v))
        BY <1>15
      <4>2. (\E p \in 1..Len(list'[v]) : list'[v][p] = b /\ ~Ran(v, p)') <=>
            (\E p \in 1..Len(list[v]) : list[v][p] = b /\ ~Ran(v, p))
        <5>1. list'[v] = list[v] /\ \A p \in 1..Len(list[v]) : p \in Nat
          BY <1>1, <3>1
        <5> QED
          BY <2>1, <5>1
      <4> QED
        BY <4>1, <4>2 DEF Waits
    <3> QED
      BY <3>2
  <2> QED
    BY <1>1, <1>4, <2>2, PendingFrame
<1> QED
  BY <1>5, <1>6, <1>7, <1>13, <1>14, <1>16, <1>17 DEF Inv

LEMMA AcquireLocalStep ==
    ASSUME Inv, NEW t \in Threads, AcquireLocal(t)
    PROVE  Inv'
<1> USE ThreadFacts DEF local_vars, loop_vars, flag_vars, call_vars, bar_vars, epoll_vars
<1>1. /\ pc[t] = "acquire"
      /\ \A u \in Threads : pc'[u] = IF u = t THEN "signal" ELSE pc[u]
      /\ UNCHANGED <<refs, list, signals, loop_vars, flag_vars, call_vars,
                     bar_vars, epoll_vars>>
  BY DEF AcquireLocal, Go, Inv, TypeOK
<1>2. PICK w \in Workers : w = target[t]
  BY DEF Inv, TypeOK
<1>3. \A v \in Workers : qrefs'[v] = IF v = w THEN qrefs[v] + 1 ELSE qrefs[v]
  BY <1>2 DEF AcquireLocal, Held, Inv, TypeOK
<1>4. AllIn /\ known = Workers
  BY <1>1, AllKnown DEF EnteringPCs
<1>5. TypeOK'
  <2>1. qrefs' \in [Workers -> Nat]
    BY <1>2 DEF AcquireLocal, Held, Inv, TypeOK
  <2> QED
    BY <2>1 DEF AcquireLocal, Go, Inv, TypeOK
<1>6. ControlOK'
  BY <1>1 DEF Inv, ControlOK, ThreadOK, CallPCs
<1>7. EnterOK'
  BY <1>1, <1>4, EnterFrame DEF Entered
<1>8. WorkOK'
  BY <1>1, WorkFrame DEF Holds, Leaver, CallPCs
<1>9. RefsOK'
  BY <1>1, RefsFrame DEF OwnHeld, Leaver, Passed, CallPCs
<1>10. \A u \in Threads, v \in Workers : Sends(u, v)' <=> Sends(u, v)
  BY <1>1 DEF Sends
<1>11. WakeOK'
  <2>1. \A v \in Workers : Drains(v)' <=> Drains(v)
    BY <1>1 DEF Drains
  <2> QED
    BY <1>1, <1>10, <2>1 DEF Inv, WakeOK
<1>12. QrefsOK'
  <2>0. Sends(t, w) /\ \A u \in Threads : Sends(u, w) => u = t
    BY <1>1, <1>2 DEF Sends, Inv, WakeOK
  <2>1. ASSUME NEW v \in Workers
        PROVE  qrefs'[v] = 1 + signals'[v] + (IF v \in need_drain' THEN 1 ELSE 0)
                     + (IF \E u \in Threads : Sends(u, v)' /\ pc'[u] = "signal"
                        THEN 1 ELSE 0)
    <3>0. qrefs[v] = 1 + signals[v] + (IF v \in need_drain THEN 1 ELSE 0)
                     + (IF \E u \in Threads : Sends(u, v) /\ pc[u] = "signal"
                        THEN 1 ELSE 0)
      BY <1>4 DEF AllIn, Entered, Inv, QrefsOK
    <3>1. CASE v = w
      <4>1. \E u \in Threads : Sends(u, v)' /\ pc'[u] = "signal"
        BY <1>1, <1>10, <2>0, <3>1
      <4>2. \A u \in Threads : ~(Sends(u, v) /\ pc[u] = "signal")
        BY <1>1, <2>0, <3>1
      <4>3. signals[v] \in Nat
        BY DEF Inv, TypeOK
      <4> QED
        BY <1>1, <1>3, <3>0, <3>1, <4>1, <4>2, <4>3
    <3>2. CASE v # w
      <4>1. \A u \in Threads : (Sends(u, v)' /\ pc'[u] = "signal") <=>
                               (Sends(u, v) /\ pc[u] = "signal")
        BY <1>1, <1>2, <3>2 DEF Sends
      <4> QED
        BY <1>1, <1>3, <3>0, <3>2, <4>1
    <3> QED
      BY <3>1, <3>2
  <2> QED
    BY <2>1 DEF QrefsOK
<1>13. StopOK'
  <2>1. \A u \in Threads, v \in Workers : StopPusher(u, v)' => StopPusher(u, v)
    BY <1>1 DEF StopPusher
  <2>2. \A v \in Workers : pc[v] = "left" => v \in stopped
    BY DEF Inv, StopOK
  <2>3. \A v \in stopped : v \in Workers /\ pc[v] \in {"next", "unhold", "check", "left"}
    BY DEF Inv, StopOK, TypeOK
  <2> QED
    BY <1>1, <2>1, <2>2, <2>3, StopFrame
<1>14. ListsOK' /\ BarrierOK' /\ DrainOK'
  BY <1>1, WaitsFrame DEF CallPCs
<1> QED
  BY <1>5, <1>6, <1>7, <1>8, <1>9, <1>11, <1>12, <1>13, <1>14 DEF Inv

(* A push appends to the local queue of the target.                        *)
LEMMA AppendFacts ==
    ASSUME NEW S, NEW s \in Seq(S), NEW x \in S
    PROVE  /\ Append(s, x) \in Seq(S) /\ Append(s, x) # <<>>
           /\ Len(Append(s, x)) = Len(s) + 1 /\ Len(s) \in Nat
           /\ \A p \in 1..Len(s) : Append(s, x)[p] = s[p]
           /\ Append(s, x)[Len(s) + 1] = x
  OBVIOUS

(* Stated of every position of every local queue.                          *)
LEMMA PushLocalList ==
    ASSUME Inv, NEW t \in Threads, PushLocal(t), NEW w \in Workers, w = target[t]
    PROVE  /\ list' \in [Workers -> Seq(Jobs)] /\ list'[w] # <<>>
           /\ \A v \in Workers : v # w => list'[v] = list[v]
           /\ \A v \in Workers : Len(list[v]) \in Nat /\ Len(list'[v]) \in Nat
           /\ \A v \in Workers : \A p \in 1..Len(list[v]) :
                  p \in 1..Len(list'[v]) /\ list'[v][p] = list[v][p]
           /\ \A v \in Workers : \A p \in 1..Len(list'[v]) :
                  \/ p \in 1..Len(list[v])
                  \/ v = w /\ p = Len(list[w]) + 1 /\ p = Len(list'[w])
                           /\ list'[v][p] = job[t]
           /\ Len(list[w]) + 1 \in 1..Len(list'[w])
           /\ list'[w][Len(list[w]) + 1] = job[t]
<1>1. list' = [list EXCEPT ![w] = Append(list[w], job[t])]
  BY DEF PushLocal
<1>2. list[w] \in Seq(Jobs) /\ job[t] \in Jobs /\ list \in [Workers -> Seq(Jobs)]
  BY DEF Inv, TypeOK
<1>3. PICK s \in Seq(Jobs), x \in Jobs : s = list[w] /\ x = job[t]
  BY <1>2
<1>4. PICK a : a = Append(s, x)
  OBVIOUS
<1>5. /\ a \in Seq(Jobs) /\ a # <<>> /\ Len(a) = Len(s) + 1 /\ Len(s) \in Nat
      /\ \A p \in 1..Len(s) : a[p] = s[p]
      /\ a[Len(s) + 1] = x
  BY <1>4, AppendFacts
<1>6. /\ list' \in [Workers -> Seq(Jobs)] /\ list'[w] = a
      /\ \A v \in Workers : v # w => list'[v] = list[v]
  BY <1>1, <1>2, <1>3, <1>4, <1>5
<1>7. \A v \in Workers : Len(list[v]) \in Nat
  BY <1>2
<1> QED
  <2>1. \A v \in Workers : Len(list'[v]) \in Nat
    BY <1>5, <1>6, <1>7
  <2>2. ASSUME NEW v \in Workers, NEW p \in 1..Len(list[v])
        PROVE  p \in 1..Len(list'[v]) /\ list'[v][p] = list[v][p]
    <3>1. CASE v = w
      BY <1>3, <1>5, <1>6, <3>1
    <3>2. CASE v # w
      BY <1>6, <3>2
    <3> QED
      BY <3>1, <3>2
  <2>3. ASSUME NEW v \in Workers, NEW p \in 1..Len(list'[v])
        PROVE  \/ p \in 1..Len(list[v])
               \/ v = w /\ p = Len(list[w]) + 1 /\ p = Len(list'[w])
                        /\ list'[v][p] = job[t]
    <3>1. CASE v = w
      BY <1>3, <1>5, <1>6, <3>1
    <3>2. CASE v # w
      BY <1>6, <3>2
    <3> QED
      BY <3>1, <3>2
  <2>4. Len(list[w]) + 1 \in 1..Len(list'[w]) /\ list'[w][Len(list[w]) + 1] = job[t]
    BY <1>3, <1>5, <1>6
  <2> QED
    BY <1>5, <1>6, <1>7, <2>1, <2>2, <2>3, <2>4

LEMMA PushLocalEffect ==
    ASSUME Inv, NEW t \in Threads, PushLocal(t), NEW w \in Workers, w = target[t]
    PROVE  /\ pc' \in [Threads -> PCs] /\ target' \in [Threads -> Workers]
           /\ \A u \in Threads : u # t => pc'[u] = pc[u] /\ target'[u] = target[u]
           /\ pc'[t] \in {"acquire", "push", "release", "check", "app", "idle", "combine"}
           /\ pc'[t] = "acquire" <=> list[w] = <<>>
           /\ pc'[t] = "acquire" => target'[t] = w
           /\ ControlOK' /\ EnterOK' /\ WorkOK' /\ RefsOK'
           /\ \A u \in Threads, b \in Barriers :
               /\ Pushing(u, b)' => Pushing(u, b)
               /\ \A v \in Workers : (Pushing(u, b)' /\ ToCome(u, v)') <=>
                    (Pushing(u, b) /\ ToCome(u, v) /\ ~(u = t /\ v = w))
           /\ \A u \in Threads, v \in Workers : StopPusher(u, v)' => StopPusher(u, v) /\ u # t
<1> USE ThreadFacts DEF local_vars, loop_vars, flag_vars, bar_vars, epoll_vars
<1>1. /\ pc[t] = "push" /\ pc[t] \in CallPCs
      /\ UNCHANGED <<refs, qrefs, signals, loop_vars, flag_vars, why, job, bar_vars, epoll_vars>>
  BY DEF PushLocal, CallPCs
<1>5. AllIn
  BY <1>1, AllKnown DEF EnteringPCs
<1>6. CASE list[w] = <<>>
  <2>1. /\ pc' = [pc EXCEPT ![t] = "acquire"] /\ target' = target
        /\ \A u \in Threads : pc'[u] = IF u = t THEN "acquire" ELSE pc[u]
    BY <1>6 DEF PushLocal, WasEmpty, Go, Inv, TypeOK
  <2>2. pc' \in [Threads -> PCs] /\ target' \in [Threads -> Workers]
    BY <2>1 DEF Inv, TypeOK, PCs, EnteringPCs, CallPCs
  <2>3. ControlOK'
    BY <1>1, <2>1 DEF Inv, ControlOK, ThreadOK, CallPCs
  <2>4. EnterOK'
    BY <1>1, <1>5, <2>1, EnterFrame DEF Entered
  <2>5. WorkOK'
    BY <1>1, <2>1, WorkFrame DEF Holds, Leaver, CallPCs
  <2>6. RefsOK'
    BY <1>1, <2>1, RefsFrame DEF OwnHeld, Leaver, Passed, CallPCs
  <2>7. \A u \in Threads, b \in Barriers :
               /\ Pushing(u, b)' => Pushing(u, b)
               /\ \A v \in Workers : (Pushing(u, b)' /\ ToCome(u, v)') <=>
                    (Pushing(u, b) /\ ToCome(u, v) /\ ~(u = t /\ v = w))
    BY <1>1, <2>1 DEF Pushing, ToCome, CallPCs
  <2>8. \A u \in Threads, v \in Workers : StopPusher(u, v)' => StopPusher(u, v) /\ u # t
    BY <1>1, <2>1 DEF StopPusher
  <2> QED
    BY <1>6, <2>1, <2>2, <2>3, <2>4, <2>5, <2>6, <2>7, <2>8
<1>7. CASE list[w] # <<>>
  <2>1. Proceed(t)
    BY <1>7 DEF PushLocal, WasEmpty
  <2>2. ControlOK' /\ EnterOK' /\ WorkOK' /\ RefsOK'
    BY <1>1, <2>1, ProceedFrame
  <2>3. /\ pc' \in [Threads -> PCs] /\ target' \in [Threads -> Workers]
        /\ \A u \in Threads : u # t => pc'[u] = pc[u] /\ target'[u] = target[u]
        /\ pc'[t] \in {"push", "release", "check", "app", "idle", "combine"}
    BY <2>1, ProceedEffect DEF Home
  <2>4. \A u \in Threads, v \in Workers : StopPusher(u, v)' => StopPusher(u, v) /\ u # t
    BY <1>1, <2>1, ProceedEffect DEF StopPusher, Home
  <2> QED
    BY <1>1, <1>7, <2>1, <2>2, <2>3, <2>4, ProceedComes
<1> QED
  BY <1>6, <1>7

LEMMA PushLocalStep ==
    ASSUME Inv, NEW t \in Threads, PushLocal(t)
    PROVE  Inv'
<1>1. /\ pc[t] = "push"
      /\ UNCHANGED <<refs, qrefs, signals, loop_vars, flag_vars, why, job, bar_vars, epoll_vars>>
  BY DEF PushLocal, local_vars, loop_vars, flag_vars, bar_vars, epoll_vars
<1>2. PICK w \in Workers : w = target[t]
  BY DEF Inv, TypeOK
<1>3. /\ list' \in [Workers -> Seq(Jobs)] /\ list'[w] # <<>>
      /\ \A v \in Workers : v # w => list'[v] = list[v]
      /\ \A v \in Workers : Len(list[v]) \in Nat /\ Len(list'[v]) \in Nat
      /\ \A v \in Workers : \A p \in 1..Len(list[v]) :
             p \in 1..Len(list'[v]) /\ list'[v][p] = list[v][p]
      /\ \A v \in Workers : \A p \in 1..Len(list'[v]) :
             \/ p \in 1..Len(list[v])
             \/ v = w /\ p = Len(list[w]) + 1 /\ p = Len(list'[w])
                      /\ list'[v][p] = job[t]
      /\ Len(list[w]) + 1 \in 1..Len(list'[w])
      /\ list'[w][Len(list[w]) + 1] = job[t]
  BY <1>2, PushLocalList, ZenonT(60)
<1> USE ThreadFacts DEF local_vars, loop_vars, flag_vars, bar_vars, epoll_vars
<1>4. /\ pc' \in [Threads -> PCs] /\ target' \in [Threads -> Workers]
      /\ \A u \in Threads : u # t => pc'[u] = pc[u] /\ target'[u] = target[u]
      /\ pc'[t] \in {"acquire", "push", "release", "check", "app", "idle", "combine"}
      /\ pc'[t] = "acquire" <=> list[w] = <<>>
      /\ pc'[t] = "acquire" => target'[t] = w
  BY <1>2, PushLocalEffect
<1>5. ControlOK' /\ EnterOK' /\ WorkOK' /\ RefsOK'
  BY <1>2, PushLocalEffect
<1>6. \A u \in Threads, b \in Barriers :
          /\ Pushing(u, b)' => Pushing(u, b)
          /\ \A v \in Workers : (Pushing(u, b)' /\ ToCome(u, v)') <=>
                    (Pushing(u, b) /\ ToCome(u, v) /\ ~(u = t /\ v = w))
  BY <1>2, PushLocalEffect
<1>7. \A u \in Threads, v \in Workers : StopPusher(u, v)' => StopPusher(u, v) /\ u # t
  BY <1>2, PushLocalEffect
<1>8. AllIn /\ known = Workers
  BY <1>1, AllKnown DEF EnteringPCs
<1>9. TypeOK'
  BY <1>1, <1>3, <1>4 DEF Inv, TypeOK, PCs, EnteringPCs, CallPCs
<1>10. \A v \in Workers : Drains(v)' <=> Drains(v)
  BY <1>1, <1>4 DEF Drains
<1>11. \A u \in Threads, v \in Workers :
          Sends(u, v)' <=> Sends(u, v) \/ (u = t /\ v = w /\ list[w] = <<>>)
  BY <1>1, <1>4 DEF Sends
<1>12. WakeOK'
  <2>0. list[w] = <<>> => /\ signals[w] = 0 /\ ~Drains(w)
                          /\ \A u \in Threads : ~Sends(u, w)
    BY DEF Inv, WakeOK
  <2>1. \A v \in Workers : signals'[v] \in {0, 1}
    BY <1>1 DEF Inv, WakeOK
  <2>2. \A v \in Workers, u, r \in Threads : Sends(u, v)' /\ Sends(r, v)' => u = r
    BY <1>11, <2>0 DEF Inv, WakeOK
  <2>3. \A v \in Workers, u \in Threads : Sends(u, v)' => signals'[v] = 0 /\ ~Drains(v)'
    BY <1>1, <1>11, <1>10, <2>0 DEF Inv, WakeOK
  <2>4. \A v \in Workers : signals'[v] = 1 => ~Drains(v)'
    BY <1>1, <1>10 DEF Inv, WakeOK
  <2>5. ASSUME NEW v \in Workers
        PROVE  list'[v] # <<>> <=>
                 signals'[v] = 1 \/ Drains(v)' \/ \E u \in Threads : Sends(u, v)'
    <3>1. CASE v = w
      BY <1>1, <1>3, <1>10, <1>11, <3>1 DEF Inv, WakeOK
    <3>2. CASE v # w
      BY <1>1, <1>3, <1>10, <1>11, <3>2 DEF Inv, WakeOK
    <3> QED
      BY <3>1, <3>2
  <2>6. \A v \in Workers : pc'[v] \in {"local", "body", "next", "unhold"} => v \in need_drain'
    BY <1>1, <1>4 DEF Inv, WakeOK
  <2> QED
    BY <1>1, <1>8, <2>1, <2>2, <2>3, <2>4, <2>5, <2>6 DEF WakeOK
<1>13. QrefsOK'
  <2>1. ASSUME NEW v \in Workers
        PROVE  qrefs'[v] = 1 + signals'[v] + (IF v \in need_drain' THEN 1 ELSE 0)
                     + (IF \E u \in Threads : Sends(u, v)' /\ pc'[u] = "signal"
                        THEN 1 ELSE 0)
    <3>1. \A u \in Threads : (Sends(u, v)' /\ pc'[u] = "signal") <=>
                             (Sends(u, v) /\ pc[u] = "signal")
      BY <1>1, <1>4, <1>11
    <3> QED
      BY <1>1, <1>8, <3>1 DEF AllIn, Entered, Inv, QrefsOK
  <2> QED
    BY <2>1 DEF QrefsOK
<1>14. CASE why[t] = "barrier"
  <2>1. job[t] \in Barriers /\ job[t] # StopTask
    BY <1>1, <1>14, WorkerTasks DEF Inv, ControlOK, ThreadOK, CallPCs
  <2>2. refs[w] >= 1
    BY <1>1, <1>14, HoldersKeep DEF Holds, CallPCs
  <2>3. PICK b \in Barriers : b = job[t]
    BY <2>1
  <2>4. Pushing(t, b) /\ ToCome(t, w)
    BY <1>1, <1>2, <1>14, <2>3 DEF Pushing, ToCome, CallPCs
  <2>5. \A p \in 1..Len(list[w]) : list[w][p] # b
    BY <2>4 DEF Inv, ListsOK
  <2>6. StopOK'
    <3>1. /\ \A p \in 1..Len(list[w]) : list[w][p] # StopTask
          /\ w \notin stopped /\ \A u \in Threads : ~StopPusher(u, w)
      BY <2>2 DEF Inv, StopOK
    <3>2. \A p \in 1..Len(list'[w]) : list'[w][p] # StopTask
      BY <1>3, <2>1, <3>1
    <3>3. pc'[w] = "left" => w \in stopped
      BY <1>4, <1>1 DEF Inv, StopOK
    <3>4. ~StopListed(w)'
      BY <3>2 DEF StopListed
    <3>5. /\ \A u, r \in Threads : StopPusher(u, w)' /\ StopPusher(r, w)' => u = r
          /\ \A u \in Threads : ~StopPusher(u, w)'
      BY <1>7, <3>1
    <3>6. ASSUME NEW v \in Workers, v # w
          PROVE  /\ list'[v] = list[v] /\ (StopListed(v)' <=> StopListed(v))
                 /\ v \in stopped => pc'[v] = pc[v]
                 /\ pc'[v] = "left" => pc[v] = "left"
      <4>1. list'[v] = list[v]
        BY <1>3, <3>6
      <4>2. v \in stopped => v # t
        BY <1>1 DEF Inv, StopOK
      <4> QED
        BY <1>4, <4>1, <4>2 DEF StopListed
    <3>7. ASSUME NEW v \in Workers
          PROVE  /\ \A u, r \in Threads : StopPusher(u, v)' /\ StopPusher(r, v)' => u = r
                 /\ \A u \in Threads : StopPusher(u, v)' =>
                      refs'[v] = 0 /\ ~StopListed(v)' /\ v \notin stopped'
      <4>1. CASE v = w
        BY <3>5, <4>1
      <4>2. CASE v # w
        <5>1. /\ \A u, r \in Threads : StopPusher(u, v) /\ StopPusher(r, v) => u = r
              /\ \A u \in Threads : StopPusher(u, v) =>
                    refs[v] = 0 /\ ~StopListed(v) /\ v \notin stopped
          BY DEF Inv, StopOK
        <5> QED
          BY <1>1, <1>7, <3>6, <4>2, <5>1
      <4> QED
        BY <4>1, <4>2
    <3>8. ASSUME NEW v \in Workers, NEW p \in 1..Len(list'[v]), list'[v][p] = StopTask
          PROVE  refs'[v] = 0 /\ p = Len(list'[v])
      <4>1. v # w
        BY <3>2, <3>8
      <4> QED
        <5>1. list'[v] = list[v] /\ refs'[v] = refs[v]
          BY <1>1, <3>6, <4>1
        <5>2. \A q \in 1..Len(list[v]) : list[v][q] = StopTask => refs[v] = 0 /\ q = Len(list[v])
          BY DEF Inv, StopOK
        <5> QED
          BY <3>8, <5>1, <5>2
    <3>9. ASSUME NEW v \in Workers
          PROVE  /\ v \in stopped' =>
                      /\ refs'[v] = 0
                      /\ \/ pc'[v] = "next" /\ Len(list'[v]) = 1 /\ list'[v][1] = StopTask
                         \/ pc'[v] \in {"unhold", "check", "left"} /\ list'[v] = <<>>
                 /\ pc'[v] = "left" => v \in stopped'
      BY <1>1, <3>1, <3>3, <3>6 DEF Inv, StopOK
    <3> QED
      BY <3>7, <3>8, <3>9 DEF StopOK
  <2>7. ListsOK'
    <3>1. \A v \in Workers : \A p, q \in 1..Len(list'[v]) :
            list'[v][p] = list'[v][q] /\ list'[v][p] \in Barriers => p = q
      <4>1. \A v \in Workers : v # w => \A p, q \in 1..Len(list'[v]) :
              list'[v][p] = list'[v][q] /\ list'[v][p] \in Barriers => p = q
        BY <1>3 DEF Inv, ListsOK
      <4>2. \A p, q \in 1..Len(list[w]) : list[w][p] = list[w][q] /\ list[w][p] \in Barriers => p = q
        BY DEF Inv, ListsOK
      <4>3. ASSUME NEW p \in 1..Len(list'[w]), NEW q \in 1..Len(list'[w]),
                   list'[w][p] = list'[w][q], list'[w][p] \in Barriers
            PROVE  p = q
        <5>1. (p \in 1..Len(list[w]) \/ p = Len(list[w]) + 1)
              /\ (q \in 1..Len(list[w]) \/ q = Len(list[w]) + 1)
          BY <1>3
        <5>2. \A r \in 1..Len(list[w]) : list'[w][r] = list[w][r] /\ list[w][r] # b
          BY <1>3, <2>5
        <5>3. list'[w][Len(list[w]) + 1] = b
          BY <1>3, <2>3
        <5>4. CASE p \in 1..Len(list[w]) /\ q \in 1..Len(list[w])
          BY <4>2, <4>3, <5>2, <5>4
        <5> QED
          BY <4>3, <5>1, <5>2, <5>3, <5>4
      <4> QED
        BY <4>1, <4>3
    <3>2. \A v \in Workers, u \in Threads, c \in Barriers :
            Pushing(u, c)' /\ ToCome(u, v)' => \A p \in 1..Len(list'[v]) : list'[v][p] # c
      <4>1. ASSUME NEW v \in Workers, NEW u \in Threads, NEW c \in Barriers,
                   Pushing(u, c)', ToCome(u, v)', NEW p \in 1..Len(list'[v])
            PROVE  list'[v][p] # c
        <5>1. Pushing(u, c) /\ ToCome(u, v) /\ ~(u = t /\ v = w)
          BY <1>6, <4>1
        <5>2. \A q \in 1..Len(list[v]) : list[v][q] # c
          BY <5>1 DEF Inv, ListsOK
        <5>3. v = w => c # b
          BY <5>1, <2>4 DEF Inv, ListsOK
        <5> QED
          BY <1>3, <2>3, <4>1, <5>2, <5>3
      <4> QED
        BY <4>1
    <3>3. \A c \in Barriers, u, r \in Threads : Pushing(u, c)' /\ Pushing(r, c)' => u = r
      BY <1>6 DEF Inv, ListsOK
    <3>4. \A c \in Barriers : barrier'[c] = "unused" =>
            /\ \A u \in Threads : ~Pushing(u, c)'
            /\ \A v \in Workers : \A p \in 1..Len(list'[v]) : list'[v][p] # c
      <4>1. barrier[b] # "unused"
        BY <2>4 DEF Inv, ListsOK
      <4>2. ASSUME NEW c \in Barriers, barrier'[c] = "unused"
            PROVE  /\ \A u \in Threads : ~Pushing(u, c)'
                   /\ \A v \in Workers : \A p \in 1..Len(list'[v]) : list'[v][p] # c
        <5>1. /\ c # b /\ \A u \in Threads : ~Pushing(u, c)
              /\ \A v \in Workers : \A p \in 1..Len(list[v]) : list[v][p] # c
          BY <1>1, <4>1, <4>2 DEF Inv, ListsOK
        <5>2. \A u \in Threads : ~Pushing(u, c)'
          BY <1>6, <5>1
        <5>3. ASSUME NEW v \in Workers, NEW p \in 1..Len(list'[v]) PROVE list'[v][p] # c
          BY <1>3, <2>3, <5>1, SMTT(30)
        <5> QED
          BY <5>2, <5>3
      <4> QED
        BY <4>2
    <3> QED
      BY <3>1, <3>2, <3>3, <3>4 DEF ListsOK
  <2>8. \A v \in Workers : \A p : Ran(v, p)' <=> Ran(v, p)
    BY <1>1, <1>4 DEF Ran
  <2>9. ASSUME NEW c \in Barriers, NEW v \in Workers PROVE Waits(v, c)' <=> Waits(v, c)
    <3>1. CASE v # w
      <4>1. (\E u \in Threads : Pushing(u, c)' /\ ToCome(u, v)') <=>
            (\E u \in Threads : Pushing(u, c) /\ ToCome(u, v))
        BY <1>6, <3>1
      <4>2. list'[v] = list[v]
        BY <1>3, <3>1
      <4>3. Len(list[v]) \in Nat
        BY DEF Inv, TypeOK
      <4> QED
        BY <4>1, <4>2, <4>3, <2>8 DEF Waits
    <3>2. CASE v = w /\ c # b
      <4>1. (\E u \in Threads : Pushing(u, c)' /\ ToCome(u, v)') <=>
            (\E u \in Threads : Pushing(u, c) /\ ToCome(u, v))
        BY <1>6, <2>3, <3>2 DEF Pushing
      <4>2. \A p \in 1..Len(list'[v]) : list'[v][p] = c =>
                p \in 1..Len(list[v]) /\ list[v][p] = c
        BY <1>3, <2>3, <3>2
      <4>3. (\E p \in 1..Len(list'[v]) : list'[v][p] = c /\ ~Ran(v, p)') <=>
            (\E p \in 1..Len(list[v]) : list[v][p] = c /\ ~Ran(v, p))
        BY <1>3, <2>8, <4>2
      <4> QED
        BY <4>1, <4>3 DEF Waits
    <3>3. CASE v = w /\ c = b
      <4>1. Waits(v, c)
        BY <2>4, <3>3 DEF Waits
      <4>2. ~Ran(w, Len(list[w]) + 1)
        <5>1. pc[w] \in {"body", "next"} => Drains(w)
          BY DEF Drains, Inv, WakeOK
        <5>2. pc[w] \in {"body", "next"} => list[w] # <<>>
          BY <5>1 DEF Inv, WakeOK
        <5>3. list[w] \in Seq(Jobs)
          BY DEF Inv, TypeOK
        <5> QED
          BY <1>3, <5>2, <5>3 DEF Ran
      <4>3. Len(list[w]) + 1 \in 1..Len(list'[w]) /\ Len(list[w]) + 1 \in Nat
        BY <1>3
      <4>4. Waits(v, c)'
        BY <1>3, <2>3, <2>8, <3>3, <4>2, <4>3 DEF Waits
      <4> QED
        BY <4>1, <4>4
    <3> QED
      BY <3>1, <3>2, <3>3
  <2>10. BarrierOK' /\ DrainOK'
    <3>1. ASSUME NEW v \in Workers, pc'[v] = "body"
          PROVE  pc[v] = "body" /\ list'[v][1] = list[v][1]
      <4>1. pc[v] = "body"
        BY <1>4, <3>1
      <4>2. Drains(v)
        BY <4>1 DEF Drains, Inv, WakeOK
      <4>3. list[v] # <<>> /\ list[v] \in Seq(Jobs)
        BY <4>2 DEF Inv, WakeOK, TypeOK
      <4>4. 1 \in 1..Len(list[v])
        BY <4>3, <1>3
      <4> QED
        BY <1>3, <4>1, <4>4
    <3> QED
      BY <1>1, <1>4, <2>9, <3>1, PendingFrame
  <2> QED
    BY <1>5, <1>9, <1>12, <1>13, <2>6, <2>7, <2>10 DEF Inv
<1>15. CASE why[t] # "barrier"
  <2>1. job[t] = StopTask /\ job[t] \notin Barriers /\ StopPusher(t, w)
    BY <1>1, <1>2, <1>15, WorkerTasks DEF Inv, ControlOK, ThreadOK, StopPusher
  <2>2. refs[w] = 0 /\ ~StopListed(w) /\ w \notin stopped
    BY <2>1 DEF Inv, StopOK
  <2>3. \A u \in Threads : StopPusher(u, w) => u = t
    BY <2>1 DEF Inv, StopOK
  <2>4. StopOK'
    <3>1. \A p \in 1..Len(list'[w]) : list'[w][p] = StopTask => p = Len(list'[w])
      <4>1. \A p \in 1..Len(list[w]) : list[w][p] # StopTask
        BY <2>2 DEF StopListed
      <4>2. ASSUME NEW p \in 1..Len(list'[w]), list'[w][p] = StopTask
            PROVE  p = Len(list'[w])
        BY <1>3, <4>1, <4>2
      <4> QED
        BY <4>2
    <3>2. \A u \in Threads : ~StopPusher(u, w)'
      BY <1>7, <2>3
    <3>3. pc'[w] = "left" => w \in stopped
      BY <1>4, <1>1 DEF Inv, StopOK
    <3>4. ASSUME NEW v \in Workers, v # w
          PROVE  /\ list'[v] = list[v] /\ (StopListed(v)' <=> StopListed(v))
                 /\ v \in stopped => pc'[v] = pc[v]
                 /\ pc'[v] = "left" => pc[v] = "left"
      <4>1. list'[v] = list[v]
        BY <1>3, <3>4
      <4>2. v \in stopped => v # t
        BY <1>1 DEF Inv, StopOK
      <4> QED
        BY <1>4, <4>1, <4>2 DEF StopListed
    <3>5. ASSUME NEW v \in Workers
          PROVE  /\ \A u, r \in Threads : StopPusher(u, v)' /\ StopPusher(r, v)' => u = r
                 /\ \A u \in Threads : StopPusher(u, v)' =>
                      refs'[v] = 0 /\ ~StopListed(v)' /\ v \notin stopped'
      BY <1>1, <1>7, <3>2, <3>4 DEF Inv, StopOK
    <3>6. ASSUME NEW v \in Workers, NEW p \in 1..Len(list'[v]), list'[v][p] = StopTask
          PROVE  refs'[v] = 0 /\ p = Len(list'[v])
      <4>1. CASE v = w
        BY <1>1, <2>2, <3>1, <3>6, <4>1
      <4>2. CASE v # w
        BY <1>1, <3>4, <3>6, <4>2 DEF Inv, StopOK
      <4> QED
        BY <4>1, <4>2
    <3>7. ASSUME NEW v \in Workers
          PROVE  /\ v \in stopped' =>
                      /\ refs'[v] = 0
                      /\ \/ pc'[v] = "next" /\ Len(list'[v]) = 1 /\ list'[v][1] = StopTask
                         \/ pc'[v] \in {"unhold", "check", "left"} /\ list'[v] = <<>>
                 /\ pc'[v] = "left" => v \in stopped'
      BY <1>1, <2>2, <3>3, <3>4 DEF Inv, StopOK
    <3> QED
      BY <3>5, <3>6, <3>7 DEF StopOK
  <2>11. \A v \in Workers : \A p \in 1..Len(list'[v]) : list'[v][p] \in Barriers =>
            p \in 1..Len(list[v]) /\ list'[v][p] = list[v][p]
    BY <1>3, <2>1
  <2>5. \A u \in Threads, c \in Barriers : ~(Pushing(t, c))
    BY <1>15 DEF Pushing
  <2>6. \A u \in Threads, c \in Barriers :
          /\ Pushing(u, c)' => Pushing(u, c)
          /\ \A v \in Workers : (Pushing(u, c)' /\ ToCome(u, v)') <=>
                                (Pushing(u, c) /\ ToCome(u, v))
    BY <1>6, <2>5
  <2>7. ListsOK'
    <3>1. \A v \in Workers : \A p, q \in 1..Len(list'[v]) :
            list'[v][p] = list'[v][q] /\ list'[v][p] \in Barriers => p = q
      <4>1. \A v \in Workers : \A p, q \in 1..Len(list[v]) :
              list[v][p] = list[v][q] /\ list[v][p] \in Barriers => p = q
        BY DEF Inv, ListsOK
      <4>2. ASSUME NEW v \in Workers, NEW p \in 1..Len(list'[v]), NEW q \in 1..Len(list'[v]),
                   list'[v][p] = list'[v][q], list'[v][p] \in Barriers
            PROVE  p = q
        <5>1. p \in 1..Len(list[v]) /\ list'[v][p] = list[v][p]
          BY <2>11, <4>2
        <5>2. q \in 1..Len(list[v]) /\ list'[v][q] = list[v][q]
          BY <2>11, <4>2
        <5> QED
          BY <4>1, <4>2, <5>1, <5>2
      <4> QED
        BY <4>2
    <3>2. \A v \in Workers, u \in Threads, c \in Barriers :
            Pushing(u, c)' /\ ToCome(u, v)' => \A p \in 1..Len(list'[v]) : list'[v][p] # c
      <4>1. ASSUME NEW v \in Workers, NEW u \in Threads, NEW c \in Barriers,
                   Pushing(u, c)', ToCome(u, v)', NEW p \in 1..Len(list'[v])
            PROVE  list'[v][p] # c
        <5>1. Pushing(u, c) /\ ToCome(u, v)
          BY <2>6, <4>1
        <5>2. \A q \in 1..Len(list[v]) : list[v][q] # c
          BY <5>1 DEF Inv, ListsOK
        <5> QED
          BY <2>11, <5>2
      <4> QED
        BY <4>1
    <3>3. \A c \in Barriers, u, r \in Threads : Pushing(u, c)' /\ Pushing(r, c)' => u = r
      BY <2>6 DEF Inv, ListsOK
    <3>4. \A c \in Barriers : barrier'[c] = "unused" =>
            /\ \A u \in Threads : ~Pushing(u, c)'
            /\ \A v \in Workers : \A p \in 1..Len(list'[v]) : list'[v][p] # c
      BY <1>1, <2>11, <2>6 DEF Inv, ListsOK
    <3> QED
      BY <3>1, <3>2, <3>3, <3>4 DEF ListsOK
  <2>8. \A v \in Workers : \A p : Ran(v, p)' <=> Ran(v, p)
    BY <1>1, <1>4 DEF Ran
  <2>9. ASSUME NEW c \in Barriers, NEW v \in Workers PROVE Waits(v, c)' <=> Waits(v, c)
    <3>1. (\E u \in Threads : Pushing(u, c)' /\ ToCome(u, v)') <=>
          (\E u \in Threads : Pushing(u, c) /\ ToCome(u, v))
      BY <2>6
    <3>2. Len(list[v]) \in Nat
      BY DEF Inv, TypeOK
    <3>3. (\E p \in 1..Len(list'[v]) : list'[v][p] = c /\ ~Ran(v, p)') <=>
          (\E p \in 1..Len(list[v]) : list[v][p] = c /\ ~Ran(v, p))
      <4>1. ASSUME NEW p \in 1..Len(list'[v]), list'[v][p] = c, ~Ran(v, p)'
            PROVE  \E q \in 1..Len(list[v]) : list[v][q] = c /\ ~Ran(v, q)
        BY <2>8, <2>11, <4>1
      <4>2. ASSUME NEW p \in 1..Len(list[v]), list[v][p] = c, ~Ran(v, p)
            PROVE  \E q \in 1..Len(list'[v]) : list'[v][q] = c /\ ~Ran(v, q)'
        BY <1>3, <2>8, <4>2
      <4> QED
        BY <4>1, <4>2
    <3> QED
      BY <3>1, <3>3 DEF Waits
  <2>10. BarrierOK' /\ DrainOK'
    <3>1. ASSUME NEW v \in Workers, pc'[v] = "body"
          PROVE  pc[v] = "body" /\ list'[v][1] = list[v][1]
      <4>1. pc[v] = "body"
        BY <1>4, <3>1
      <4>2. Drains(v)
        BY <4>1 DEF Drains, Inv, WakeOK
      <4>3. list[v] # <<>> /\ list[v] \in Seq(Jobs)
        BY <4>2 DEF Inv, WakeOK, TypeOK
      <4>4. 1 \in 1..Len(list[v])
        BY <4>3, <1>3
      <4> QED
        BY <1>3, <4>1, <4>4
    <3> QED
      BY <1>1, <1>4, <2>9, <3>1, PendingFrame
  <2> QED
    BY <1>5, <1>9, <1>12, <1>13, <2>4, <2>7, <2>10 DEF Inv
<1> QED
  BY <1>14, <1>15

(* ntt_worker_release: by the worker itself at the end of its entry, or by *)
(* the thread that dropped the last unit of work, for each worker.         *)
LEMMA ReleaseWorkerStep ==
    ASSUME Inv, NEW t \in Threads, ReleaseWorker(t)
    PROVE  Inv'
<1>1. /\ pc[t] = "release" /\ why[t] \in {"own", "leave"}
      /\ UNCHANGED <<list, qrefs, signals, known, enter_cnt, work_cnt, first, freed,
                     need_drain, stopped, why, brefs, barrier, after_del, fd, events>>
      /\ \A u \in Threads : job'[u] = IF u = t THEN StopTask ELSE job[u]
  BY DEF ReleaseWorker, Inv, TypeOK, ControlOK, ThreadOK, local_vars, loop_vars,
         flag_vars, bar_vars, epoll_vars
<1> USE ThreadFacts
<1>2. PICK w \in Workers : w = target[t]
  BY DEF Inv, TypeOK
<1>3. /\ \A v \in Workers : refs'[v] = IF v = w THEN refs[v] - 1 ELSE refs[v]
      /\ refs[w] \in Nat
  <2>1. refs' = [refs EXCEPT ![w] = refs[w] - 1]
    BY <1>2 DEF ReleaseWorker
  <2>2. refs \in [Workers -> 0..2]
    BY DEF Inv, TypeOK
  <2> QED
    BY <2>1, <2>2
<1>4. AllIn /\ known = Workers
  BY <1>1, AllKnown DEF EnteringPCs
<1>5. why[t] = "own" => t = w
  BY <1>1, <1>2 DEF Inv, ControlOK, ThreadOK
<1>6. /\ pc' \in [Threads -> PCs] /\ target' \in [Threads -> Workers]
      /\ \A u \in Threads : u # t => pc'[u] = pc[u] /\ target'[u] = target[u]
      /\ \/ refs[w] = 1 /\ pc'[t] = "push" /\ target'[t] = w
         \/ /\ refs[w] # 1
            /\ \/ /\ why[t] = "leave" /\ w < Width
                  /\ target'[t] = w + 1 /\ pc'[t] = "release"
               \/ why[t] = "own" /\ target'[t] = w /\ pc'[t] = "check"
               \/ /\ why[t] = "leave" /\ w = Width
                  /\ target'[t] = w /\ pc'[t] = Home(t)
  <2>1. CASE refs[w] = 1
    <3>1. pc' = [pc EXCEPT ![t] = "push"] /\ target' = target
      BY <1>2, <2>1 DEF ReleaseWorker, LastGuard, Go
    <3> QED
      BY <1>2, <2>1, <3>1 DEF Inv, TypeOK, PCs, EnteringPCs, CallPCs
  <2>2. CASE refs[w] # 1
    <3>1. Proceed(t)
      BY <1>2, <2>2 DEF ReleaseWorker, LastGuard
    <3> QED
      BY <1>1, <1>2, <2>2, <3>1, ProceedEffect
  <2> QED
    BY <2>1, <2>2
<1>7. pc'[t] \in {"push", "release", "check", "idle", "combine"}
  BY <1>6 DEF Home
<1>8. refs[w] >= 1
  <2>1. CASE why[t] = "own"
    BY <1>1, <1>3, <1>5, <2>1 DEF Inv, RefsOK, OwnHeld
  <2>2. CASE why[t] = "leave"
    <3>1. Leaver(t) /\ ~Passed(t, w)
      <4>1. w \in Nat
        OBVIOUS
      <4> QED
        BY <1>1, <1>2, <2>2, <4>1 DEF Leaver, Passed, CallPCs
    <3> QED
      BY <1>3, <1>4, <3>1 DEF Inv, RefsOK, Released
  <2> QED
    BY <1>1, <2>1, <2>2
<1>9. TypeOK'
  <2>1. refs' \in [Workers -> 0..2]
    <3>1. refs' = [refs EXCEPT ![w] = refs[w] - 1]
      BY <1>2 DEF ReleaseWorker
    <3> QED
      BY <1>8, <3>1 DEF Inv, TypeOK
  <2>2. job' \in [Threads -> Jobs]
    BY DEF ReleaseWorker, Inv, TypeOK, Jobs
  <2> QED
    BY <1>1, <1>6, <2>1, <2>2 DEF Inv, TypeOK, PCs, EnteringPCs, CallPCs
<1>10. ControlOK'
  <2>1. \A u \in Threads : u # t => ThreadOK(u)'
    BY <1>1, <1>6 DEF Inv, ControlOK, ThreadOK
  <2>2. ThreadOK(t)'
    BY <1>1, <1>5, <1>6, WorkerTasks DEF Inv, ControlOK, ThreadOK, CallPCs, Home
  <2>3. pc'[1] # "create"
    BY <1>4, <1>6, <1>7 DEF AllIn, Entered
  <2> QED
    BY <2>1, <2>2, <2>3 DEF ControlOK
<1>11. EnterOK'
  BY <1>1, <1>4, <1>6, <1>7, EnterFrame DEF AllIn, Entered
<1>12. Leaver(t) <=> why[t] = "leave"
  BY <1>1 DEF Leaver, CallPCs
<1>13. WorkOK'
  <2>1. \A u \in Threads : Holds(u)' <=> Holds(u)
    BY <1>1, <1>6, <1>7 DEF Holds, CallPCs
  <2>2. \A u \in Threads : Leaver(u)' => Leaver(u)
    BY <1>1, <1>6, <1>7, <1>12 DEF Leaver, CallPCs
  <2> QED
    BY <1>1, <2>1, <2>2, WorkFrame
<1>14. RefsOK'
  <2>1. \A u \in Threads : u # t => /\ Leaver(u)' <=> Leaver(u)
                                    /\ \A v \in Workers : Passed(u, v)' <=> Passed(u, v)
    BY <1>1, <1>6 DEF Leaver, Passed
  <2>2. \A v \in Workers : v # t => (OwnHeld(v)' <=> OwnHeld(v))
    BY <1>1, <1>6 DEF OwnHeld
  <2>3. CASE why[t] = "own"
    <3>1. ~Leaver(t) /\ ~Leaver(t)'
      BY <1>1, <1>12, <2>3, <1>7 DEF Leaver
    <3>2. \A v \in Workers : Released(v)' <=> Released(v)
      BY <1>1, <2>1, <3>1 DEF Released
    <3>3. OwnHeld(w) /\ ~OwnHeld(w)'
      BY <1>1, <1>5, <1>6, <2>3 DEF OwnHeld
    <3>4. ASSUME NEW v \in Workers
          PROVE  refs'[v] = (IF OwnHeld(v)' THEN 1 ELSE 0)
                    + (IF v \in known' /\ ~Released(v)' THEN 1 ELSE 0)
      <4>1. refs[v] = (IF OwnHeld(v) THEN 1 ELSE 0)
                    + (IF v \in known /\ ~Released(v) THEN 1 ELSE 0)
        BY DEF Inv, RefsOK
      <4>2. CASE v = w
        <5>1. refs[w] = 1 + (IF w \in known /\ ~Released(w) THEN 1 ELSE 0)
          BY <3>3, <4>1, <4>2
        <5>2. refs'[w] = (IF w \in known /\ ~Released(w) THEN 1 ELSE 0)
          BY <1>3, <5>1
        <5>3. known' = known /\ (Released(w)' <=> Released(w))
          BY <1>1, <3>2
        <5> QED
          BY <3>3, <4>2, <5>2, <5>3
      <4>3. CASE v # w
        <5>1. OwnHeld(v)' <=> OwnHeld(v)
          BY <1>5, <2>2, <2>3, <4>3
        <5> QED
          BY <1>1, <1>3, <3>2, <4>1, <4>3, <5>1
      <4> QED
        BY <4>2, <4>3
    <3> QED
      BY <3>4 DEF RefsOK
  <2>4. CASE why[t] = "leave"
    <3>1. Leaver(t) /\ \A u \in Threads : Leaver(u) => u = t
      BY <1>12, <2>4 DEF Inv, WorkOK
    <3>2. work_cnt = 0 /\ work_cnt' = 0
      BY <1>1, <3>1 DEF Inv, WorkOK
    <3>3. \A v \in Workers : OwnHeld(v)' <=> OwnHeld(v)
      BY <1>1, <1>6, <2>2, <2>4 DEF OwnHeld, Home
    <3>4. \A v \in Workers : Released(v) <=> v < w
      BY <1>1, <1>2, <3>1, <3>2 DEF Released, Passed
    <3>5. \A v \in Workers : Released(v)' <=> v <= w
      <4>1. \A u \in Threads : Leaver(u)' => u = t
        BY <2>1, <3>1
      <4>2. CASE pc'[t] = "push"
        <5>1. Leaver(t)' /\ target'[t] = w
          BY <1>1, <1>6, <2>4, <4>2 DEF Leaver, CallPCs, Home
        <5> QED
          BY <3>2, <4>1, <4>2, <5>1 DEF Released, Passed
      <4>3. CASE pc'[t] = "release"
        <5>1. Leaver(t)' /\ target'[t] = w + 1
          BY <1>1, <1>6, <2>4, <4>3 DEF Leaver, CallPCs, Home
        <5> QED
          BY <3>2, <4>1, <4>3, <5>1 DEF Released, Passed
      <4>4. CASE pc'[t] = Home(t)
        <5>1. ~Leaver(t)' /\ w = Width
          BY <1>1, <1>6, <2>4, <4>4 DEF Leaver, CallPCs, Home
        <5> QED
          BY <3>2, <4>1, <5>1 DEF Released
      <4> QED
        BY <1>6, <2>4, <4>2, <4>3, <4>4
    <3>6. ASSUME NEW v \in Workers
          PROVE  refs'[v] = (IF OwnHeld(v)' THEN 1 ELSE 0)
                    + (IF v \in known' /\ ~Released(v)' THEN 1 ELSE 0)
      <4>1. refs[v] = (IF OwnHeld(v) THEN 1 ELSE 0)
                    + (IF v \in known /\ ~Released(v) THEN 1 ELSE 0)
        BY DEF Inv, RefsOK
      <4>2. v \in Nat /\ w \in Nat
        OBVIOUS
      <4> QED
        BY <1>1, <1>3, <1>4, <3>3, <3>4, <3>5, <4>1, <4>2
    <3> QED
      BY <3>6 DEF RefsOK
  <2> QED
    BY <1>1, <2>3, <2>4
<1>15. WakeOK' /\ QrefsOK'
  <2>1. \A v \in Workers : pc[v] \in {"local", "body", "next"} => v \in need_drain
    BY DEF Inv, WakeOK
  <2>2. \A u \in Threads, v \in Workers : Sends(u, v)' <=> Sends(u, v)
    BY <1>1, <1>6, <1>7 DEF Sends
  <2> QED
    BY <1>1, <1>6, <1>7, <2>1, <2>2, WakeFrame
<1>16. StopOK'
  <2>1. \A u \in Threads, v \in Workers : StopPusher(u, v)' =>
            StopPusher(u, v) \/ (u = t /\ v = w /\ refs[w] = 1)
    BY <1>1, <1>6, <1>7 DEF StopPusher, Home
  <2>2. \A v \in Workers : StopListed(v)' <=> StopListed(v)
    BY <1>1 DEF StopListed
  <2>3. /\ \A u \in Threads : ~StopPusher(u, w)
        /\ ~StopListed(w) /\ w \notin stopped
    <3>1. refs[w] # 0
      BY <1>3, <1>8
    <3> QED
      BY <3>1 DEF Inv, StopOK, StopListed
  <2>4. \A v \in stopped : v \in Workers /\ v # w /\ v # t /\ refs'[v] = refs[v]
    BY <1>1, <1>3, <2>3 DEF Inv, StopOK, TypeOK
  <2>5. \A v \in Workers : pc'[v] = "left" => v \in stopped
    BY <1>6, <1>7 DEF Inv, StopOK
  <2>6. ASSUME NEW v \in Workers
        PROVE  /\ \A u, r \in Threads : StopPusher(u, v)' /\ StopPusher(r, v)' => u = r
               /\ \A u \in Threads : StopPusher(u, v)' =>
                    refs'[v] = 0 /\ ~StopListed(v)' /\ v \notin stopped'
    <3>1. CASE v = w
      BY <1>1, <1>3, <2>1, <2>2, <2>3, <3>1
    <3>2. CASE v # w
      BY <1>1, <1>3, <2>1, <2>2, <3>2 DEF Inv, StopOK
    <3> QED
      BY <3>1, <3>2
  <2>7. ASSUME NEW v \in Workers, NEW p \in 1..Len(list'[v]), list'[v][p] = StopTask
        PROVE  refs'[v] = 0 /\ p = Len(list'[v])
    <3>1. StopListed(v)
      BY <1>1, <2>7 DEF StopListed
    <3>2. v # w
      BY <2>3, <3>1
    <3> QED
      BY <1>1, <1>3, <2>7, <3>2 DEF Inv, StopOK
  <2>8. ASSUME NEW v \in Workers, v \in stopped'
        PROVE  /\ refs'[v] = 0
               /\ \/ pc'[v] = "next" /\ Len(list'[v]) = 1 /\ list'[v][1] = StopTask
                  \/ pc'[v] \in {"unhold", "check", "left"} /\ list'[v] = <<>>
    <3>1. v \in stopped /\ pc'[v] = pc[v] /\ refs'[v] = refs[v] /\ list' = list
      BY <1>1, <1>6, <2>4, <2>8
    <3> QED
      BY <3>1 DEF Inv, StopOK
  <2> QED
    BY <1>1, <2>5, <2>6, <2>7, <2>8 DEF StopOK
<1>17. ListsOK' /\ BarrierOK' /\ DrainOK'
  BY <1>1, <1>6, <1>7, WaitsFrame DEF CallPCs
<1> QED
  BY <1>9, <1>10, <1>11, <1>13, <1>14, <1>15, <1>16, <1>17 DEF Inv

-----------------------------------------------------------------------------
(* The application.                                                        *)

(* A step that hands a unit of work to a thread, or takes the first task:  *)
(* nothing else of the invariant can tell the thread from before.          *)
LEMMA TakesWork ==
    ASSUME Inv, NEW t \in Threads, pc[t] \in {"idle", "combine"}, AllIn, work_cnt >= 1,
           pc' = [pc EXCEPT ![t] = "app"],
           UNCHANGED <<refs, local_vars, known, enter_cnt, freed, flag_vars,
                       call_vars, bar_vars, epoll_vars>>,
           \/ work_cnt' = work_cnt + 1 /\ first' = first
           \/ work_cnt' = work_cnt /\ first /\ first' = FALSE
    PROVE  Inv'
<1> USE ThreadFacts DEF local_vars, flag_vars, call_vars, bar_vars, epoll_vars
<1>1. \A u \in Threads : pc'[u] = IF u = t THEN "app" ELSE pc[u]
  BY DEF Inv, TypeOK
<1>2. TypeOK'
  <2>1. work_cnt' \in Nat
    BY DEF Inv, TypeOK
  <2>2. first' \in BOOLEAN
    BY Zenon DEF Inv, TypeOK
  <2> QED
    BY <2>1, <2>2 DEF Inv, TypeOK
<1>3. ControlOK'
  BY <1>1 DEF Inv, ControlOK, ThreadOK, CallPCs, AllIn, Entered
<1>4. EnterOK'
  <2>1. \A w \in Workers :
               \/ pc'[w] = pc[w]
               \/ Entered(w) /\ Entered(w)'
    BY <1>1 DEF AllIn, Entered
  <2> QED
    BY <2>1, EnterFrame
<1>5. \A u \in Threads : ~Leaver(u) /\ ~Leaver(u)'
  <2>1. \A u \in Threads : ~Leaver(u)
    BY DEF Inv, WorkOK
  <2> QED
    BY <1>1, <2>1 DEF Leaver, CallPCs
<1>6. WorkOK'
  <2>1. t \notin Holders /\ Holders' = Holders \cup {t}
    BY <1>1 DEF Holders, Holds, CallPCs
  <2>2. Cardinality(Holders') = Cardinality(Holders) + 1
    BY <2>1, HoldersFinite, FS_AddElement
  <2>3. work_cnt' = Cardinality(Holders') + (IF first' THEN 1 ELSE 0)
    <3>1. work_cnt = Cardinality(Holders) + (IF first THEN 1 ELSE 0)
      BY DEF Inv, WorkOK
    <3>2. Cardinality(Holders) \in Nat
      BY HoldersFinite
    <3> QED
      BY <2>2, <3>1, <3>2
  <2> QED
    BY <1>5, <2>3 DEF WorkOK
<1>7. RefsOK'
  <2>1. \A v \in Workers : ~Released(v)' /\ ~Released(v)
    BY DEF Released, Inv, TypeOK
  <2>2. \A v \in Workers : OwnHeld(v)' <=> OwnHeld(v)
    BY <1>1 DEF OwnHeld
  <2> QED
    BY <2>1, <2>2 DEF Inv, RefsOK
<1>8. WakeOK' /\ QrefsOK'
  <2>1. \A v \in Workers : pc[v] \in {"local", "body", "next"} => v \in need_drain
    BY DEF Inv, WakeOK
  <2>2. \A v \in Workers : pc'[v] \notin {"unborn", "create", "init"} =>
               pc[v] \notin {"unborn", "create", "init"}
    BY <1>1
  <2> QED
    BY <1>1, <2>1, <2>2, WakeFrame DEF Sends
<1>9. StopOK'
  <2>1. \A u \in Threads, v \in Workers : StopPusher(u, v)' => StopPusher(u, v)
    BY <1>1 DEF StopPusher
  <2>2. \A v \in Workers : pc[v] = "left" => v \in stopped
    BY DEF Inv, StopOK
  <2>3. \A v \in stopped : v \in Workers /\ pc[v] \in {"next", "unhold", "check", "left"}
    BY DEF Inv, StopOK, TypeOK
  <2>4. \A v \in stopped : pc'[v] = pc[v]
    BY <1>1, <2>3
  <2> QED
    BY <1>1, <2>1, <2>2, <2>4, StopFrame
<1>10. ListsOK' /\ BarrierOK' /\ DrainOK'
  BY <1>1, WaitsFrame DEF CallPCs
<1> QED
  BY <1>2, <1>3, <1>4, <1>6, <1>7, <1>8, <1>9, <1>10 DEF Inv

LEMMA HandWorkStep ==
    ASSUME Inv, NEW w \in Workers, NEW c \in Clients, HandWork(w, c)
    PROVE  Inv'
<1>1. c \in Threads /\ w \in Threads /\ pc[c] = "idle" /\ pc[w] = "app"
  BY ThreadFacts DEF HandWork
<1>2. AllIn /\ work_cnt >= 1
  BY <1>1, AllKnown, HoldersKeep DEF EnteringPCs, Holds
<1>3. /\ pc' = [pc EXCEPT ![c] = "app"] /\ work_cnt' = work_cnt + 1 /\ first' = first
      /\ UNCHANGED <<refs, local_vars, known, enter_cnt, freed, flag_vars,
                     call_vars, bar_vars, epoll_vars>>
  BY DEF HandWork, Go
<1> QED
  BY <1>1, <1>2, <1>3, TakesWork

LEMMA ServeCombineStep ==
    ASSUME Inv, NEW w \in Workers, ServeCombine(w)
    PROVE  Inv'
<1>1. w \in Threads /\ pc[w] = "combine" /\ AllIn
  BY ThreadFacts, AllKnown DEF ServeCombine, EnteringPCs
<1>2. CASE first
  <2>1. work_cnt >= 1
    BY <1>2, HoldersFinite DEF Inv, WorkOK
  <2>2. /\ pc' = [pc EXCEPT ![w] = "app"] /\ work_cnt' = work_cnt /\ first' = FALSE
        /\ UNCHANGED <<refs, local_vars, known, enter_cnt, freed, flag_vars,
                       call_vars, bar_vars, epoll_vars>>
    BY <1>2 DEF ServeCombine, Go
  <2> QED
    BY <1>1, <1>2, <2>1, <2>2, TakesWork
<1>3. CASE ~first
  <2>1. /\ pc' = [pc EXCEPT ![w] = "wait"] /\ first' = first
        /\ UNCHANGED <<refs, local_vars, known, enter_cnt, work_cnt, freed,
                       flag_vars, call_vars, bar_vars, epoll_vars>>
    BY <1>3 DEF ServeCombine, Go, Inv, TypeOK
  <2>2. w \notin stopped
    BY <1>1 DEF Inv, StopOK
  <2>3. fd' \in BOOLEAN /\ (fd' => fd) /\ events' \in 0..MaxEvents /\ freed' \in BOOLEAN
    BY <2>1 DEF Inv, TypeOK, epoll_vars
  <2> QED
    BY <1>1, <2>1, <2>2, <2>3, PlainStep
<1> QED
  BY <1>2, <1>3

LEMMA PushBarrierStep ==
    ASSUME Inv, NEW t \in Threads, NEW b \in Barriers, PushBarrier(t, b)
    PROVE  Inv'
<1> USE ThreadFacts DEF local_vars, loop_vars, flag_vars, bar_vars, epoll_vars
<1>1. /\ pc[t] = "app" /\ barrier[b] = "unused"
      /\ \A c \in Barriers : barrier'[c] = IF c = b THEN "sent" ELSE barrier[c]
      /\ \A c \in Barriers : brefs'[c] = IF c = b THEN Width ELSE brefs[c]
      /\ \A u \in Threads : pc'[u] = IF u = t THEN "push" ELSE pc[u]
      /\ \A u \in Threads : job'[u] = IF u = t THEN b ELSE job[u]
      /\ \A u \in Threads : why'[u] = IF u = t THEN "barrier" ELSE why[u]
      /\ \A u \in Threads : target'[u] = IF u = t THEN 1 ELSE target[u]
      /\ after_del' = IF fd THEN after_del ELSE after_del \cup {b}
      /\ UNCHANGED <<refs, local_vars, loop_vars, flag_vars, epoll_vars>>
  BY DEF PushBarrier, BarrierCount, Go, Inv, TypeOK
<1>2. AllIn /\ known = Workers
  BY <1>1, AllKnown DEF EnteringPCs
<1>3. TypeOK'
  <2>1. brefs' \in [Barriers -> 0..Width]
    BY WorkerWidth DEF PushBarrier, BarrierCount, Inv, TypeOK
  <2>2. job' \in [Threads -> Jobs] /\ target' \in [Threads -> Workers]
    BY DEF PushBarrier, Inv, TypeOK, Jobs
  <2>3. after_del' \in SUBSET Barriers
    BY <1>1 DEF Inv, TypeOK
  <2>4. /\ pc' \in [Threads -> PCs] /\ why' \in [Threads -> {"barrier", "leave", "own"}]
        /\ barrier' \in [Barriers -> {"unused", "sent", "freed"}]
    BY DEF PushBarrier, Go, Inv, TypeOK, PCs, EnteringPCs, CallPCs
  <2> QED
    BY <1>1, <2>1, <2>2, <2>3, <2>4 DEF Inv, TypeOK, PCs, EnteringPCs, CallPCs
<1>4. ControlOK'
  BY <1>1, <1>2 DEF Inv, ControlOK, ThreadOK, CallPCs, AllIn, Entered
<1>5. EnterOK'
  <2>1. \A w \in Workers : pc'[w] = pc[w] \/ (Entered(w) /\ Entered(w)')
    BY <1>1, <1>2 DEF AllIn, Entered
  <2> QED
    BY <1>1, <1>2, <2>1, EnterFrame
<1>6. WorkOK'
  BY <1>1, WorkFrame DEF Holds, Leaver, CallPCs
<1>7. RefsOK'
  <2>1. \A v \in Workers : OwnHeld(v)' <=> OwnHeld(v)
    BY <1>1 DEF OwnHeld
  <2>2. \A u \in Threads : Leaver(u)' <=> Leaver(u)
    BY <1>1 DEF Leaver, CallPCs
  <2>3. \A u \in Threads, v \in Workers : Leaver(u) => (Passed(u, v)' <=> Passed(u, v))
    BY <1>1 DEF Leaver, Passed, CallPCs
  <2> QED
    BY <1>1, <2>1, <2>2, <2>3, RefsFrame
<1>8. WakeOK' /\ QrefsOK'
  <2>1. \A v \in Workers : pc[v] \in {"local", "body", "next"} => v \in need_drain
    BY DEF Inv, WakeOK
  <2>2. \A u \in Threads, v \in Workers : Sends(u, v)' <=> Sends(u, v)
    BY <1>1 DEF Sends
  <2> QED
    BY <1>1, <2>1, <2>2, WakeFrame
<1>9. StopOK'
  <2>1. \A u \in Threads, v \in Workers : StopPusher(u, v)' => StopPusher(u, v)
    BY <1>1 DEF StopPusher
  <2>2. \A v \in Workers : pc[v] = "left" => v \in stopped
    BY DEF Inv, StopOK
  <2>3. \A v \in stopped : v \in Workers /\ pc[v] \in {"next", "unhold", "check", "left"}
    BY DEF Inv, StopOK, TypeOK
  <2>4. \A v \in stopped : pc'[v] = pc[v]
    BY <1>1, <2>3
  <2> QED
    BY <1>1, <2>1, <2>2, <2>4, StopFrame
<1>10. /\ \A u \in Threads : ~Pushing(u, b)
       /\ \A v \in Workers : \A p \in 1..Len(list[v]) : list[v][p] # b
  BY <1>1 DEF Inv, ListsOK
<1>11. /\ \A u \in Threads, c \in Barriers : Pushing(u, c)' <=> Pushing(u, c) \/ (u = t /\ c = b)
       /\ \A u \in Threads, v \in Workers : u # t => (ToCome(u, v)' <=> ToCome(u, v))
       /\ \A v \in Workers : ToCome(t, v)'
       /\ \A c \in Barriers : ~Pushing(t, c)
  <2>1. \A u \in Threads, c \in Barriers : Pushing(u, c)' <=> Pushing(u, c) \/ (u = t /\ c = b)
    BY <1>1 DEF Pushing, CallPCs
  <2>2. \A v \in Workers : ToCome(t, v)'
    BY <1>1 DEF ToCome
  <2> QED
    BY <1>1, <2>1, <2>2 DEF Pushing, ToCome, CallPCs
<1>12. ListsOK'
  <2>1. \A v \in Workers, u \in Threads, c \in Barriers :
          Pushing(u, c)' /\ ToCome(u, v)' => \A p \in 1..Len(list'[v]) : list'[v][p] # c
    <3>1. ASSUME NEW v \in Workers, NEW u \in Threads, NEW c \in Barriers,
                 Pushing(u, c)', ToCome(u, v)'
          PROVE  \A p \in 1..Len(list'[v]) : list'[v][p] # c
      <4>1. CASE u = t /\ c = b
        BY <1>1, <1>10, <4>1
      <4>2. CASE ~(u = t /\ c = b)
        <5>1. Pushing(u, c) /\ ToCome(u, v)
          BY <1>11, <3>1, <4>2
        <5> QED
          BY <1>1, <5>1 DEF Inv, ListsOK
      <4> QED
        BY <4>1, <4>2
    <3> QED
      BY <3>1
  <2>2. \A c \in Barriers, u, r \in Threads : Pushing(u, c)' /\ Pushing(r, c)' => u = r
    BY <1>10, <1>11 DEF Inv, ListsOK
  <2>3. \A c \in Barriers : barrier'[c] = "unused" =>
          /\ \A u \in Threads : ~Pushing(u, c)'
          /\ \A v \in Workers : \A p \in 1..Len(list'[v]) : list'[v][p] # c
    BY <1>1, <1>11 DEF Inv, ListsOK
  <2> QED
    BY <1>1, <2>1, <2>2, <2>3 DEF Inv, ListsOK
<1>13. \A v \in Workers : \A p : Ran(v, p)' <=> Ran(v, p)
  BY <1>1 DEF Ran
<1>14. Pending(b)' = Workers
  <2>1. ASSUME NEW v \in Workers PROVE Waits(v, b)'
    BY <1>11 DEF Waits
  <2> QED
    BY <2>1 DEF Pending
<1>15. ASSUME NEW c \in Barriers, c # b PROVE Pending(c)' = Pending(c)
  <2>1. ASSUME NEW v \in Workers PROVE Waits(v, c)' <=> Waits(v, c)
    <3>1. (\E u \in Threads : Pushing(u, c)' /\ ToCome(u, v)') <=>
          (\E u \in Threads : Pushing(u, c) /\ ToCome(u, v))
      BY <1>11, <1>15
    <3> QED
      BY <1>1, <1>13, <3>1 DEF Waits
  <2> QED
    BY <2>1 DEF Pending
<1>16. BarrierOK'
  <2>1. \A w \in Workers : pc'[w] = "body" =>
            /\ pc[w] = "body" /\ list'[w][1] = list[w][1] /\ list[w][1] # b
            /\ list[w][1] \in Barriers
            /\ \A c \in Barriers : c = list[w][1] => barrier[c] = "sent" /\ Pending(c) = {}
    BY <1>1 DEF Inv, BarrierOK
  <2>2. \A c \in Barriers : brefs'[c] = Cardinality(Pending(c)')
    BY <1>1, <1>14, <1>15 DEF Inv, BarrierOK
  <2>3. \A c \in Barriers : barrier'[c] = "freed" => Pending(c)' = {}
    BY <1>1, <1>15 DEF Inv, BarrierOK
  <2>4. \A w \in Workers, c \in Barriers : pc'[w] = "body" /\ list'[w][1] = c =>
          barrier'[c] = "sent" /\ Pending(c)' = {}
    BY <1>1, <1>15, <2>1
  <2>5. \A v, w \in Workers : pc'[v] = "body" /\ pc'[w] = "body"
                             /\ list'[v][1] = list'[w][1] => v = w
    BY <2>1 DEF Inv, BarrierOK
  <2> QED
    BY <2>1, <2>2, <2>3, <2>4, <2>5 DEF BarrierOK
<1>17. DrainOK'
  <2>1. after_del \subseteq Barriers
    BY DEF Inv, TypeOK
  <2>2. \A v \in Workers : pc'[v] = "dispatch" => pc[v] = "dispatch"
    BY <1>1
  <2> QED
    BY <1>1, <1>14, <1>15, <2>1, <2>2 DEF Inv, DrainOK
<1> QED
  BY <1>3, <1>4, <1>5, <1>6, <1>7, <1>8, <1>9, <1>12, <1>16, <1>17 DEF Inv

LEMMA WorkLeaveStep ==
    ASSUME Inv, NEW t \in Threads, WorkLeave(t)
    PROVE  Inv'
<1> USE ThreadFacts DEF local_vars, loop_vars, flag_vars, call_vars, bar_vars, epoll_vars
<1>1. /\ pc[t] = "leave" /\ work_cnt' = work_cnt - 1
      /\ \A u \in Threads : pc'[u] = IF u # t THEN pc[u]
                                     ELSE IF work_cnt = 1 THEN "copy" ELSE Home(t)
      /\ UNCHANGED <<refs, local_vars, known, enter_cnt, first, freed, flag_vars,
                     call_vars, bar_vars, epoll_vars>>
  BY DEF WorkLeave, Go, Inv, TypeOK
<1>2. Holds(t) /\ AllIn /\ known = Workers
  BY <1>1, AllKnown DEF Holds, EnteringPCs
<1>3. work_cnt \in Nat /\ work_cnt >= 1 /\ \A u \in Threads : ~Leaver(u)
  BY <1>2, HoldersKeep DEF Inv, TypeOK
<1>4. pc'[t] \in {"copy", "idle", "combine"}
  BY <1>1 DEF Home
<1>5. TypeOK'
  <2>1. work_cnt' \in Nat
    BY <1>1, <1>3
  <2>2. pc' \in [Threads -> PCs]
    BY DEF WorkLeave, Go, Home, Inv, TypeOK, PCs, EnteringPCs, CallPCs
  <2> QED
    BY <1>1, <2>1, <2>2 DEF Inv, TypeOK, PCs, EnteringPCs, CallPCs
<1>6. ControlOK'
  <2>1. \A u \in Threads : u # t => ThreadOK(u)'
    BY <1>1 DEF Inv, ControlOK, ThreadOK
  <2>2. ThreadOK(t)'
    BY <1>1 DEF Inv, ControlOK, ThreadOK, CallPCs, Home
  <2>3. pc'[1] # "create"
    BY <1>1, <1>2, <1>4 DEF AllIn, Entered
  <2> QED
    BY <2>1, <2>2, <2>3 DEF ControlOK
<1>7. EnterOK'
  <2>1. \A w \in Workers : pc'[w] = pc[w] \/ (Entered(w) /\ Entered(w)')
    BY <1>1, <1>2, <1>4 DEF AllIn, Entered
  <2> QED
    BY <1>1, <1>2, <2>1, EnterFrame
<1>8. \A u \in Threads : Leaver(u)' <=> u = t /\ work_cnt = 1
  BY <1>1, <1>3 DEF Leaver, CallPCs, Home
<1>9. WorkOK'
  <2>1. t \in Holders /\ Holders' = Holders \ {t}
    BY <1>1, <1>2, <1>4 DEF Holders, Holds, CallPCs
  <2>2. Cardinality(Holders') = Cardinality(Holders) - 1
    BY <2>1, HoldersFinite, FS_RemoveElement
  <2>3. work_cnt' = Cardinality(Holders') + (IF first' THEN 1 ELSE 0)
    <3>1. work_cnt = Cardinality(Holders) + (IF first THEN 1 ELSE 0)
      BY DEF Inv, WorkOK
    <3>2. Cardinality(Holders) \in Nat
      BY HoldersFinite
    <3> QED
      BY <1>1, <2>2, <3>1, <3>2
  <2> QED
    BY <1>1, <1>8, <2>3 DEF WorkOK
<1>10. RefsOK'
  <2>1. \A v \in Workers : ~Released(v)
    BY <1>3 DEF Released
  <2>2. \A v \in Workers : ~Released(v)'
    <3>1. CASE work_cnt = 1
      BY <1>1, <1>8, <3>1 DEF Released, Passed
    <3>2. CASE work_cnt # 1
      BY <1>1, <1>3, <3>2 DEF Released
    <3> QED
      BY <3>1, <3>2
  <2>3. \A v \in Workers : OwnHeld(v)' <=> OwnHeld(v)
    BY <1>1, <1>4 DEF OwnHeld
  <2> QED
    BY <1>1, <2>1, <2>2, <2>3 DEF Inv, RefsOK
<1>11. WakeOK' /\ QrefsOK'
  <2>1. \A v \in Workers : pc[v] \in {"local", "body", "next"} => v \in need_drain
    BY DEF Inv, WakeOK
  <2>2. \A u \in Threads, v \in Workers : Sends(u, v)' <=> Sends(u, v)
    BY <1>1, <1>4 DEF Sends
  <2> QED
    BY <1>1, <1>4, <2>1, <2>2, WakeFrame
<1>12. StopOK'
  <2>1. \A u \in Threads, v \in Workers : StopPusher(u, v)' => StopPusher(u, v)
    BY <1>1, <1>4 DEF StopPusher
  <2>2. \A v \in Workers : pc[v] = "left" => v \in stopped
    BY DEF Inv, StopOK
  <2>3. \A v \in stopped : v \in Workers /\ pc[v] \in {"next", "unhold", "check", "left"}
    BY DEF Inv, StopOK, TypeOK
  <2>4. \A v \in stopped : pc'[v] = pc[v]
    BY <1>1, <2>3
  <2> QED
    BY <1>1, <1>4, <2>1, <2>2, <2>4, StopFrame
<1>13. ListsOK' /\ BarrierOK' /\ DrainOK'
  BY <1>1, <1>4, WaitsFrame DEF CallPCs
<1> QED
  BY <1>5, <1>6, <1>7, <1>9, <1>10, <1>11, <1>12, <1>13 DEF Inv

LEMMA CopyWorkersStep ==
    ASSUME Inv, NEW t \in Threads, CopyWorkers(t)
    PROVE  Inv'
<1> USE ThreadFacts DEF local_vars, loop_vars, flag_vars, bar_vars, epoll_vars
<1>1. /\ pc[t] = "copy"
      /\ \A u \in Threads : pc'[u] = IF u = t THEN "release" ELSE pc[u]
      /\ \A u \in Threads : why'[u] = IF u = t THEN "leave" ELSE why[u]
      /\ \A u \in Threads : target'[u] = IF u = t THEN 1 ELSE target[u]
      /\ UNCHANGED <<refs, local_vars, loop_vars, flag_vars, job, bar_vars, epoll_vars>>
  BY DEF CopyWorkers, Go, Inv, TypeOK
<1>2. AllIn /\ known = Workers
  BY <1>1, AllKnown DEF EnteringPCs
<1>3. TypeOK'
  <2>1. target' \in [Threads -> Workers]
    BY DEF CopyWorkers, Inv, TypeOK
  <2>2. pc' \in [Threads -> PCs] /\ why' \in [Threads -> {"barrier", "leave", "own"}]
    BY DEF CopyWorkers, Go, Inv, TypeOK, PCs, EnteringPCs, CallPCs
  <2> QED
    BY <1>1, <2>1, <2>2 DEF Inv, TypeOK, PCs, EnteringPCs, CallPCs
<1>4. ControlOK'
  BY <1>1, <1>2 DEF Inv, ControlOK, ThreadOK, CallPCs, AllIn, Entered
<1>5. EnterOK'
  <2>1. \A w \in Workers : pc'[w] = pc[w] \/ (Entered(w) /\ Entered(w)')
    BY <1>1, <1>2 DEF AllIn, Entered
  <2> QED
    BY <1>1, <1>2, <2>1, EnterFrame
<1>6. WorkOK'
  BY <1>1, WorkFrame DEF Holds, Leaver, CallPCs
<1>7. RefsOK'
  <2>1. \A v \in Workers : OwnHeld(v)' <=> OwnHeld(v)
    BY <1>1 DEF OwnHeld
  <2>2. \A u \in Threads : Leaver(u)' <=> Leaver(u)
    BY <1>1 DEF Leaver, CallPCs
  <2>3. \A u \in Threads, v \in Workers : Passed(u, v)' <=> Passed(u, v)
    <3>1. \A v \in Workers : ~(v < 1)
      OBVIOUS
    <3> QED
      BY <1>1, <3>1 DEF Passed
  <2> QED
    BY <1>1, <2>1, <2>2, <2>3, RefsFrame
<1>8. WakeOK' /\ QrefsOK'
  <2>1. \A v \in Workers : pc[v] \in {"local", "body", "next"} => v \in need_drain
    BY DEF Inv, WakeOK
  <2>2. \A u \in Threads, v \in Workers : Sends(u, v)' <=> Sends(u, v)
    BY <1>1 DEF Sends
  <2> QED
    BY <1>1, <2>1, <2>2, WakeFrame
<1>9. StopOK'
  <2>1. \A u \in Threads, v \in Workers : StopPusher(u, v)' => StopPusher(u, v)
    BY <1>1 DEF StopPusher
  <2>2. \A v \in Workers : pc[v] = "left" => v \in stopped
    BY DEF Inv, StopOK
  <2>3. \A v \in stopped : v \in Workers /\ pc[v] \in {"next", "unhold", "check", "left"}
    BY DEF Inv, StopOK, TypeOK
  <2>4. \A v \in stopped : pc'[v] = pc[v]
    BY <1>1, <2>3
  <2> QED
    BY <1>1, <2>1, <2>2, <2>4, StopFrame
<1>10. ListsOK' /\ BarrierOK' /\ DrainOK'
  BY <1>1, WaitsFrame DEF CallPCs
<1> QED
  BY <1>3, <1>4, <1>5, <1>6, <1>7, <1>8, <1>9, <1>10 DEF Inv

-----------------------------------------------------------------------------
(* The drain of a local queue.                                             *)

(* Steps of a worker among the points past its entry that are no calls and *)
(* hold no work: what they cannot disturb.                                 *)
ServicePCs == {"check", "combine", "wait", "dispatch", "returned", "local",
               "body", "next", "unhold", "left"}

LEMMA ServiceFrame ==
    ASSUME Inv, NEW w \in Workers, pc[w] \in ServicePCs, NEW x \in ServicePCs,
           pc' = [pc EXCEPT ![w] = x],
           UNCHANGED <<refs, loop_vars, call_vars, epoll_vars>>
    PROVE  /\ \A u \in Threads : pc'[u] = IF u = w THEN x ELSE pc[u]
           /\ pc' \in [Threads -> PCs]
           /\ AllIn /\ known = Workers
           /\ ControlOK' /\ EnterOK' /\ WorkOK' /\ RefsOK'
           /\ \A u \in Threads, v \in Workers : Sends(u, v)' <=> Sends(u, v)
           /\ \A u \in Threads : pc'[u] = "signal" <=> pc[u] = "signal"
           /\ \A u \in Threads, v \in Workers : StopPusher(u, v)' <=> StopPusher(u, v)
           /\ \A u \in Threads, b \in Barriers : Pushing(u, b)' <=> Pushing(u, b)
           /\ \A u \in Threads, v \in Workers : ToCome(u, v)' <=> ToCome(u, v)
<1> USE ThreadFacts DEF loop_vars, call_vars, epoll_vars
<1>1. \A u \in Threads : pc'[u] = IF u = w THEN x ELSE pc[u]
  BY DEF Inv, TypeOK
<1>2. pc' \in [Threads -> PCs]
  BY DEF Inv, TypeOK, PCs, EnteringPCs, CallPCs, ServicePCs
<1>3. AllIn /\ known = Workers
  BY AllKnown DEF EnteringPCs, ServicePCs
<1>4. ControlOK'
  <2>1. \A u \in Threads : u # w => ThreadOK(u)'
    BY <1>1 DEF Inv, ControlOK, ThreadOK
  <2>2. ThreadOK(w)'
    BY <1>1 DEF Inv, ControlOK, ThreadOK, CallPCs, ServicePCs
  <2>3. pc'[1] # "create"
    BY <1>1, <1>3 DEF AllIn, Entered, ServicePCs
  <2> QED
    BY <2>1, <2>2, <2>3 DEF ControlOK
<1>5. EnterOK'
  <2>1. \A v \in Workers : pc'[v] = pc[v] \/ (Entered(v) /\ Entered(v)')
    BY <1>1 DEF Entered, ServicePCs
  <2> QED
    BY <1>1, <1>3, <2>1, EnterFrame
<1>6. WorkOK'
  <2>1. \A u \in Threads : /\ Holds(u)' <=> Holds(u)
                           /\ Leaver(u)' <=> Leaver(u)
    BY <1>1 DEF Holds, Leaver, CallPCs, ServicePCs
  <2> QED
    BY <2>1, WorkFrame
<1>7. RefsOK'
  <2>1. \A v \in Workers : OwnHeld(v)' <=> OwnHeld(v)
    BY <1>1 DEF OwnHeld, ServicePCs
  <2>2. \A u \in Threads : Leaver(u)' <=> Leaver(u)
    BY <1>1 DEF Leaver, CallPCs, ServicePCs
  <2>3. \A u \in Threads, v \in Workers : Passed(u, v)' <=> Passed(u, v)
    BY <1>1 DEF Passed, ServicePCs
  <2> QED
    BY <2>1, <2>2, <2>3, RefsFrame
<1>8. /\ \A u \in Threads, v \in Workers : Sends(u, v)' <=> Sends(u, v)
      /\ \A u \in Threads : pc'[u] = "signal" <=> pc[u] = "signal"
      /\ \A u \in Threads, v \in Workers : StopPusher(u, v)' <=> StopPusher(u, v)
  BY <1>1 DEF Sends, StopPusher, ServicePCs
<1>9. /\ \A u \in Threads, b \in Barriers : Pushing(u, b)' <=> Pushing(u, b)
      /\ \A u \in Threads, v \in Workers : ToCome(u, v)' <=> ToCome(u, v)
  BY <1>1 DEF Pushing, ToCome, CallPCs, ServicePCs
<1> QED
  BY <1>1, <1>2, <1>3, <1>4, <1>5, <1>6, <1>7, <1>8, <1>9

(* A worker inside the drain has something in its local queue.             *)
LEMMA DrainHasTask ==
    ASSUME Inv, NEW w \in Workers, pc[w] \in {"local", "body", "next"}
    PROVE  /\ list[w] \in Seq(Jobs) /\ list[w] # <<>> /\ Head(list[w]) = list[w][1]
           /\ Len(list[w]) \in Nat /\ Len(list[w]) >= 1 /\ list[w][1] \in Jobs
           /\ signals[w] = 0 /\ \A t \in Threads : ~Sends(t, w)
           /\ w \in need_drain
<1>1. w \in need_drain /\ Drains(w)
  BY DEF Drains, Inv, WakeOK
<1>2. list[w] # <<>> /\ signals[w] = 0 /\ \A t \in Threads : ~Sends(t, w)
  BY <1>1 DEF Inv, WakeOK
<1>3. list[w] \in Seq(Jobs)
  BY DEF Inv, TypeOK
<1> QED
  BY <1>1, <1>2, <1>3

LEMMA DeliverSignalStep ==
    ASSUME Inv, NEW w \in Workers, DeliverSignal(w)
    PROVE  Inv'
<1> USE DEF local_vars, loop_vars, flag_vars, call_vars, bar_vars, epoll_vars
<1>1. /\ pc[w] = "wait" /\ pc' = [pc EXCEPT ![w] = "returned"]
      /\ signals[w] > 0 /\ need_drain' = need_drain \cup {w}
      /\ UNCHANGED <<refs, list, qrefs, loop_vars, stopped, call_vars, bar_vars, epoll_vars>>
  BY DEF DeliverSignal, Go
<1>2. /\ signals[w] = 1 /\ signals \in [Workers -> Nat]
      /\ signals' = [signals EXCEPT ![w] = 0]
      /\ \A v \in Workers : signals'[v] = IF v = w THEN 0 ELSE signals[v]
  <2>1. signals \in [Workers -> Nat]
    BY DEF Inv, TypeOK
  <2>2. signals[w] \in {0, 1}
    BY DEF Inv, WakeOK
  <2>3. signals[w] = 1
    BY <1>1, <2>2
  <2>4. signals' = [signals EXCEPT ![w] = signals[w] - 1]
    BY DEF DeliverSignal
  <2> QED
    BY <2>1, <2>3, <2>4
<1>3. pc[w] \in ServicePCs /\ "returned" \in ServicePCs
  BY <1>1 DEF ServicePCs
<1>4. /\ \A u \in Threads : pc'[u] = IF u = w THEN "returned" ELSE pc[u]
      /\ pc' \in [Threads -> PCs] /\ AllIn /\ known = Workers
      /\ ControlOK' /\ EnterOK' /\ WorkOK' /\ RefsOK'
      /\ \A u \in Threads, v \in Workers : Sends(u, v)' <=> Sends(u, v)
      /\ \A u \in Threads : pc'[u] = "signal" <=> pc[u] = "signal"
      /\ \A u \in Threads, v \in Workers : StopPusher(u, v)' <=> StopPusher(u, v)
  BY <1>1, <1>3, ServiceFrame
<1> USE ThreadFacts
<1>5. TypeOK'
  <2>1. signals' \in [Workers -> Nat]
    BY <1>2
  <2>2. need_drain' \in SUBSET Workers
    BY <1>1 DEF Inv, TypeOK
  <2> QED
    BY <1>1, <1>4, <2>1, <2>2 DEF Inv, TypeOK, PCs, EnteringPCs, CallPCs
<1>6. ~Drains(w) /\ w \notin need_drain /\ list[w] # <<>> /\ \A u \in Threads : ~Sends(u, w)
  BY <1>1, <1>2 DEF Inv, WakeOK, Drains
<1>7. Drains(w)' /\ \A v \in Workers : v # w => (Drains(v)' <=> Drains(v))
  BY <1>1, <1>4 DEF Drains
<1>8. WakeOK'
  <2>1. \A v \in Workers : signals'[v] \in {0, 1}
    BY <1>2 DEF Inv, WakeOK
  <2>2. \A v \in Workers, u, r \in Threads : Sends(u, v)' /\ Sends(r, v)' => u = r
    BY <1>4 DEF Inv, WakeOK
  <2>3. \A v \in Workers, u \in Threads : Sends(u, v)' => signals'[v] = 0 /\ ~Drains(v)'
    BY <1>2, <1>4, <1>6, <1>7 DEF Inv, WakeOK
  <2>4. \A v \in Workers : signals'[v] = 1 => ~Drains(v)'
    BY <1>2, <1>7 DEF Inv, WakeOK
  <2>5. ASSUME NEW v \in Workers
        PROVE  list'[v] # <<>> <=>
                 signals'[v] = 1 \/ Drains(v)' \/ \E u \in Threads : Sends(u, v)'
    <3>1. CASE v = w
      BY <1>1, <1>6, <1>7, <3>1
    <3>2. CASE v # w
      BY <1>1, <1>2, <1>4, <1>7, <3>2 DEF Inv, WakeOK
    <3> QED
      BY <3>1, <3>2
  <2>6. \A v \in Workers : pc'[v] \in {"local", "body", "next", "unhold"} => v \in need_drain'
    BY <1>1, <1>4 DEF Inv, WakeOK
  <2> QED
    BY <1>1, <1>4, <2>1, <2>2, <2>3, <2>4, <2>5, <2>6 DEF WakeOK
<1>9. QrefsOK'
  <2>1. ASSUME NEW v \in Workers
        PROVE  qrefs'[v] = 1 + signals'[v] + (IF v \in need_drain' THEN 1 ELSE 0)
                     + (IF \E u \in Threads : Sends(u, v)' /\ pc'[u] = "signal"
                        THEN 1 ELSE 0)
    <3>1. qrefs[v] = 1 + signals[v] + (IF v \in need_drain THEN 1 ELSE 0)
                     + (IF \E u \in Threads : Sends(u, v) /\ pc[u] = "signal"
                        THEN 1 ELSE 0)
      BY <1>4 DEF AllIn, Entered, Inv, QrefsOK
    <3>2. (\E u \in Threads : Sends(u, v)' /\ pc'[u] = "signal") <=>
          (\E u \in Threads : Sends(u, v) /\ pc[u] = "signal")
      BY <1>4
    <3>3. CASE v = w
      BY <1>1, <1>2, <1>6, <3>1, <3>2, <3>3
    <3>4. CASE v # w
      BY <1>1, <1>2, <3>1, <3>2, <3>4
    <3> QED
      BY <3>3, <3>4
  <2> QED
    BY <2>1 DEF QrefsOK
<1>10. StopOK'
  <2>1. \A v \in Workers : pc[v] = "left" => v \in stopped
    BY DEF Inv, StopOK
  <2>2. \A v \in stopped : v \in Workers /\ pc[v] \in {"next", "unhold", "check", "left"}
    BY DEF Inv, StopOK, TypeOK
  <2>3. \A v \in stopped : pc'[v] = pc[v]
    BY <1>1, <1>4, <2>2
  <2> QED
    BY <1>1, <1>4, <2>1, <2>3, StopFrame
<1>11. ListsOK' /\ BarrierOK' /\ DrainOK'
  BY <1>1, <1>4, WaitsFrame DEF CallPCs
<1> QED
  BY <1>4, <1>5, <1>8, <1>9, <1>10, <1>11 DEF Inv

LEMMA EndDrainStep ==
    ASSUME Inv, NEW w \in Workers, EndDrain(w)
    PROVE  Inv'
<1> USE DEF local_vars, loop_vars, flag_vars, call_vars, bar_vars, epoll_vars
<1>1. /\ pc[w] = "unhold" /\ pc' = [pc EXCEPT ![w] = "check"]
      /\ qrefs' = [qrefs EXCEPT ![w] = @ - 1] /\ need_drain' = need_drain \ {w}
      /\ UNCHANGED <<refs, list, signals, loop_vars, stopped, call_vars, bar_vars, epoll_vars>>
  BY DEF EndDrain, Go
<1>2. pc[w] \in ServicePCs /\ "check" \in ServicePCs
  BY <1>1 DEF ServicePCs
<1>3. /\ \A u \in Threads : pc'[u] = IF u = w THEN "check" ELSE pc[u]
      /\ pc' \in [Threads -> PCs] /\ AllIn /\ known = Workers
      /\ ControlOK' /\ EnterOK' /\ WorkOK' /\ RefsOK'
      /\ \A u \in Threads, v \in Workers : Sends(u, v)' <=> Sends(u, v)
      /\ \A u \in Threads : pc'[u] = "signal" <=> pc[u] = "signal"
      /\ \A u \in Threads, v \in Workers : StopPusher(u, v)' <=> StopPusher(u, v)
  BY <1>1, <1>2, ServiceFrame
<1> USE ThreadFacts
<1>4. /\ qrefs \in [Workers -> Nat] /\ need_drain \subseteq Workers
      /\ \A v \in Workers : qrefs'[v] = IF v = w THEN qrefs[v] - 1 ELSE qrefs[v]
  BY <1>1 DEF Inv, TypeOK
<1>5. \A v \in Workers : Drains(v)' <=> Drains(v)
  BY <1>1, <1>3 DEF Drains
<1>6. WakeOK'
  <2>1. \A v \in Workers : pc'[v] \in {"local", "body", "next", "unhold"} => v \in need_drain'
    BY <1>1, <1>3 DEF Inv, WakeOK
  <2> QED
    BY <1>1, <1>3, <1>5, <2>1 DEF Inv, WakeOK
<1>7. w \in need_drain
  BY <1>1 DEF Inv, WakeOK
<1>8. \A v \in Workers : qrefs[v] = 1 + signals[v] + (IF v \in need_drain THEN 1 ELSE 0)
                     + (IF \E u \in Threads : Sends(u, v) /\ pc[u] = "signal"
                        THEN 1 ELSE 0)
  BY <1>3 DEF AllIn, Entered, Inv, QrefsOK
<1>9. QrefsOK'
  <2>1. ASSUME NEW v \in Workers
        PROVE  qrefs'[v] = 1 + signals'[v] + (IF v \in need_drain' THEN 1 ELSE 0)
                     + (IF \E u \in Threads : Sends(u, v)' /\ pc'[u] = "signal"
                        THEN 1 ELSE 0)
    <3>1. signals[v] \in Nat
      BY DEF Inv, TypeOK
    <3>2. (\E u \in Threads : Sends(u, v)' /\ pc'[u] = "signal") <=>
          (\E u \in Threads : Sends(u, v) /\ pc[u] = "signal")
      BY <1>3
    <3>3. CASE v = w
      BY <1>1, <1>4, <1>7, <1>8, <3>1, <3>2, <3>3
    <3>4. CASE v # w
      BY <1>1, <1>4, <1>8, <3>1, <3>2, <3>4
    <3> QED
      BY <3>3, <3>4
  <2> QED
    BY <2>1 DEF QrefsOK
<1>10. TypeOK'
  <2>1. qrefs[w] >= 1
    BY <1>7, <1>8, SMTT(30) DEF Inv, TypeOK
  <2>2. qrefs' \in [Workers -> Nat]
    BY <1>1, <1>4, <2>1
  <2> QED
    BY <1>1, <1>3, <1>4, <2>2 DEF Inv, TypeOK, PCs, EnteringPCs, CallPCs
<1>11. StopOK'
  <2>1. \A v \in Workers : pc[v] = "left" => v \in stopped
    BY DEF Inv, StopOK
  <2> QED
    BY <1>1, <1>3, <2>1, StopFrame DEF Inv, TypeOK
<1>12. ListsOK' /\ BarrierOK' /\ DrainOK'
  BY <1>1, <1>3, WaitsFrame DEF CallPCs
<1> QED
  BY <1>3, <1>6, <1>9, <1>10, <1>11, <1>12 DEF Inv

(* A worker runs its part of a barrier, or its stop task.                  *)
LEMMA RunLocalStep ==
    ASSUME Inv, NEW w \in Workers, RunLocal(w)
    PROVE  Inv'
<1> USE DEF local_vars, loop_vars, flag_vars, call_vars, bar_vars, epoll_vars
<1>1. /\ pc[w] = "local"
      /\ UNCHANGED <<refs, local_vars, loop_vars, need_drain, call_vars, barrier,
                     after_del, epoll_vars>>
  BY DEF RunLocal
<1>2. PICK b \in Jobs : b = list[w][1] /\ b = Head(list[w])
  BY <1>1, DrainHasTask
<1>3. /\ Len(list[w]) \in Nat /\ Len(list[w]) >= 1 /\ w \in need_drain
      /\ 1 \in 1..Len(list[w])
  BY <1>1, DrainHasTask
<1>4. PICK x \in {"body", "next"} :
        /\ pc' = [pc EXCEPT ![w] = x]
        /\ \/ b = StopTask /\ stopped' = stopped \cup {w} /\ x = "next" /\ brefs' = brefs
           \/ /\ b # StopTask /\ stopped' = stopped
              /\ brefs' = [brefs EXCEPT ![b] = brefs[b] - 1]
              /\ x = IF brefs[b] = 1 THEN "body" ELSE "next"
  BY <1>2 DEF RunLocal, Go
<1>5. pc[w] \in ServicePCs /\ x \in ServicePCs
  BY <1>1 DEF ServicePCs
<1>6. /\ \A u \in Threads : pc'[u] = IF u = w THEN x ELSE pc[u]
      /\ pc' \in [Threads -> PCs] /\ AllIn /\ known = Workers
      /\ ControlOK' /\ EnterOK' /\ WorkOK' /\ RefsOK'
      /\ \A u \in Threads, v \in Workers : Sends(u, v)' <=> Sends(u, v)
      /\ \A u \in Threads : pc'[u] = "signal" <=> pc[u] = "signal"
      /\ \A u \in Threads, v \in Workers : StopPusher(u, v)' <=> StopPusher(u, v)
      /\ \A u \in Threads, c \in Barriers : Pushing(u, c)' <=> Pushing(u, c)
      /\ \A u \in Threads, v \in Workers : ToCome(u, v)' <=> ToCome(u, v)
  BY <1>1, <1>4, <1>5, ServiceFrame
<1> USE ThreadFacts
<1>7. WakeOK' /\ QrefsOK'
  <2>1. \A v \in Workers : pc'[v] \in {"local", "body", "next"} => v \in need_drain
    BY <1>3, <1>6 DEF Inv, WakeOK
  <2>2. \A v \in Workers : pc'[v] = "unhold" <=> pc[v] = "unhold"
    BY <1>1, <1>6
  <2>3. \A v \in Workers : pc'[v] \notin {"unborn", "create", "init"} =>
               pc[v] \notin {"unborn", "create", "init"}
    BY <1>6 DEF AllIn, Entered
  <2> QED
    BY <1>1, <1>6, <2>1, <2>2, <2>3, WakeFrame
<1>8. ListsOK'
  BY <1>1, <1>6 DEF Inv, ListsOK
<1>9. \A v \in Workers : \A p \in Nat : Ran(v, p)' <=> Ran(v, p) \/ (v = w /\ p = 1)
  BY <1>1, <1>6 DEF Ran
<1>10. ~Ran(w, 1) /\ \A v \in Workers : pc'[v] = "body" => v = w \/ pc[v] = "body"
  BY <1>1, <1>6 DEF Ran
<1>11. \A v \in Workers : Len(list[v]) \in Nat
  BY DEF Inv, TypeOK
<1>12. ASSUME NEW c \in Barriers, NEW v \in Workers, v # w \/ c # b
       PROVE  Waits(v, c)' <=> Waits(v, c)
  <2>1. (\E u \in Threads : Pushing(u, c)' /\ ToCome(u, v)') <=>
        (\E u \in Threads : Pushing(u, c) /\ ToCome(u, v))
    BY <1>6
  <2>2. \A p \in 1..Len(list[v]) : list[v][p] = c => (Ran(v, p)' <=> Ran(v, p))
    BY <1>2, <1>9, <1>11, <1>12
  <2> QED
    BY <1>1, <2>1, <2>2 DEF Waits
<1>13. CASE b = StopTask
  <2>1. b \notin Barriers /\ x = "next" /\ stopped' = stopped \cup {w} /\ brefs' = brefs
    BY <1>4, <1>13, WorkerTasks
  <2>2. refs[w] = 0 /\ Len(list[w]) = 1 /\ list[w][1] = StopTask /\ StopListed(w)
    BY <1>2, <1>3, <1>13 DEF Inv, StopOK, StopListed
  <2>3. TypeOK'
    BY <1>1, <1>6, <2>1 DEF Inv, TypeOK, PCs, EnteringPCs, CallPCs
  <2>4. StopOK'
    <3>1. \A v \in Workers : StopListed(v)' <=> StopListed(v)
      BY <1>1 DEF StopListed
    <3>2. ASSUME NEW v \in Workers
          PROVE  /\ \A u, r \in Threads : StopPusher(u, v)' /\ StopPusher(r, v)' => u = r
                 /\ \A u \in Threads : StopPusher(u, v)' =>
                      refs'[v] = 0 /\ ~StopListed(v)' /\ v \notin stopped'
      BY <1>1, <1>6, <2>1, <2>2, <3>1 DEF Inv, StopOK
    <3>3. ASSUME NEW v \in Workers
          PROVE  /\ v \in stopped' =>
                      /\ refs'[v] = 0
                      /\ \/ pc'[v] = "next" /\ Len(list'[v]) = 1 /\ list'[v][1] = StopTask
                         \/ pc'[v] \in {"unhold", "check", "left"} /\ list'[v] = <<>>
                 /\ pc'[v] = "left" => v \in stopped'
      <4>1. CASE v = w
        BY <1>1, <1>6, <2>1, <2>2, <4>1
      <4>2. CASE v # w
        BY <1>1, <1>6, <2>1, <4>2 DEF Inv, StopOK
      <4> QED
        BY <4>1, <4>2
    <3>4. \A v \in Workers : \A p \in 1..Len(list'[v]) : list'[v][p] = StopTask =>
              refs'[v] = 0 /\ p = Len(list'[v])
      BY <1>1 DEF Inv, StopOK
    <3> QED
      BY <3>2, <3>3, <3>4 DEF StopOK
  <2>5. \A c \in Barriers, v \in Workers : Waits(v, c)' <=> Waits(v, c)
    BY <1>12, <2>1
  <2>6. \A v \in Workers : pc'[v] = "body" => pc[v] = "body" /\ list'[v][1] = list[v][1]
    BY <1>1, <1>6, <2>1
  <2>7. \A v \in Workers : pc'[v] = "dispatch" => pc[v] = "dispatch" \/ fd
    BY <1>6
  <2>8. BarrierOK' /\ DrainOK'
    BY <1>1, <2>1, <2>5, <2>6, <2>7, PendingFrame
  <2> QED
    BY <1>6, <1>7, <1>8, <2>3, <2>4, <2>8 DEF Inv
<1>14. CASE b # StopTask
  <2>1. /\ b \in Barriers /\ stopped' = stopped
        /\ brefs' = [brefs EXCEPT ![b] = brefs[b] - 1]
        /\ x = IF brefs[b] = 1 THEN "body" ELSE "next"
    BY <1>4, <1>14 DEF Jobs
  <2>2. Waits(w, b) /\ ~Waits(w, b)'
    <3>1. Waits(w, b)
      BY <1>2, <1>3, <1>10 DEF Waits
    <3>2. \A u \in Threads : ~(Pushing(u, b)' /\ ToCome(u, w)')
      BY <1>2, <1>3, <1>6, <2>1 DEF Inv, ListsOK
    <3>3. ASSUME NEW p \in 1..Len(list[w]), list[w][p] = b PROVE Ran(w, p)'
      <4>1. p = 1
        BY <1>2, <1>3, <2>1, <3>3 DEF Inv, ListsOK
      <4> QED
        BY <1>6, <4>1 DEF Ran
    <3> QED
      BY <1>1, <3>1, <3>2, <3>3 DEF Waits
  <2>3. Pending(b)' = Pending(b) \ {w} /\ w \in Pending(b)
    BY <1>12, <2>1, <2>2 DEF Pending
  <2>4. \A c \in Barriers : c # b => Pending(c)' = Pending(c)
    BY <1>12 DEF Pending
  <2>5. Cardinality(Pending(b)') = Cardinality(Pending(b)) - 1
    BY <2>3, HoldersFinite, FS_RemoveElement
  <2>6. brefs[b] = Cardinality(Pending(b)) /\ brefs \in [Barriers -> 0..Width]
    BY <2>1 DEF Inv, BarrierOK, TypeOK
  <2>7. brefs[b] >= 1
    BY <2>3, <2>6, HoldersFinite, FS_EmptySet
  <2>8. \A c \in Barriers : brefs'[c] = IF c = b THEN brefs[b] - 1 ELSE brefs[c]
    BY <2>1, <2>6
  <2>9. TypeOK'
    <3>1. brefs' \in [Barriers -> 0..Width]
      BY <2>1, <2>6, <2>7, WorkerWidth
    <3> QED
      BY <1>1, <1>6, <2>1, <3>1 DEF Inv, TypeOK, PCs, EnteringPCs, CallPCs
  <2>10. StopOK'
    <3>1. \A v \in Workers : pc[v] = "left" => v \in stopped
      BY DEF Inv, StopOK
    <3>2. \A v \in stopped : v \in Workers /\ pc[v] \in {"next", "unhold", "check", "left"}
      BY DEF Inv, StopOK, TypeOK
    <3>3. \A v \in stopped : pc'[v] = pc[v]
      BY <1>1, <1>6, <3>2
    <3> QED
      BY <1>1, <1>6, <2>1, <3>1, <3>3, StopFrame
  <2>11. barrier[b] = "sent"
    <3>1. barrier[b] # "freed"
      BY <2>1, <2>3 DEF Inv, BarrierOK
    <3>2. barrier[b] # "unused"
      BY <1>2, <1>3, <2>1 DEF Inv, ListsOK
    <3> QED
      BY <2>1, <3>1, <3>2 DEF Inv, TypeOK
  <2>12. x = "body" => Pending(b)' = {}
    <3>1. x = "body" => Cardinality(Pending(b)') = 0
      BY <2>1, <2>5, <2>6
    <3>2. IsFiniteSet(Pending(b)')
      BY <2>3, HoldersFinite, FS_RemoveElement
    <3> QED
      BY <3>1, <3>2, FS_EmptySet
  <2>13. BarrierOK'
    <3>1. \A c \in Barriers : brefs'[c] = Cardinality(Pending(c)')
      BY <2>4, <2>5, <2>6, <2>8 DEF Inv, BarrierOK
    <3>2. \A c \in Barriers : barrier'[c] = "freed" => Pending(c)' = {}
      BY <1>1, <2>4, <2>11 DEF Inv, BarrierOK
    <3>3. \A v \in Workers : pc'[v] = "body" => list'[v][1] \in Barriers
      BY <1>1, <1>2, <1>10, <2>1 DEF Inv, BarrierOK
    <3>4. \A v \in Workers : pc[v] = "body" => list[v][1] # b
      BY <2>1, <2>3 DEF Inv, BarrierOK
    <3>5. \A v \in Workers, c \in Barriers : pc'[v] = "body" /\ list'[v][1] = c =>
              barrier'[c] = "sent" /\ Pending(c)' = {}
      <4>1. ASSUME NEW v \in Workers, NEW c \in Barriers, pc'[v] = "body", list'[v][1] = c
            PROVE  barrier'[c] = "sent" /\ Pending(c)' = {}
        <5>1. CASE v = w
          BY <1>1, <1>2, <1>6, <2>11, <2>12, <4>1, <5>1
        <5>2. CASE v # w
          <6>1. pc[v] = "body" /\ list[v][1] = c /\ c # b
            BY <1>1, <1>6, <3>4, <4>1, <5>2
          <6> QED
            BY <1>1, <2>4, <6>1 DEF Inv, BarrierOK
        <5> QED
          BY <5>1, <5>2
      <4> QED
        BY <4>1
    <3>6. \A u, v \in Workers : pc'[u] = "body" /\ pc'[v] = "body"
                             /\ list'[u][1] = list'[v][1] => u = v
      BY <1>1, <1>2, <1>10, <3>4 DEF Inv, BarrierOK
    <3> QED
      BY <3>1, <3>2, <3>3, <3>5, <3>6 DEF BarrierOK
  <2>14. DrainOK'
    <3>1. after_del \subseteq Barriers
      BY DEF Inv, TypeOK
    <3>2. \A v \in Workers : pc'[v] = "dispatch" => pc[v] = "dispatch" /\ v # w
      BY <1>6
    <3> QED
      BY <1>1, <2>3, <2>4, <3>1, <3>2 DEF Inv, DrainOK
  <2> QED
    BY <1>6, <1>7, <1>8, <2>9, <2>10, <2>13, <2>14 DEF Inv
<1> QED
  BY <1>13, <1>14

LEMMA RunBarrierStep ==
    ASSUME Inv, NEW w \in Workers, RunBarrier(w)
    PROVE  Inv'
<1> USE DEF local_vars, loop_vars, flag_vars, call_vars, bar_vars, epoll_vars
<1>1. /\ pc[w] = "body" /\ pc' = [pc EXCEPT ![w] = "next"]
      /\ UNCHANGED <<refs, local_vars, loop_vars, flag_vars, call_vars, brefs,
                     after_del, epoll_vars>>
  BY DEF RunBarrier, Go
<1>2. PICK b \in Barriers : b = list[w][1] /\ b = Head(list[w])
  BY <1>1, DrainHasTask DEF Inv, BarrierOK
<1>3. /\ barrier' = [barrier EXCEPT ![b] = "freed"]
      /\ \A c \in Barriers : barrier'[c] = IF c = b THEN "freed" ELSE barrier[c]
  BY <1>2 DEF RunBarrier, Inv, TypeOK
<1>4. pc[w] \in ServicePCs /\ "next" \in ServicePCs /\ w \in need_drain
  BY <1>1, DrainHasTask DEF ServicePCs
<1>5. /\ \A u \in Threads : pc'[u] = IF u = w THEN "next" ELSE pc[u]
      /\ pc' \in [Threads -> PCs] /\ AllIn /\ known = Workers
      /\ ControlOK' /\ EnterOK' /\ WorkOK' /\ RefsOK'
      /\ \A u \in Threads, v \in Workers : Sends(u, v)' <=> Sends(u, v)
      /\ \A u \in Threads : pc'[u] = "signal" <=> pc[u] = "signal"
      /\ \A u \in Threads, v \in Workers : StopPusher(u, v)' <=> StopPusher(u, v)
      /\ \A u \in Threads, c \in Barriers : Pushing(u, c)' <=> Pushing(u, c)
      /\ \A u \in Threads, v \in Workers : ToCome(u, v)' <=> ToCome(u, v)
  BY <1>1, <1>4, ServiceFrame
<1> USE ThreadFacts
<1>6. TypeOK'
  BY <1>1, <1>3, <1>5 DEF Inv, TypeOK, PCs, EnteringPCs, CallPCs
<1>7. WakeOK' /\ QrefsOK'
  <2>1. \A v \in Workers : pc'[v] \in {"local", "body", "next"} => v \in need_drain
    BY <1>4, <1>5 DEF Inv, WakeOK
  <2>2. \A v \in Workers : pc'[v] = "unhold" <=> pc[v] = "unhold"
    BY <1>1, <1>5
  <2>3. \A v \in Workers : pc'[v] \notin {"unborn", "create", "init"} =>
               pc[v] \notin {"unborn", "create", "init"}
    BY <1>5 DEF AllIn, Entered
  <2> QED
    BY <1>1, <1>5, <2>1, <2>2, <2>3, WakeFrame
<1>8. StopOK'
  <2>1. \A v \in Workers : pc[v] = "left" => v \in stopped
    BY DEF Inv, StopOK
  <2>2. \A v \in stopped : v \in Workers /\ pc[v] \in {"next", "unhold", "check", "left"}
    BY DEF Inv, StopOK, TypeOK
  <2>3. \A v \in stopped : pc'[v] = pc[v]
    BY <1>1, <1>5, <2>2
  <2> QED
    BY <1>1, <1>5, <2>1, <2>3, StopFrame
<1>9. ListsOK'
  BY <1>1, <1>3, <1>5 DEF Inv, ListsOK
<1>10. \A c \in Barriers : Pending(c)' = Pending(c)
  <2>1. \A v \in Workers : \A p : Ran(v, p)' <=> Ran(v, p)
    BY <1>1, <1>5 DEF Ran
  <2>2. ASSUME NEW c \in Barriers, NEW v \in Workers PROVE Waits(v, c)' <=> Waits(v, c)
    BY <1>1, <1>5, <2>1 DEF Waits
  <2> QED
    BY <2>2 DEF Pending
<1>11. BarrierOK'
  <2>1. \A v \in Workers : pc'[v] = "body" => pc[v] = "body" /\ list[v][1] # b
    BY <1>1, <1>2, <1>5 DEF Inv, BarrierOK
  <2>2. Pending(b) = {}
    BY <1>1, <1>2 DEF Inv, BarrierOK
  <2>3. \A c \in Barriers : barrier'[c] = "freed" => Pending(c)' = {}
    BY <1>3, <1>10, <2>2 DEF Inv, BarrierOK
  <2>4. \A v \in Workers, c \in Barriers : pc'[v] = "body" /\ list'[v][1] = c =>
              barrier'[c] = "sent" /\ Pending(c)' = {}
    BY <1>1, <1>3, <1>10, <2>1 DEF Inv, BarrierOK
  <2>5. \A c \in Barriers : brefs'[c] = Cardinality(Pending(c)')
    BY <1>1, <1>10 DEF Inv, BarrierOK
  <2> QED
    BY <1>1, <2>1, <2>3, <2>4, <2>5 DEF Inv, BarrierOK
<1>12. DrainOK'
  <2>1. after_del \subseteq Barriers
    BY DEF Inv, TypeOK
  <2>2. \A v \in Workers : pc'[v] = "dispatch" => pc[v] = "dispatch"
    BY <1>5
  <2> QED
    BY <1>1, <1>10, <2>1, <2>2 DEF Inv, DrainOK
<1> QED
  BY <1>5, <1>6, <1>7, <1>8, <1>9, <1>11, <1>12 DEF Inv

LEMMA TailFacts ==
    ASSUME NEW S, NEW s \in Seq(S), s # <<>>
    PROVE  /\ Tail(s) \in Seq(S) /\ Len(s) \in Nat /\ Len(s) >= 1
           /\ Len(Tail(s)) = Len(s) - 1 /\ Len(Tail(s)) \in Nat
           /\ \A p \in 1..Len(Tail(s)) : p + 1 \in 1..Len(s) /\ Tail(s)[p] = s[p + 1]
           /\ \A p \in 1..Len(s) : p # 1 => p - 1 \in 1..Len(Tail(s)) /\ Tail(s)[p - 1] = s[p]
           /\ Tail(s) = <<>> <=> Len(s) = 1
<1>1. /\ Tail(s) \in Seq(S) /\ Len(Tail(s)) = Len(s) - 1
      /\ \A p \in 1..Len(Tail(s)) : Tail(s)[p] = s[p + 1]
  BY HeadTailProperties
<1>2. Len(s) \in Nat /\ Len(s) >= 1 /\ Len(Tail(s)) \in Nat
  BY <1>1, EmptySeq
<1>3. \A p \in 1..Len(Tail(s)) : p + 1 \in 1..Len(s)
  BY <1>1, <1>2
<1>4. ASSUME NEW p \in 1..Len(s), p # 1
      PROVE  p - 1 \in 1..Len(Tail(s)) /\ Tail(s)[p - 1] = s[p]
  <2>1. p - 1 \in 1..Len(Tail(s)) /\ (p - 1) + 1 = p
    BY <1>1, <1>2, <1>4
  <2> QED
    BY <1>1, <2>1
<1>5. Tail(s) = <<>> <=> Len(s) = 1
  <2>1. Tail(s) = <<>> <=> Len(Tail(s)) = 0
    BY <1>1, EmptySeq
  <2> QED
    BY <1>1, <1>2, <2>1
<1> QED
  BY <1>1, <1>2, <1>3, <1>4, <1>5

(* The task that was run leaves the local queue.                           *)
LEMMA NextLocalStep ==
    ASSUME Inv, NEW w \in Workers, NextLocal(w)
    PROVE  Inv'
<1> USE DEF local_vars, loop_vars, flag_vars, call_vars, bar_vars, epoll_vars
<1>1. /\ pc[w] = "next"
      /\ UNCHANGED <<refs, qrefs, signals, loop_vars, flag_vars, call_vars,
                     bar_vars, epoll_vars>>
      /\ list' = [list EXCEPT ![w] = Tail(list[w])]
  BY DEF NextLocal
<1>2. /\ list[w] \in Seq(Jobs) /\ list[w] # <<>> /\ signals[w] = 0 /\ w \in need_drain
      /\ \A u \in Threads : ~Sends(u, w)
  BY <1>1, DrainHasTask
<1>3. list \in [Workers -> Seq(Jobs)] /\ \A v \in Workers : Len(list[v]) \in Nat
  BY DEF Inv, TypeOK
<1>4. PICK s \in Seq(Jobs) : s = Tail(list[w])
  BY <1>2, TailFacts
<1>5. /\ Len(list[w]) \in Nat /\ Len(list[w]) >= 1 /\ Len(s) = Len(list[w]) - 1
      /\ \A p \in 1..Len(s) : p + 1 \in 1..Len(list[w]) /\ s[p] = list[w][p + 1]
      /\ \A p \in 1..Len(list[w]) : p # 1 => p - 1 \in 1..Len(s) /\ s[p - 1] = list[w][p]
      /\ s = <<>> <=> Len(list[w]) = 1
  BY <1>2, <1>4, TailFacts
<1>6. /\ list' \in [Workers -> Seq(Jobs)] /\ list'[w] = s
      /\ \A v \in Workers : v # w => list'[v] = list[v]
  BY <1>1, <1>3, <1>4
<1>7. PICK x \in {"unhold", "local"} :
        /\ pc' = [pc EXCEPT ![w] = x]
        /\ x = "unhold" <=> Len(list[w]) = 1
  BY DEF NextLocal, Go
<1>8. pc[w] \in ServicePCs /\ x \in ServicePCs
  BY <1>1 DEF ServicePCs
<1>9. /\ \A u \in Threads : pc'[u] = IF u = w THEN x ELSE pc[u]
      /\ pc' \in [Threads -> PCs] /\ AllIn /\ known = Workers
      /\ ControlOK' /\ EnterOK' /\ WorkOK' /\ RefsOK'
      /\ \A u \in Threads, v \in Workers : Sends(u, v)' <=> Sends(u, v)
      /\ \A u \in Threads : pc'[u] = "signal" <=> pc[u] = "signal"
      /\ \A u \in Threads, v \in Workers : StopPusher(u, v)' <=> StopPusher(u, v)
      /\ \A u \in Threads, c \in Barriers : Pushing(u, c)' <=> Pushing(u, c)
      /\ \A u \in Threads, v \in Workers : ToCome(u, v)' <=> ToCome(u, v)
  BY <1>1, <1>7, <1>8, ServiceFrame
<1> USE ThreadFacts
<1>10. TypeOK'
  <2>1. list' \in [Workers -> Seq(Jobs)] /\ pc' \in [Threads -> PCs]
    BY <1>6, <1>9
  <2> HIDE <1>6, <1>9
  <2> QED
    BY <1>1, <2>1 DEF Inv, TypeOK, PCs, EnteringPCs, CallPCs
<1>11. /\ Drains(w)' <=> list'[w] # <<>>
       /\ \A v \in Workers : v # w => (Drains(v)' <=> Drains(v))
  BY <1>1, <1>2, <1>5, <1>6, <1>7, <1>9 DEF Drains
<1>12. WakeOK'
  <2>1. \A v \in Workers, u \in Threads : Sends(u, v)' => signals'[v] = 0 /\ ~Drains(v)'
    BY <1>1, <1>2, <1>9, <1>11 DEF Inv, WakeOK
  <2>2. \A v \in Workers : signals'[v] = 1 => ~Drains(v)'
    BY <1>1, <1>2, <1>11 DEF Inv, WakeOK
  <2>3. ASSUME NEW v \in Workers
        PROVE  list'[v] # <<>> <=>
                 signals'[v] = 1 \/ Drains(v)' \/ \E u \in Threads : Sends(u, v)'
    <3>1. CASE v = w
      BY <1>1, <1>2, <1>9, <1>11, <3>1
    <3>2. CASE v # w
      BY <1>1, <1>6, <1>9, <1>11, <3>2 DEF Inv, WakeOK
    <3> QED
      BY <3>1, <3>2
  <2>4. \A v \in Workers : pc'[v] \in {"local", "body", "next", "unhold"} => v \in need_drain'
    BY <1>1, <1>2, <1>9 DEF Inv, WakeOK
  <2> QED
    BY <1>1, <1>9, <2>1, <2>2, <2>3, <2>4 DEF Inv, WakeOK
<1>13. QrefsOK'
  <2>1. ASSUME NEW v \in Workers
        PROVE  qrefs'[v] = 1 + signals'[v] + (IF v \in need_drain' THEN 1 ELSE 0)
                     + (IF \E u \in Threads : Sends(u, v)' /\ pc'[u] = "signal"
                        THEN 1 ELSE 0)
    <3>1. (\E u \in Threads : Sends(u, v)' /\ pc'[u] = "signal") <=>
          (\E u \in Threads : Sends(u, v) /\ pc[u] = "signal")
      BY <1>9
    <3> QED
      BY <1>1, <1>9, <3>1 DEF AllIn, Entered, Inv, QrefsOK
  <2> QED
    BY <2>1 DEF QrefsOK
<1>14. \A v \in Workers : \A p \in 1..Len(list'[v]) :
          \E q \in 1..Len(list[v]) : /\ list[v][q] = list'[v][p]
                                     /\ q = (IF v = w THEN p + 1 ELSE p)
  BY <1>5, <1>6
<1>15. StopOK'
  <2>1. ASSUME NEW v \in Workers, StopListed(v)' PROVE StopListed(v)
    <3>1. PICK p \in 1..Len(list'[v]) : list'[v][p] = StopTask
      BY <2>1 DEF StopListed
    <3>2. PICK q \in 1..Len(list[v]) : list[v][q] = list'[v][p]
      BY <1>14
    <3> QED
      BY <3>1, <3>2 DEF StopListed
  <2>2. ASSUME NEW v \in Workers
        PROVE  /\ \A u, r \in Threads : StopPusher(u, v)' /\ StopPusher(r, v)' => u = r
               /\ \A u \in Threads : StopPusher(u, v)' =>
                    refs'[v] = 0 /\ ~StopListed(v)' /\ v \notin stopped'
    BY <1>1, <1>9, <2>1 DEF Inv, StopOK
  <2>3. ASSUME NEW v \in Workers, NEW p \in 1..Len(list'[v]), list'[v][p] = StopTask
        PROVE  refs'[v] = 0 /\ p = Len(list'[v])
    <3>1. PICK q \in 1..Len(list[v]) : list[v][q] = StopTask /\ q = (IF v = w THEN p + 1 ELSE p)
      BY <1>14, <2>3
    <3>2. refs[v] = 0 /\ q = Len(list[v])
      BY <3>1 DEF Inv, StopOK
    <3>3. CASE v = w
      BY <1>1, <1>5, <1>6, <3>1, <3>2, <3>3
    <3>4. CASE v # w
      BY <1>1, <1>6, <3>1, <3>2, <3>4
    <3> QED
      BY <3>3, <3>4
  <2>4. ASSUME NEW v \in Workers
        PROVE  /\ v \in stopped' =>
                    /\ refs'[v] = 0
                    /\ \/ pc'[v] = "next" /\ Len(list'[v]) = 1 /\ list'[v][1] = StopTask
                       \/ pc'[v] \in {"unhold", "check", "left"} /\ list'[v] = <<>>
               /\ pc'[v] = "left" => v \in stopped'
    <3>1. CASE v = w
      <4>1. v \in stopped => refs[v] = 0 /\ Len(list[v]) = 1
        BY <1>1, <3>1 DEF Inv, StopOK
      <4> QED
        BY <1>1, <1>5, <1>6, <1>7, <1>9, <3>1, <4>1
    <3>2. CASE v # w
      BY <1>1, <1>6, <1>9, <3>2 DEF Inv, StopOK
    <3> QED
      BY <3>1, <3>2
  <2> QED
    BY <2>2, <2>3, <2>4 DEF StopOK
<1>16. ListsOK'
  <2>1. ASSUME NEW v \in Workers, NEW p \in 1..Len(list'[v]), NEW q \in 1..Len(list'[v]),
               list'[v][p] = list'[v][q], list'[v][p] \in Barriers
        PROVE  p = q
    <3>1. PICK i \in 1..Len(list[v]) : list[v][i] = list'[v][p] /\ i = (IF v = w THEN p + 1 ELSE p)
      BY <1>14
    <3>2. PICK j \in 1..Len(list[v]) : list[v][j] = list'[v][q] /\ j = (IF v = w THEN q + 1 ELSE q)
      BY <1>14
    <3>3. i = j
      BY <2>1, <3>1, <3>2 DEF Inv, ListsOK
    <3> QED
      BY <3>1, <3>2, <3>3
  <2>2. ASSUME NEW v \in Workers, NEW u \in Threads, NEW c \in Barriers,
               Pushing(u, c)', ToCome(u, v)', NEW p \in 1..Len(list'[v])
        PROVE  list'[v][p] # c
    <3>1. \A q \in 1..Len(list[v]) : list[v][q] # c
      BY <1>9, <2>2 DEF Inv, ListsOK
    <3>2. PICK q \in 1..Len(list[v]) : list[v][q] = list'[v][p]
      BY <1>14
    <3> QED
      BY <3>1, <3>2
  <2>3. \A c \in Barriers, u, r \in Threads : Pushing(u, c)' /\ Pushing(r, c)' => u = r
    BY <1>9 DEF Inv, ListsOK
  <2>4. ASSUME NEW c \in Barriers, barrier'[c] = "unused"
        PROVE  /\ \A u \in Threads : ~Pushing(u, c)'
               /\ \A v \in Workers : \A p \in 1..Len(list'[v]) : list'[v][p] # c
    <3>1. /\ \A u \in Threads : ~Pushing(u, c)
          /\ \A v \in Workers : \A q \in 1..Len(list[v]) : list[v][q] # c
      BY <1>1, <2>4 DEF Inv, ListsOK
    <3> QED
      <4>1. \A u \in Threads : ~Pushing(u, c)'
        BY <1>9, <3>1
      <4>2. ASSUME NEW v \in Workers, NEW p \in 1..Len(list'[v]) PROVE list'[v][p] # c
        <5>1. PICK q \in 1..Len(list[v]) : list[v][q] = list'[v][p]
          BY <1>14
        <5> QED
          BY <3>1, <5>1
      <4> QED
        BY <4>1, <4>2
  <2> QED
    BY <2>1, <2>2, <2>3, <2>4 DEF ListsOK
<1>17. ASSUME NEW c \in Barriers, NEW v \in Workers PROVE Waits(v, c)' <=> Waits(v, c)
  <2>1. (\E u \in Threads : Pushing(u, c)' /\ ToCome(u, v)') <=>
        (\E u \in Threads : Pushing(u, c) /\ ToCome(u, v))
    BY <1>9
  <2>2. CASE v # w
    <3>1. list'[v] = list[v] /\ \A p : Ran(v, p)' <=> Ran(v, p)
      BY <1>6, <1>9, <2>2 DEF Ran
    <3> QED
      BY <2>1, <3>1 DEF Waits
  <2>3. CASE v = w
    <3>1. \A p \in 1..Len(list[w]) : Ran(w, p) <=> p = 1
      BY <1>1 DEF Ran
    <3>2. \A p : ~Ran(w, p)'
      BY <1>9 DEF Ran
    <3>3. ASSUME NEW p \in 1..Len(s), s[p] = c
          PROVE  \E q \in 1..Len(list[w]) : list[w][q] = c /\ ~Ran(w, q)
      <4>1. p + 1 \in 1..Len(list[w]) /\ list[w][p + 1] = c /\ p + 1 # 1
        BY <1>5, <3>3
      <4> QED
        BY <3>1, <4>1
    <3>4. ASSUME NEW q \in 1..Len(list[w]), list[w][q] = c, ~Ran(w, q)
          PROVE  \E p \in 1..Len(s) : s[p] = c
      <4>1. q # 1
        BY <3>1, <3>4
      <4>2. q - 1 \in 1..Len(s) /\ s[q - 1] = c
        BY <1>5, <3>4, <4>1
      <4> QED
        BY <4>2
    <3> QED
      BY <1>6, <2>1, <2>3, <3>2, <3>3, <3>4 DEF Waits
  <2> QED
    BY <2>2, <2>3
<1>18. BarrierOK' /\ DrainOK'
  <2>1. \A v \in Workers : pc'[v] = "body" => pc[v] = "body" /\ list'[v][1] = list[v][1]
    BY <1>6, <1>9
  <2>2. \A v \in Workers : pc'[v] = "dispatch" => pc[v] = "dispatch" \/ fd
    BY <1>9
  <2> QED
    BY <1>1, <1>17, <2>1, <2>2, PendingFrame
<1> QED
  BY <1>9, <1>10, <1>12, <1>13, <1>15, <1>16, <1>18 DEF Inv

-----------------------------------------------------------------------------
(* The other steps of the service loop and of the application.             *)
LEMMA PlainSteps ==
    ASSUME Inv, NEW t \in Threads,
           \/ t \in Workers /\ (CheckStopped(t) \/ EpollReports(t) \/ Dispatched(t)
                                \/ EpollInterrupted(t) \/ ServiceReturned(t))
           \/ EpollDel(t) \/ AppEnds(t)
    PROVE  Inv'
<1> USE DEF loop_vars, epoll_vars, Go
<1>1. /\ fd \in BOOLEAN /\ events \in 0..MaxEvents /\ freed \in BOOLEAN
      /\ pc = [pc EXCEPT ![t] = pc[t]]
  BY DEF Inv, TypeOK
<1>2. \A w \in Workers : w \in stopped =>
          pc[w] \in {"next", "unhold", "check", "left"}
  BY DEF Inv, StopOK
<1>3. CASE t \in Workers /\ CheckStopped(t)
  <2>1. /\ pc[t] = "check" /\ pc' = [pc EXCEPT ![t] = IF t \in stopped THEN "left" ELSE "combine"]
        /\ UNCHANGED <<refs, local_vars, loop_vars, flag_vars, call_vars, bar_vars, epoll_vars>>
    BY <1>3 DEF CheckStopped
  <2> QED
    BY <1>1, <1>3, <2>1, PlainStep
<1>4. CASE t \in Workers /\ EpollReports(t)
  <2>1. /\ pc[t] = "wait" /\ fd /\ pc' = [pc EXCEPT ![t] = "dispatch"] /\ fd' = fd
        /\ UNCHANGED <<refs, local_vars, loop_vars, flag_vars, call_vars, bar_vars>>
        /\ events' \in 0..MaxEvents
    BY <1>1, <1>4, WorkerBounds DEF EpollReports
  <2> QED
    BY <1>1, <1>2, <1>4, <2>1, PlainStep
<1>5. CASE t \in Workers /\ Dispatched(t)
  <2>1. /\ pc[t] = "dispatch" /\ pc' = [pc EXCEPT ![t] = "combine"]
        /\ UNCHANGED <<refs, local_vars, loop_vars, flag_vars, call_vars, bar_vars, epoll_vars>>
    BY <1>5 DEF Dispatched
  <2> QED
    BY <1>1, <1>2, <1>5, <2>1, PlainStep
<1>6. CASE t \in Workers /\ EpollInterrupted(t)
  <2>1. /\ pc[t] = "wait" /\ pc' = [pc EXCEPT ![t] = "returned"] /\ fd' = fd
        /\ UNCHANGED <<refs, local_vars, loop_vars, flag_vars, call_vars, bar_vars>>
        /\ events' \in 0..MaxEvents
    BY <1>1, <1>6, WorkerBounds DEF EpollInterrupted
  <2> QED
    BY <1>1, <1>2, <1>6, <2>1, PlainStep
<1>7. CASE t \in Workers /\ ServiceReturned(t)
  <2>1. /\ pc[t] = "returned"
        /\ pc' = [pc EXCEPT ![t] = IF t \in need_drain THEN "local" ELSE "check"]
        /\ UNCHANGED <<refs, local_vars, loop_vars, flag_vars, call_vars, bar_vars, epoll_vars>>
    BY <1>7 DEF ServiceReturned
  <2> QED
    BY <1>1, <1>2, <1>7, <2>1, PlainStep
<1>8. CASE EpollDel(t)
  <2>1. /\ pc[t] = "app" /\ pc' = [pc EXCEPT ![t] = "app"] /\ fd' = FALSE /\ events' = events
        /\ UNCHANGED <<refs, local_vars, loop_vars, flag_vars, call_vars, bar_vars>>
    BY <1>1, <1>8 DEF EpollDel
  <2> QED
    BY <1>1, <2>1, PlainStep
<1>9. CASE AppEnds(t)
  <2>1. /\ pc[t] = "app" /\ pc' = [pc EXCEPT ![t] = "leave"]
        /\ UNCHANGED <<refs, local_vars, loop_vars, flag_vars, call_vars, bar_vars, epoll_vars>>
    BY <1>9 DEF AppEnds
  <2> QED
    BY <1>1, <2>1, PlainStep
<1> QED
  BY <1>3, <1>4, <1>5, <1>6, <1>7, <1>8, <1>9

(* The invariant does not mention what only freed and stuttering change.   *)
LEMMA UnchangedInv ==
    ASSUME Inv, freed' \in BOOLEAN,
           UNCHANGED <<refs, local_vars, known, enter_cnt, work_cnt, first,
                       flag_vars, pc, call_vars, bar_vars, epoll_vars>>
    PROVE  Inv'
<1> USE DEF local_vars, flag_vars, call_vars, bar_vars, epoll_vars
<1>1. TypeOK'
  BY DEF Inv, TypeOK
<1>2. ControlOK' /\ StopOK'
  BY DEF Inv, ControlOK, ThreadOK, StopOK, StopPusher, StopListed
<1>3. EnterOK'
  BY EnterFrame
<1>4. WorkOK'
  BY WorkFrame DEF Holds, Leaver
<1>5. RefsOK'
  BY RefsFrame DEF OwnHeld, Leaver, Passed
<1>6. WakeOK' /\ QrefsOK'
  <2>1. \A w \in Workers : pc[w] \in {"local", "body", "next"} => w \in need_drain
    BY DEF Inv, WakeOK
  <2> QED
    BY <2>1, WakeFrame DEF Sends
<1>7. ListsOK' /\ BarrierOK' /\ DrainOK'
  BY WaitsFrame
<1> QED
  BY <1>1, <1>2, <1>3, <1>4, <1>5, <1>6, <1>7 DEF Inv

LEMMA InvStep == Inv /\ [Next]_vars => Inv'
<1> SUFFICES ASSUME Inv, [Next]_vars PROVE Inv'
  OBVIOUS
<1>1. CASE CreateFollower
  BY <1>1, CreateFollowerStep
<1>2. ASSUME NEW w \in Workers, Serve(w) PROVE Inv'
  <2>1. w \in Threads
    BY ThreadFacts
  <2> QED
    BY <1>2, <2>1, WorkerInitStep, WorkerEnterStep, EnterBarrierStep, EnterWakesStep,
       ServeCombineStep, DeliverSignalStep, RunLocalStep, RunBarrierStep,
       NextLocalStep, EndDrainStep, PlainSteps DEF Serve
<1>3. ASSUME NEW w \in Workers, NEW c \in Clients, HandWork(w, c) PROVE Inv'
  BY <1>3, HandWorkStep
<1>4. ASSUME NEW t \in Threads, Call(t) PROVE Inv'
  BY <1>4, PushLocalStep, AcquireLocalStep, SendSignalStep, ReleaseWorkerStep,
     WorkLeaveStep, CopyWorkersStep DEF Call
<1>5. ASSUME NEW t \in Threads, EpollDel(t) \/ AppEnds(t) PROVE Inv'
  BY <1>5, PlainSteps
<1>6. ASSUME NEW t \in Threads, NEW b \in Barriers, PushBarrier(t, b) PROVE Inv'
  BY <1>6, PushBarrierStep
<1>7. CASE DestroyLoop
  BY <1>7, UnchangedInv DEF DestroyLoop
<1>8. CASE UNCHANGED vars
  BY <1>8, UnchangedInv DEF vars, loop_vars, Inv, TypeOK
<1> QED
  BY <1>1, <1>2, <1>3, <1>4, <1>5, <1>6, <1>7, <1>8 DEF Next, Terminated

-----------------------------------------------------------------------------
(* What the invariant says.                                                *)
LEMMA InvConsistent == Inv => WorkerConsistent
<1> SUFFICES ASSUME Inv PROVE WorkerConsistent
  OBVIOUS
<1>1. WorkersKnown
  BY AllKnown DEF WorkersKnown, EnteringPCs
<1>2. ASSUME NEW b \in Barriers, barrier[b] = "freed", NEW w \in Workers,
             NEW p \in 1..Len(list[w]), list[w][p] = b
      PROVE  p = 1 /\ pc[w] = "next"
  <2>1. Pending(b) = {}
    BY <1>2 DEF Inv, BarrierOK
  <2>2. ~Waits(w, b)
    BY <2>1 DEF Pending
  <2>3. p = 1 /\ pc[w] \in {"body", "next"}
    BY <1>2, <2>2 DEF Waits, Ran
  <2> QED
    BY <1>2, <2>3 DEF Inv, BarrierOK
<1>3. ASSUME NEW b \in Barriers, barrier[b] = "freed", NEW t \in Threads, pc[t] = "push"
      PROVE  job[t] # b
  <2>1. SUFFICES ASSUME job[t] = b PROVE FALSE
    OBVIOUS
  <2>2. why[t] = "barrier"
    BY <1>3, <2>1, WorkerTasks DEF Inv, ControlOK, ThreadOK
  <2>3. Waits(target[t], b)
    BY <1>3, <2>1, <2>2 DEF Waits, Pushing, ToCome, CallPCs
  <2>4. target[t] \in Workers
    BY DEF Inv, TypeOK
  <2> QED
    BY <1>3, <2>3, <2>4 DEF Inv, BarrierOK, Pending
<1>4. BarrierFreedLast
  BY <1>2, <1>3 DEF BarrierFreedLast
<1> QED
  BY <1>1, <1>4 DEF WorkerConsistent, Inv

(* Cardinalities of the sets of wakeups, from the quantifiers of WakeOK.   *)
LEMMA WakeupSets ==
    ASSUME Inv, NEW w \in Workers
    PROVE  /\ Cardinality(Sending(w)) = IF \E t \in Threads : Sends(t, w) THEN 1 ELSE 0
           /\ Cardinality(Draining(w)) = IF Drains(w) THEN 1 ELSE 0
           /\ Cardinality({v \in {w} : v \in need_drain}) = IF w \in need_drain THEN 1 ELSE 0
           /\ Cardinality({t \in Sending(w) : pc[t] = "signal"})
                = IF \E t \in Threads : Sends(t, w) /\ pc[t] = "signal" THEN 1 ELSE 0
<1>1. \A t \in Threads : t \in Sending(w) <=> Sends(t, w)
  BY DEF Sending, Sends
<1>2. Sending(w) \subseteq Threads
  BY DEF Sending
<1>3. \A t, u \in Threads : Sends(t, w) /\ Sends(u, w) => t = u
  BY DEF Inv, WakeOK
<1>4. ASSUME NEW t \in Threads, Sends(t, w) PROVE Sending(w) = {t}
  BY <1>1, <1>2, <1>3, <1>4
<1>5. (\A t \in Threads : ~Sends(t, w)) => Sending(w) = {}
  BY <1>1, <1>2
<1>6. Cardinality(Sending(w)) = IF \E t \in Threads : Sends(t, w) THEN 1 ELSE 0
  BY <1>4, <1>5, FS_Singleton, FS_EmptySet
<1>7. Cardinality(Draining(w)) = IF Drains(w) THEN 1 ELSE 0
  <2>1. Draining(w) = IF Drains(w) THEN {w} ELSE {}
    BY DEF Draining, Drains
  <2> QED
    BY <2>1, FS_Singleton, FS_EmptySet
<1>8. Cardinality({v \in {w} : v \in need_drain}) = IF w \in need_drain THEN 1 ELSE 0
  <2>1. {v \in {w} : v \in need_drain} = IF w \in need_drain THEN {w} ELSE {}
    OBVIOUS
  <2> QED
    BY <2>1, FS_Singleton, FS_EmptySet
<1>9. Cardinality({t \in Sending(w) : pc[t] = "signal"})
                = IF \E t \in Threads : Sends(t, w) /\ pc[t] = "signal" THEN 1 ELSE 0
  <2>1. ASSUME NEW t \in Threads, Sends(t, w), pc[t] = "signal"
        PROVE  {u \in Sending(w) : pc[u] = "signal"} = {t}
    BY <1>4, <2>1
  <2>2. (\A t \in Threads : ~(Sends(t, w) /\ pc[t] = "signal")) =>
            {u \in Sending(w) : pc[u] = "signal"} = {}
    BY <1>1, <1>2
  <2> QED
    BY <2>1, <2>2, FS_Singleton, FS_EmptySet
<1> QED
  BY <1>6, <1>7, <1>8, <1>9

LEMMA InvOneWakeup == Inv => OneWakeupPerDrain
<1> SUFFICES ASSUME Inv, NEW w \in Workers
             PROVE  Cardinality(Sending(w)) + signals[w] + Cardinality(Draining(w))
                      = IF list[w] = <<>> THEN 0 ELSE 1
  BY DEF OneWakeupPerDrain
<1>1. /\ signals[w] \in {0, 1}
      /\ \A t \in Threads : Sends(t, w) => signals[w] = 0 /\ ~Drains(w)
      /\ signals[w] = 1 => ~Drains(w)
      /\ list[w] # <<>> <=> signals[w] = 1 \/ Drains(w) \/ \E t \in Threads : Sends(t, w)
  BY DEF Inv, WakeOK
<1>2. CASE \E t \in Threads : Sends(t, w)
  <2>1. signals[w] = 0 /\ ~Drains(w) /\ list[w] # <<>>
    BY <1>1, <1>2
  <2>2. Cardinality(Sending(w)) = 1 /\ Cardinality(Draining(w)) = 0
    BY <1>2, <2>1, WakeupSets
  <2> QED
    BY <2>1, <2>2
<1>3. CASE \A t \in Threads : ~Sends(t, w)
  <2>1. Cardinality(Sending(w)) = 0
    BY <1>3, WakeupSets
  <2>2. Cardinality(Draining(w)) = IF Drains(w) THEN 1 ELSE 0
    BY WakeupSets
  <2> QED
    BY <1>1, <1>3, <2>1, <2>2
<1> QED
  BY <1>2, <1>3

LEMMA InvOutlives == Inv => WorkerOutlivesUse
<1> SUFFICES ASSUME Inv PROVE WorkerOutlivesUse
  OBVIOUS
<1>1. LocalQueueStays
  BY WakeupSets DEF LocalQueueStays, Inv, QrefsOK
<1>2. ASSUME NEW w \in Workers, pc[w] = "left"
      PROVE  /\ \A t \in Threads : pc[t] \in {"push", "acquire", "signal", "release"}
                                => target[t] # w
             /\ list[w] = <<>> /\ signals[w] = 0
  <2>1. w \in stopped /\ refs[w] = 0 /\ list[w] = <<>>
    BY <1>2 DEF Inv, StopOK
  <2>2. signals[w] = 0 /\ \A t \in Threads : ~Sends(t, w)
    BY <2>1 DEF Inv, WakeOK
  <2>3. \A t \in Threads : ~StopPusher(t, w) /\ ~Holds(t)
    <3>1. \A t \in Threads : ~StopPusher(t, w)
      BY <2>1 DEF Inv, StopOK
    <3>2. ~(refs[w] >= 1)
      BY <2>1
    <3> QED
      BY <3>1, <3>2, HoldersKeep
  <2>4. ASSUME NEW t \in Threads, pc[t] = "release", target[t] = w PROVE FALSE
    <3>1. known = Workers
      BY <2>4, AllKnown DEF EnteringPCs
    <3>2. Released(w)
      BY <2>1, <3>1 DEF Inv, RefsOK
    <3>3. why[t] = "leave"
      BY <1>2, <2>4 DEF Inv, ControlOK, ThreadOK, TypeOK, CallPCs
    <3>4. Leaver(t) /\ ~Passed(t, w)
      BY <2>4, <3>3, ThreadFacts DEF Leaver, Passed
    <3> QED
      BY <3>2, <3>4 DEF Released
  <2>5. \A t \in Threads : pc[t] = "push" => target[t] # w
    BY <2>3 DEF StopPusher, Holds, CallPCs
  <2>6. \A t \in Threads : pc[t] \in {"acquire", "signal"} => target[t] # w
    BY <2>2 DEF Sends
  <2> QED
    BY <2>1, <2>2, <2>4, <2>5, <2>6
<1> QED
  BY <1>1, <1>2 DEF WorkerOutlivesUse, LeftForGood

LEMMA InvDrainsEpoll == Inv => BarrierDrainsEpoll
<1> SUFFICES ASSUME Inv, NEW w \in Workers, pc[w] = "body", Head(list[w]) \in after_del,
                    NEW v \in Workers, pc[v] = "dispatch"
             PROVE  FALSE
  BY DEF BarrierDrainsEpoll
<1>1. PICK b \in Barriers : b = list[w][1] /\ b \in after_del /\ Pending(b) = {}
  BY DrainHasTask DEF Inv, BarrierOK
<1> QED
  BY <1>1 DEF Inv, DrainOK

(* The inductive invariant holds in every reachable state.                 *)
LEMMA AlwaysInv == Spec => []Inv
  BY InitInv, InvStep, PTL DEF Spec

(* Nobody follows a worker pointer that is not in the table yet, and a     *)
(* barrier context is freed when nobody is left with it, in a loop of any  *)
(* width (ntt_loop_worker_enter, ntt_loop_push_barrier).                   *)
THEOREM WorkersConsistent == Spec => []WorkerConsistent
  BY AlwaysInv, InvConsistent, PTL

(* One signal is one drain: a local queue with tasks has exactly one       *)
(* wakeup under way (ntt_worker_local_queue_wakeup and the flag it sets).  *)
THEOREM SignalsPairWithDrains == Spec => []OneWakeupPerDrain
  BY AlwaysInv, InvOneWakeup, PTL

(* The worker on the stack of its thread, and the queue in it, are not     *)
(* used after the thread has returned (ntt_worker_svc_with_mask).          *)
THEOREM WorkersOutliveTheirUse == Spec => []WorkerOutlivesUse
  BY AlwaysInv, InvOutlives, PTL

(* "At task execution all previously deleted fds from epoll will be        *)
(* drained" (src/src/loop.h), for any number of workers and barriers.      *)
THEOREM BarriersDrainEpoll == Spec => []BarrierDrainsEpoll
  BY AlwaysInv, InvDrainsEpoll, PTL
=============================================================================
