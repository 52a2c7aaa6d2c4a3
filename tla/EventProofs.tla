----------------------------- MODULE EventProofs -----------------------------
(***************************************************************************)
(* Theorems about Event, for any number of slots, queues, dispatchers and  *)
(* users, and any bounds on what the kernel and the application do.        *)
(***************************************************************************)
EXTENDS Event, FiniteSetTheorems, SequenceTheorems, TLAPS

Pos(q) == 1..Len(queue[q])

(* What a program counter says about the other locals of its thread.       *)
UserPCs == {"idle", "store", "add", "resolve", "check", "close", "del",
            "release", "report_last", "wakeup"}
DispatcherPCs == {"idle", "resolve", "check", "here", "publish", "claim",
                  "post", "push", "release", "report_last"}
QueuePCs == {"idle", "call", "handler", "leave_side", "resolve", "check",
             "close", "del", "release", "report_last", "report", "give",
             "finish", "leave_work", "end"}

ThreadOK(t) ==
    /\ t \in Users =>
          /\ pc[t] \in UserPCs
          /\ op[t] = IF pc[t] \in {"idle", "store", "add"} THEN "side" ELSE "cancel"
    /\ t \in Dispatchers =>
          /\ pc[t] \in DispatcherPCs
          /\ op[t] = IF pc[t] = "idle" THEN "side" ELSE "dispatch"
    /\ t \in Queues =>
          /\ pc[t] \in QueuePCs
          /\ op[t] # "dispatch"
          /\ pc[t] \in {"resolve", "check", "close", "del"} => op[t] = "cancel"
          /\ pc[t] \notin {"resolve", "check", "close", "del", "release",
                           "report_last"} => op[t] = "side"
    /\ pc[t] \in {"here", "publish", "claim", "post", "push", "close", "del"} =>
          drops[t] = 1
    /\ pc[t] = "release" => drops[t] \in {1, 2}
    /\ pc[t] = "release" /\ drops[t] = 2 => op[t] = "cancel"
    /\ pc[t] # "finish" => held[t] = NoQueues

ControlOK == \A t \in Threads : ThreadOK(t)

(* The task a queue runs is at its head.                                   *)
HeadOK ==
    \A q \in Queues : pc[q] # "idle" =>
        /\ 1 \in Pos(q)
        /\ queue[q][1].slot = slot(q) /\ queue[q][1].side = side[q]
        /\ pc[q] \in {"report", "give", "finish", "leave_work"} => queue[q][1].kind = "cancelled"
        /\ pc[q] \notin {"report", "give", "finish", "leave_work", "end"} => queue[q][1].kind = "side"

(* An event is there for the application from its registration until its  *)
(* slot is given back.                                                     *)
Opening(s) == \E u \in Users : pc[u] \in {"store", "add"} /\ slot(u) = s
Added(s) == s \notin free /\ ~Opening(s)

(* Handles that were given away name a tenant of the past, or the present *)
(* one after its registration.                                             *)
Named(h) == \/ h.gen < gen[h.slot]
            \/ h.gen = gen[h.slot] /\ Added(h.slot)
NamedApp(h) == \/ h.gen < gen[h.slot]
               \/ h.gen = gen[h.slot] /\ Added(h.slot) /\ ~Owned(h.slot)

(* Points where a call has found that its handle names the present tenant. *)
CheckedPCs == {"here", "publish", "claim", "post", "push", "close", "del"}

(* The task at position i of queue q has not let go of its event.          *)
Unfinished(q, i) == i \in Pos(q) /\ ~(i = 1 /\ pc[q] \in {"finish", "leave_work", "end"})

NamesOK ==
    /\ \A s \in Slots : gen[s] + (IF s \in free THEN 0 ELSE 1) <= opens + 1
    /\ \A s \in Slots : s \notin free => params[s] \in AcceptedOrOwn
    /\ \A h \in epoll : h.gen = gen[h.slot] /\ Added(h.slot)
    /\ \A h \in known : NamedApp(h)
    /\ \A t \in Threads : op[t] = "dispatch" => Named(hdl[t])
    /\ \A t \in Threads : op[t] = "cancel" => NamedApp(hdl[t])
    /\ \A t \in Threads : pc[t] \in CheckedPCs => hdl[t].gen = gen[slot(t)]
    /\ \A t \in Threads : pc[t] \in {"publish", "claim", "post", "push"} => ~Owned(slot(t))
    /\ \A t \in Threads : pc[t] \in {"claim", "post", "push"} =>
          todo[t] \subseteq params[slot(t)].interest
    /\ \A t \in Threads : pc[t] \in {"post", "push"} =>
          side[t] \in params[slot(t)].interest
    /\ \A q \in Queues : pc[q] \notin {"idle", "finish", "leave_work", "end"} =>
          hdl[q].gen = gen[slot(q)]
    /\ \A q \in Queues, i \in Nat : Unfinished(q, i) =>
          /\ Added(queue[q][i].slot)
          /\ params[queue[q][i].slot].queues[queue[q][i].side] = q
    /\ \A s \in Slots : s \in closed /\ s \notin free => Added(s) /\ ~Owned(s)

(* A slot that is being opened.                                            *)
OpenOK ==
    /\ \A u \in Users : pc[u] \in {"store", "add"} =>
          slot(u) \notin free /\ slot(u) \notin closed /\ hdl[u].gen = gen[slot(u)]
    /\ \A u, v \in Users :
          pc[u] \in {"store", "add"} /\ pc[v] \in {"store", "add"}
             /\ slot(u) = slot(v) => u = v
    /\ \A u \in Users : pc[u] = "store" => refs[slot(u)] = 0
    /\ \A s \in free : refs[s] = 0

(* The references of an event: that of ntt_event_start, which whoever sets *)
(* CLOSED inherits, one per call that has resolved its handle, one per     *)
(* side task from its post to its release.                                 *)
CallPCs == CheckedPCs \cup {"check", "release"}
Started(s) == /\ s \notin free /\ s \notin closed
              /\ \A u \in Users : ~(pc[u] = "store" /\ slot(u) = s)
Closing(t) == pc[t] = "del" \/ (pc[t] = "release" /\ drops[t] = 2)
Calling(t) == op[t] # "side" /\ pc[t] \in CallPCs
Starts(s) == {x \in {s} : Started(x)}
Closers(s) == {t \in Threads : slot(t) = s /\ Closing(t)}
Callers(s) == {t \in Threads : slot(t) = s /\ Calling(t)}
Posters(s) == {t \in Threads : slot(t) = s /\ pc[t] = "push"}
Holding(q, i, s) == /\ i \in Pos(q)
                    /\ queue[q][i].kind = "side" /\ queue[q][i].slot = s
                    /\ ~(i = 1 /\ LeftEvent(q))
Tasks(s) == {x \in Queues \X Nat : Holding(x[1], x[2], s)}

RefsOK ==
    \A s \in Slots :
        /\ IsFiniteSet(Closers(s)) /\ IsFiniteSet(Callers(s))
        /\ IsFiniteSet(Posters(s)) /\ IsFiniteSet(Tasks(s))
        /\ refs[s] = Cardinality(Starts(s)) + Cardinality(Closers(s))
                       + Cardinality(Callers(s)) + Cardinality(Posters(s))
                       + Cardinality(Tasks(s))

(* The last reference is dropped once, and what remains of the event is    *)
(* one report at a time.                                                   *)
Telling(q, i, s) == /\ Unfinished(q, i)
                    /\ queue[q][i].kind = "cancelled" /\ queue[q][i].slot = s
Gone(s) == refs[s] = 0 /\ s \in closed /\ s \notin free

LastOK ==
    /\ \A t \in Threads : pc[t] = "report_last" => Gone(slot(t))
    /\ \A s \in Slots, q \in Queues, i \in Nat : Telling(q, i, s) => Gone(s)
    /\ \A t, u \in Threads : pc[t] = "report_last" /\ pc[u] = "report_last"
                             /\ slot(t) = slot(u) => t = u
    /\ \A t \in Threads, q \in Queues, i \in Nat :
          pc[t] = "report_last" => ~Telling(q, i, slot(t))
    /\ \A s \in Slots, q, p \in Queues, i, j \in Nat :
          Telling(q, i, s) /\ Telling(p, j, s) => q = p /\ i = j

(* The registration goes with the first cancel.                            *)
KernelOK ==
    /\ \A s \in Slots : Added(s) /\ s \notin closed => HandleOf(s) \in epoll
    /\ \A t \in Threads : pc[t] = "del" => hdl[t] \in epoll /\ slot(t) \in closed
    /\ \A t, u \in Threads : pc[t] = "del" /\ pc[u] = "del" /\ slot(t) = slot(u) => t = u
    /\ \A h \in epoll : h.slot \in closed =>
          \E t \in Threads : pc[t] = "del" /\ slot(t) = h.slot

(* BUSY stands for one server, and a notification is not forgotten.        *)
Posting(t, s, d) == t \in Dispatchers /\ pc[t] \in {"post", "push"}
                      /\ slot(t) = s /\ side[t] = d
Serving(q, i, s, d) == /\ i \in Pos(q) /\ queue[q][i] = Task("side", s, d)
                       /\ ~(i = 1 /\ LeftSide(q))
Delivering(t, s, d) == t \in Dispatchers /\ pc[t] \in {"claim", "post", "push"}
                         /\ slot(t) = s /\ d \in todo[t]
AboutToCall(q, i, s, d) == Serving(q, i, s, d) /\ (i # 1 \/ pc[q] \in {"idle", "call"})

BusyOK ==
    \A s \in Slots, d \in Sides :
        /\ \A t \in Threads : Posting(t, s, d) => d \in busy[s]
        /\ \A q \in Queues, i \in Nat : Serving(q, i, s, d) => d \in busy[s]
        /\ \A t, u \in Threads : Posting(t, s, d) /\ Posting(u, s, d) => t = u
        /\ \A t \in Threads, q \in Queues, i \in Nat :
              ~(Posting(t, s, d) /\ Serving(q, i, s, d))
        /\ \A q, p \in Queues, i, j \in Nat :
              Serving(q, i, s, d) /\ Serving(p, j, s, d) => q = p /\ i = j
        /\ s \notin free /\ d \in busy[s] =>
              \/ \E t \in Threads : Posting(t, s, d)
              \/ \E q \in Queues, i \in Nat : Serving(q, i, s, d)

OwedOK ==
    \A s \in Slots, d \in Sides : s \notin free /\ s \notin closed =>
        /\ d \in ready[s] =>
              d \in busy[s] \/ \E t \in Threads : Delivering(t, s, d)
        /\ d \in owed[s] =>
              \/ d \in ready[s]
              \/ \E t \in Threads : Posting(t, s, d)
              \/ \E q \in Queues, i \in Nat : AboutToCall(q, i, s, d)

(* What events hold of queues and of the work of the loop.                 *)
Uses1(q) == {x \in (Slots \ free) \X Sides : params[x[1]].queues[x[2]] = q}
Uses2(q) == {x \in Queues \X Sides : held[x[1]][x[2]] = q}
Working == {s \in Slots : s \notin free /\ ~Owned(s)
                            /\ \A u \in Users : ~(pc[u] = "store" /\ slot(u) = s)}
Finishing == {q \in Queues : pc[q] \in {"finish", "leave_work"}}

HeldOK ==
    /\ \A q \in Queues :
          /\ IsFiniteSet(Uses1(q)) /\ IsFiniteSet(Uses2(q))
          /\ qrefs[q] = Cardinality(Uses1(q)) + Cardinality(Uses2(q))
    /\ IsFiniteSet(Working) /\ IsFiniteSet(Finishing)
    /\ work = Cardinality(Working) + Cardinality(Finishing)
    /\ \A q \in Queues : pc[q] = "finish" => \E d \in Sides : held[q][d] # NoQueue

(* Who has been told.                                                      *)
ToldBefore(s, d) == IF d = FirstReport(s) THEN <<>> ELSE <<"writable">>
ToldOK ==
    /\ \A s \in Slots : s \notin free /\ refs[s] > 0 => reported[s] = <<>>
    /\ \A u \in Users : pc[u] = "store" => reported[slot(u)] = <<>>
    /\ \A t \in Threads : pc[t] = "report_last" => reported[slot(t)] = <<>>
    /\ \A s \in Slots, q \in Queues, i \in Nat : Telling(q, i, s) =>
          reported[s] = IF i = 1 /\ pc[q] = "give" THEN ReportOrder(s)
                        ELSE ToldBefore(s, queue[q][i].side)

Inv == /\ TypeOK /\ ControlOK /\ HeadOK /\ NamesOK /\ OpenOK /\ RefsOK
       /\ LastOK /\ KernelOK /\ BusyOK /\ OwedOK /\ HeldOK

-----------------------------------------------------------------------------
(* What the other threads see of a step: nothing of their own locals       *)
(* changes.                                                                *)
Still(u) == /\ pc'[u] = pc[u] /\ op'[u] = op[u] /\ hdl'[u] = hdl[u]
            /\ side'[u] = side[u] /\ todo'[u] = todo[u]
            /\ drops'[u] = drops[u] /\ held'[u] = held[u]

(* The step is one of thread t.                                            *)
StepOf(t) == \/ \E s \in Slots, p \in Params : t \in Users /\ OpenEvent(t, s, p)
             \/ \E h \in Handles : \E events \in SUBSET (Sides \cup {"hangup"}) :
                   t \in Dispatchers /\ Notify(t, h, events)
             \/ \E h \in Handles : Cancel(t, h)
             \/ Call(t)
             \/ t \in Users /\ Open(t)
             \/ t \in Dispatchers /\ Dispatch(t)
             \/ t \in Queues /\ Serve(t)

LEMMA NextIsAStep == Next => \E t \in Threads : StepOf(t)
  BY DEF Next, StepOf, Threads

LEMMA OthersStill ==
    ASSUME TypeOK, NEW t \in Threads, StepOf(t)
    PROVE  \A u \in Threads : u # t => Still(u)
<1> USE DEF TypeOK, Still, Go, thread_vars
<1>1. CASE \E s \in Slots, p \in Params : OpenEvent(t, s, p)
  BY <1>1 DEF OpenEvent
<1>2. CASE \E h \in Handles : \E events \in SUBSET (Sides \cup {"hangup"}) : Notify(t, h, events)
  BY <1>2 DEF Notify
<1>3. CASE \E h \in Handles : Cancel(t, h)
  BY <1>3 DEF Cancel
<1>4. CASE Call(t)
  BY <1>4 DEF Call, Resolve, CheckGeneration, Release, PostCancelled, Close, EpollDel, Wakeup, Returns
<1>5. CASE Open(t)
  BY <1>5 DEF Open, StoreRefs, EpollAdd
<1>6. CASE Dispatch(t)
  BY <1>6 DEF Dispatch, Publish, ClaimSide, Delivered, PostSide, PushSide, ServedHere
<1>7. CASE Serve(t)
  BY <1>7 DEF Serve, BeginTask, CallHandler, HandlerReturns, LeaveSide, ReportCancelled,
              GiveSlot, ReleaseHeld, FinishEvent, EndTask
<1> QED
  BY <1>1, <1>2, <1>3, <1>4, <1>5, <1>6, <1>7 DEF StepOf

-----------------------------------------------------------------------------
(* What ntt_event_finish still holds after one of its two releases.        *)
LEMMA ReleaseEffect ==
    ASSUME TypeOK, NEW t \in Queues, ReleaseHeld(t)
    PROVE  /\ pc[t] = "finish" /\ pc'[t] \in {"finish", "leave_work"}
           /\ held'[t] \in [Sides -> Queues \cup {NoQueue}]
           /\ FirstHeld(held[t]) \in Sides /\ held'[t][FirstHeld(held[t])] = NoQueue
           /\ \A e \in Sides : e # FirstHeld(held[t]) => held'[t][e] = held[t][e]
           /\ pc'[t] = "leave_work" => held'[t] = NoQueues
           /\ pc'[t] = "finish" => held'[t]["writable"] # NoQueue
<1> DEFINE d == FirstHeld(held[t])
<1>0. t \in Threads /\ d \in Sides /\ "writable" \in Sides
  BY DEF Threads, FirstHeld, Sides
<1>1. /\ pc[t] = "finish" /\ held' = [held EXCEPT ![t] = [@ EXCEPT ![d] = NoQueue]]
      /\ pc'[t] = IF d = "readable" /\ held[t]["writable"] # NoQueue
                  THEN "finish" ELSE "leave_work"
  BY <1>0 DEF ReleaseHeld, Go, TypeOK
<1>2. held \in [Threads -> [Sides -> Queues \cup {NoQueue}]]
  BY DEF TypeOK
<1>3. held'[t] = [held[t] EXCEPT ![d] = NoQueue]
  BY <1>0, <1>1, <1>2
<1>4. held[t] \in [Sides -> Queues \cup {NoQueue}]
  BY <1>0, <1>2
<1>5. /\ held'[t] \in [Sides -> Queues \cup {NoQueue}] /\ held'[t][d] = NoQueue
      /\ \A e \in Sides : e # d => held'[t][e] = held[t][e]
  BY <1>0, <1>3, <1>4
<1>6. ASSUME pc'[t] = "leave_work" PROVE held'[t] = NoQueues
  <2>1. \A e \in Sides : held'[t][e] = NoQueue
    BY <1>1, <1>5, <1>6 DEF FirstHeld, Sides
  <2> QED
    BY <1>5, <2>1 DEF NoQueues
<1>7. ASSUME pc'[t] = "finish" PROVE held'[t]["writable"] # NoQueue
  BY <1>0, <1>1, <1>5, <1>7
<1> QED
  BY <1>0, <1>1, <1>5, <1>6, <1>7

LEMMA ControlStep ==
    ASSUME TypeOK, ControlOK, NEW t \in Threads, StepOf(t)
    PROVE  ControlOK'
<1>1. \A u \in Threads : u # t => Still(u)
  BY OthersStill
<1>2. \A u \in Threads : u # t => ThreadOK(u)'
  BY <1>1 DEF ControlOK, ThreadOK, Still
<1>3. ThreadOK(t)
  BY DEF ControlOK
<1>4. ThreadOK(t)'
  <2> USE DEF TypeOK, ThreadOK, Go, thread_vars, UserPCs, DispatcherPCs, QueuePCs, Threads
  <2>1. CASE \E s \in Slots, p \in Params : t \in Users /\ OpenEvent(t, s, p)
    BY <1>3, <2>1, EventThreads DEF OpenEvent
  <2>2. CASE \E h \in Handles : \E events \in SUBSET (Sides \cup {"hangup"}) :
               t \in Dispatchers /\ Notify(t, h, events)
    BY <1>3, <2>2, EventThreads DEF Notify
  <2>3. CASE \E h \in Handles : Cancel(t, h)
    BY <1>3, <2>3, EventThreads DEF Cancel
  <2>4. CASE Call(t)
    <3>1. CASE Resolve(t)
      BY <1>3, <3>1, EventThreads DEF Resolve, Returns
    <3>2. CASE CheckGeneration(t)
      BY <1>3, <3>2, EventThreads DEF CheckGeneration, ghost_vars
    <3>3. CASE Release(t)
      BY <1>3, <3>3, EventThreads DEF Release, Returns
    <3>4. CASE PostCancelled(t)
      BY <1>3, <3>4, EventThreads DEF PostCancelled, Returns
    <3>5. CASE Close(t)
      BY <1>3, <3>5, EventThreads DEF Close
    <3>6. CASE EpollDel(t)
      BY <1>3, <3>6, EventThreads DEF EpollDel
    <3>7. CASE Wakeup(t)
      BY <1>3, <3>7, EventThreads DEF Wakeup, Returns
    <3> QED
      BY <2>4, <3>1, <3>2, <3>3, <3>4, <3>5, <3>6, <3>7 DEF Call
  <2>5. CASE t \in Users /\ Open(t)
    BY <1>3, <2>5, EventThreads DEF Open, StoreRefs, EpollAdd
  <2>6. CASE t \in Dispatchers /\ Dispatch(t)
    <3>1. CASE Publish(t)
      BY <1>3, <2>6, EventThreads, <3>1 DEF Publish
    <3>2. CASE ClaimSide(t)
      BY <1>3, <2>6, EventThreads, <3>2 DEF ClaimSide
    <3>3. CASE Delivered(t)
      BY <1>3, <2>6, EventThreads, <3>3 DEF Delivered
    <3>4. CASE PostSide(t)
      BY <1>3, <2>6, EventThreads, <3>4 DEF PostSide
    <3>5. CASE PushSide(t)
      BY <1>3, <2>6, EventThreads, <3>5 DEF PushSide
    <3>6. CASE ServedHere(t)
      BY <1>3, <2>6, EventThreads, <3>6 DEF ServedHere
    <3> QED
      BY <1>3, <2>6, EventThreads, <3>1, <3>2, <3>3, <3>4, <3>5, <3>6 DEF Dispatch
  <2>7. CASE t \in Queues /\ Serve(t)
    <3>1. CASE BeginTask(t)
      BY <1>3, <2>7, EventThreads, <3>1 DEF BeginTask
    <3>2. CASE CallHandler(t)
      BY <1>3, <2>7, EventThreads, <3>2 DEF CallHandler
    <3>3. CASE HandlerReturns(t)
      BY <1>3, <2>7, EventThreads, <3>3 DEF HandlerReturns
    <3>4. CASE LeaveSide(t)
      BY <1>3, <2>7, EventThreads, <3>4 DEF LeaveSide
    <3>5. CASE ReportCancelled(t)
      BY <1>3, <2>7, EventThreads, <3>5 DEF ReportCancelled
    <3>6. CASE GiveSlot(t)
      BY <1>3, <2>7, EventThreads, <3>6 DEF GiveSlot
    <3>7. CASE FinishEvent(t)
      BY <1>3, <2>7, EventThreads, <3>7 DEF FinishEvent
    <3>8. CASE EndTask(t)
      BY <1>3, <2>7, EventThreads, <3>8 DEF EndTask
    <3>9. CASE ReleaseHeld(t)
      BY <1>3, <2>7, EventThreads, <3>9, ReleaseEffect DEF ReleaseHeld
    <3> QED
      BY <1>3, <2>7, EventThreads, <3>1, <3>2, <3>3, <3>4, <3>5, <3>6, <3>7, <3>8, <3>9 DEF Serve
  <2> QED
    BY <2>1, <2>2, <2>3, <2>4, <2>5, <2>6, <2>7 DEF StepOf
<1> QED
  BY <1>2, <1>4 DEF ControlOK

-----------------------------------------------------------------------------
LEMMA SetIsEmpty ==
    ASSUME NEW S, IsFiniteSet(S)
    PROVE  Cardinality(S) \in Nat /\ (Cardinality(S) = 0 <=> S = {})
  BY FS_CardinalityType, FS_EmptySet

(* The count and its parts.                                                *)
LEMMA RefsParts ==
    ASSUME RefsOK, NEW s \in Slots
    PROVE  \E a, b, c, d, e \in Nat :
             /\ refs[s] = a + b + c + d + e
             /\ IF Started(s) THEN a = 1 ELSE a = 0
             /\ IsFiniteSet(Closers(s)) /\ b = Cardinality(Closers(s))
             /\ IsFiniteSet(Callers(s)) /\ c = Cardinality(Callers(s))
             /\ IsFiniteSet(Posters(s)) /\ d = Cardinality(Posters(s))
             /\ IsFiniteSet(Tasks(s)) /\ e = Cardinality(Tasks(s))
<1>1. /\ IsFiniteSet(Closers(s)) /\ IsFiniteSet(Callers(s))
      /\ IsFiniteSet(Posters(s)) /\ IsFiniteSet(Tasks(s))
      /\ refs[s] = Cardinality(Starts(s)) + Cardinality(Closers(s))
                       + Cardinality(Callers(s)) + Cardinality(Posters(s))
                       + Cardinality(Tasks(s))
  BY DEF RefsOK
<1>2. Cardinality(Starts(s)) = IF Started(s) THEN 1 ELSE 0
  <2>1. Starts(s) = IF Started(s) THEN {s} ELSE {}
    BY DEF Starts
  <2> QED
    BY <2>1, FS_Singleton, FS_EmptySet
<1> QED
  BY <1>1, <1>2, SetIsEmpty

(* An event without references is used by nobody.                          *)
LEMMA NoRefs ==
    ASSUME RefsOK, NEW s \in Slots, refs[s] = 0
    PROVE  /\ ~Started(s)
           /\ \A t \in Threads : slot(t) = s =>
                 ~Closing(t) /\ ~Calling(t) /\ pc[t] # "push"
           /\ \A q \in Queues, i \in Nat : ~Holding(q, i, s)
<1>1. ~Started(s) /\ Closers(s) = {} /\ Callers(s) = {} /\ Posters(s) = {} /\ Tasks(s) = {}
  BY RefsParts, SetIsEmpty
<1>2. \A t \in Threads : slot(t) = s => ~Closing(t) /\ ~Calling(t) /\ pc[t] # "push"
  BY <1>1 DEF Closers, Callers, Posters
<1>3. ASSUME NEW q \in Queues, NEW i \in Nat PROVE ~Holding(q, i, s)
  <2>1. <<q, i>> \notin Tasks(s)
    BY <1>1
  <2> QED
    BY <2>1 DEF Tasks
<1> QED
  BY <1>1, <1>2, <1>3

(* Whoever closes holds two references, and a task has one besides.        *)
LEMMA MoreRefs ==
    ASSUME RefsOK, NEW s \in Slots, NEW t \in Threads, slot(t) = s, Calling(t),
           \/ Closing(t)
           \/ \E q \in Queues, i \in Nat : Holding(q, i, s)
    PROVE  refs[s] >= 2
<1>1. Callers(s) # {}
  BY DEF Callers
<1>2. Closers(s) # {} \/ Tasks(s) # {}
  <2>1. CASE Closing(t)
    BY <2>1 DEF Closers
  <2>2. CASE \E q \in Queues, i \in Nat : Holding(q, i, s)
    <3>1. PICK q \in Queues, i \in Nat : Holding(q, i, s)
      BY <2>2
    <3>2. <<q, i>> \in Tasks(s)
      BY <3>1 DEF Tasks
    <3> QED
      BY <3>2
  <2> QED
    BY <2>1, <2>2
<1> QED
  BY <1>1, <1>2, RefsParts, SetIsEmpty

(* A queue that runs a side task holds a reference by it.                  *)
LEMMA HeadHolds ==
    ASSUME TypeOK, ControlOK, HeadOK, NEW q \in Queues,
           pc[q] \notin {"idle", "report", "give", "finish", "leave_work", "end"},
           pc[q] # "report_last" \/ op[q] # "side"
    PROVE  Holding(q, 1, slot(q))
  BY DEF HeadOK, Holding, LeftEvent

(* A thread at a release has a reference to release.                       *)
LEMMA ReleaserHolds ==
    ASSUME TypeOK, ControlOK, HeadOK, RefsOK, NEW t \in Threads, pc[t] = "release"
    PROVE  /\ slot(t) \in Slots /\ refs[slot(t)] > 0
           /\ drops[t] = 2 => refs[slot(t)] >= 2
<1>1. slot(t) \in Slots
  BY DEF TypeOK, Handles, slot
<1>2. refs[slot(t)] \in Nat
  BY <1>1 DEF TypeOK
<1>3. CASE op[t] # "side"
  <2>1. Calling(t)
    BY <1>3 DEF Calling, CallPCs
  <2> QED
    BY <1>1, <1>2, <2>1, NoRefs, MoreRefs DEF Closing
<1>4. CASE op[t] = "side"
  <2>1. t \in Queues /\ drops[t] # 2
    BY <1>4 DEF ControlOK, ThreadOK, Threads
  <2>2. Holding(t, 1, slot(t))
    BY <2>1, HeadHolds
  <2> QED
    BY <1>1, <1>2, <2>1, <2>2, NoRefs
<1> QED
  BY <1>3, <1>4

-----------------------------------------------------------------------------
(* Tasks are only added at the end of a queue, and only the task that has  *)
(* ended leaves it.                                                        *)
LEMMA AppendFacts ==
    ASSUME NEW s \in Seq(TaskSet), NEW k \in TaskSet
    PROVE  /\ Len(s) \in Nat /\ Append(s, k) \in Seq(TaskSet)
           /\ Len(Append(s, k)) = Len(s) + 1
           /\ \A i \in 1..Len(s) : Append(s, k)[i] = s[i]
           /\ Append(s, k)[Len(s) + 1] = k
  BY AppendProperties, LenProperties

LEMMA TailFacts ==
    ASSUME NEW s \in Seq(TaskSet), s # <<>>
    PROVE  /\ Len(s) \in Nat /\ Len(s) > 0 /\ Tail(s) \in Seq(TaskSet)
           /\ Len(Tail(s)) = Len(s) - 1
           /\ \A i \in 1..Len(Tail(s)) : Tail(s)[i] = s[i + 1]
           /\ Head(s) = s[1]
  BY HeadTailProperties, EmptySeq

Pushes(p, k) == /\ p \in Queues /\ k \in TaskSet
                /\ queue' = [queue EXCEPT ![p] = Append(@, k)]

LEMMA PushFacts ==
    ASSUME TypeOK, NEW p, NEW k, Pushes(p, k)
    PROVE  /\ queue' \in [Queues -> Seq(TaskSet)]
           /\ Len(queue[p]) \in Nat
           /\ \A q \in Queues : q # p => queue'[q] = queue[q]
           /\ Len(queue'[p]) = Len(queue[p]) + 1
           /\ \A q \in Queues, i \in Nat :
                 (i \in Pos(q))' <=> i \in Pos(q) \/ (q = p /\ i = Len(queue[p]) + 1)
           /\ \A q \in Queues : \A i \in Pos(q) : queue'[q][i] = queue[q][i]
           /\ queue'[p][Len(queue[p]) + 1] = k
<1>1. queue[p] \in Seq(TaskSet) /\ queue'[p] = Append(queue[p], k)
  BY DEF TypeOK, Pushes
<1>2. \A q \in Queues : q # p => queue'[q] = queue[q]
  BY DEF TypeOK, Pushes
<1>3. /\ Len(queue[p]) \in Nat /\ Append(queue[p], k) \in Seq(TaskSet)
      /\ Len(queue'[p]) = Len(queue[p]) + 1
      /\ \A i \in 1..Len(queue[p]) : queue'[p][i] = queue[p][i]
      /\ queue'[p][Len(queue[p]) + 1] = k
  BY <1>1, AppendFacts DEF Pushes
<1>4. queue' \in [Queues -> Seq(TaskSet)]
  BY <1>1, <1>3 DEF TypeOK, Pushes
<1>5. \A q \in Queues, i \in Nat :
         (i \in Pos(q))' <=> i \in Pos(q) \/ (q = p /\ i = Len(queue[p]) + 1)
  BY <1>2, <1>3 DEF Pos
<1> QED
  BY <1>2, <1>3, <1>4, <1>5 DEF Pos

LEMMA EndFacts ==
    ASSUME TypeOK, HeadOK, NEW q \in Queues, EndTask(q)
    PROVE  /\ queue' \in [Queues -> Seq(TaskSet)]
           /\ 1 \in Pos(q)
           /\ \A p \in Queues : p # q => queue'[p] = queue[p]
           /\ \A i \in Nat : i \in Pos(q)' <=> i \in Nat \ {0} /\ i + 1 \in Pos(q)
           /\ \A i \in Pos(q)' : queue'[q][i] = queue[q][i + 1]
<1>1. /\ queue[q] \in Seq(TaskSet) /\ queue' = [queue EXCEPT ![q] = Tail(@)]
      /\ 1 \in Pos(q)
  BY DEF TypeOK, EndTask, HeadOK
<1>2. queue[q] # <<>>
  BY <1>1, EmptySeq DEF Pos
<1>3. queue'[q] = Tail(queue[q]) /\ \A p \in Queues : p # q => queue'[p] = queue[p]
  BY <1>1 DEF TypeOK
<1>4. /\ Len(queue[q]) \in Nat /\ Len(queue[q]) > 0 /\ Tail(queue[q]) \in Seq(TaskSet)
      /\ Len(queue'[q]) = Len(queue[q]) - 1
      /\ \A i \in 1..Len(queue'[q]) : queue'[q][i] = queue[q][i + 1]
  BY <1>1, <1>2, <1>3, TailFacts
<1>5. queue' \in [Queues -> Seq(TaskSet)]
  BY <1>1, <1>4 DEF TypeOK
<1>6. \A i \in Nat : i \in Pos(q)' <=> i \in Nat \ {0} /\ i + 1 \in Pos(q)
  BY <1>4 DEF Pos
<1> QED
  BY <1>1, <1>3, <1>4, <1>5, <1>6 DEF Pos

-----------------------------------------------------------------------------
(* Sides of an event of the application have a queue.                      *)
LEMMA AppQueues ==
    ASSUME TypeOK, NEW s \in Slots, params[s] \in AcceptedOrOwn, ~Owned(s)
    PROVE  /\ params[s] \in Accepted
           /\ \A d \in Sides : params[s].queues[d] \in Queues \cup {NoQueue}
           /\ \A d \in params[s].interest : params[s].queues[d] \in Queues
           /\ params[s].interest # {} /\ params[s].interest \subseteq Sides
           /\ FirstReport(s) \in Sides /\ params[s].queues[FirstReport(s)] \in Queues
<1>1. params[s] \in Accepted
  BY DEF AcceptedOrOwn, Own, Owned
<1>2. /\ params[s].interest # {} /\ params[s].interest \subseteq Sides
      /\ params[s].queues \in [Sides -> Queues \cup {NoQueue}]
      /\ \A d \in params[s].interest : params[s].queues[d] # NoQueue
  BY <1>1 DEF Accepted
<1>3. \A d \in Sides : params[s].queues[d] \in Queues \cup {NoQueue}
  BY <1>2
<1>4. FirstReport(s) \in Sides /\ params[s].queues[FirstReport(s)] # NoQueue
  BY <1>2 DEF FirstReport, Sides
<1> QED
  BY <1>1, <1>2, <1>3, <1>4

LEMMA SlotOfThread ==
    ASSUME TypeOK, NEW t \in Threads
    PROVE  slot(t) \in Slots /\ hdl[t].gen \in 1..(MaxOpens + 1) /\ side[t] \in Sides
  BY DEF TypeOK, Handles, slot

LEMMA PushSidePushes ==
    ASSUME TypeOK, ControlOK, NamesOK, RefsOK, OpenOK, NEW t \in Dispatchers, PushSide(t)
    PROVE  Pushes(params[slot(t)].queues[side[t]], Task("side", slot(t), side[t]))
<1>1. t \in Threads /\ slot(t) \in Slots /\ side[t] \in Sides /\ pc[t] = "push"
  BY SlotOfThread DEF Threads, PushSide
<1>2. op[t] = "dispatch"
  BY <1>1 DEF ControlOK, ThreadOK
<1>3. slot(t) \notin free
  BY <1>1, <1>2, NoRefs DEF OpenOK, Calling, CallPCs, CheckedPCs
<1>4. params[slot(t)].queues[side[t]] \in Queues
  BY <1>1, <1>3, AppQueues DEF NamesOK
<1>5. Task("side", slot(t), side[t]) \in TaskSet
  BY <1>1 DEF Task, TaskSet
<1> QED
  BY <1>4, <1>5 DEF Pushes, PushSide

LEMMA PostCancelledPushes ==
    ASSUME TypeOK, NamesOK, LastOK, NEW t \in Threads, PostCancelled(t)
    PROVE  /\ FirstReport(slot(t)) \in Sides
           /\ Pushes(params[slot(t)].queues[FirstReport(slot(t))],
                     Task("cancelled", slot(t), FirstReport(slot(t))))
<1>1. slot(t) \in Slots /\ pc[t] = "report_last"
  BY SlotOfThread DEF PostCancelled
<1>2. slot(t) \in closed /\ slot(t) \notin free
  BY <1>1 DEF LastOK, Gone
<1>3. /\ FirstReport(slot(t)) \in Sides
      /\ params[slot(t)].queues[FirstReport(slot(t))] \in Queues
  BY <1>1, <1>2, AppQueues DEF NamesOK
<1>4. Task("cancelled", slot(t), FirstReport(slot(t))) \in TaskSet
  BY <1>1, <1>3 DEF Task, TaskSet
<1> QED
  BY <1>3, <1>4 DEF Pushes, PostCancelled

LEMMA ReportPushes ==
    ASSUME TypeOK, HeadOK, NamesOK, NEW q \in Queues, ReportCancelled(q)
    PROVE  IF side[q] = "writable" /\ params[slot(q)].queues["readable"] # NoQueue
           THEN /\ Pushes(params[slot(q)].queues["readable"],
                          Task("cancelled", slot(q), "readable"))
                /\ pc' = [pc EXCEPT ![q] = "end"]
           ELSE UNCHANGED queue /\ pc' = [pc EXCEPT ![q] = "give"]
<1>1. q \in Threads /\ slot(q) \in Slots /\ pc[q] = "report"
  BY SlotOfThread DEF ReportCancelled, Threads
<1>2. Unfinished(q, 1) /\ queue[q][1].slot = slot(q)
  BY <1>1 DEF HeadOK, Unfinished
<1>3. Added(slot(q)) /\ params[slot(q)].queues[queue[q][1].side] = q
  BY <1>2 DEF NamesOK
<1>4. slot(q) \notin free /\ params[slot(q)] \in AcceptedOrOwn
  BY <1>1, <1>3 DEF Added, NamesOK
<1>5. queue[q][1].side \in Sides
  <2>1. queue[q] \in Seq(TaskSet)
    BY DEF TypeOK
  <2>2. queue[q][1] \in TaskSet
    BY <1>2, <2>1, ElementOfSeq DEF Unfinished, Pos
  <2> QED
    BY <2>2 DEF TaskSet
<1>6. ~Owned(slot(q))
  BY <1>3, <1>5, EventThreads DEF Owned, NoQueues
<1>7. params[slot(q)].queues["readable"] \in Queues \cup {NoQueue}
  BY <1>1, <1>4, <1>6, AppQueues DEF Sides
<1>8. Task("cancelled", slot(q), "readable") \in TaskSet
  BY <1>1 DEF Task, TaskSet, Sides
<1> QED
  BY <1>7, <1>8 DEF Pushes, ReportCancelled, Go

(* Steps that leave the queues alone.                                      *)
Pushing(t) == \/ t \in Dispatchers /\ PushSide(t)
              \/ PostCancelled(t)
              \/ t \in Queues /\ ReportCancelled(t)

LEMMA QueuesStay ==
    ASSUME NEW t \in Threads, StepOf(t), ~Pushing(t), ~(t \in Queues /\ EndTask(t))
    PROVE  UNCHANGED queue
<1> USE DEF Pushing, queue_vars
<1>1. CASE \E s \in Slots, p \in Params : OpenEvent(t, s, p)
  BY <1>1 DEF OpenEvent
<1>2. CASE \E h \in Handles : \E events \in SUBSET (Sides \cup {"hangup"}) : Notify(t, h, events)
  BY <1>2 DEF Notify
<1>3. CASE \E h \in Handles : Cancel(t, h)
  BY <1>3 DEF Cancel
<1>4. CASE Call(t)
  BY <1>4 DEF Call, Resolve, CheckGeneration, Release, Close, EpollDel, Wakeup
<1>5. CASE t \in Users /\ Open(t)
  BY <1>5 DEF Open, StoreRefs, EpollAdd
<1>6. CASE t \in Dispatchers /\ Dispatch(t)
  BY <1>6 DEF Dispatch, Publish, ClaimSide, Delivered, PostSide, ServedHere
<1>7. CASE t \in Queues /\ Serve(t)
  BY <1>7 DEF Serve, BeginTask, CallHandler, HandlerReturns, LeaveSide, GiveSlot, ReleaseHeld, FinishEvent
<1> QED
  BY <1>1, <1>2, <1>3, <1>4, <1>5, <1>6, <1>7 DEF StepOf

LEMMA QueueSteps ==
    ASSUME Inv, NEW t \in Threads, StepOf(t)
    PROVE  \/ UNCHANGED queue
           \/ \E p, k : Pushes(p, k) /\ Pushing(t)
           \/ t \in Queues /\ EndTask(t)
<1>1. CASE t \in Dispatchers /\ PushSide(t)
  BY <1>1, PushSidePushes DEF Inv, Pushing
<1>2. CASE PostCancelled(t)
  BY <1>2, PostCancelledPushes DEF Inv, Pushing
<1>3. CASE t \in Queues /\ ReportCancelled(t)
  BY <1>3, ReportPushes DEF Inv, Pushing
<1> QED
  BY <1>1, <1>2, <1>3, QueuesStay DEF Pushing

LEMMA TasksTyped ==
    ASSUME TypeOK, NEW q \in Queues, NEW i \in Pos(q)
    PROVE  /\ queue[q][i] \in TaskSet
           /\ queue[q][i].kind \in {"side", "cancelled"}
           /\ queue[q][i].slot \in Slots /\ queue[q][i].side \in Sides
           /\ queue[q][i] = Task(queue[q][i].kind, queue[q][i].slot, queue[q][i].side)
<1>1. queue[q] \in Seq(TaskSet)
  BY DEF TypeOK
<1>2. queue[q][i] \in TaskSet
  BY <1>1, ElementOfSeq DEF Pos
<1> QED
  BY <1>2 DEF TaskSet, Task

(* The head of a queue stays until its task has ended.                     *)
LEMMA HeadStays ==
    ASSUME Inv, NEW t \in Threads, StepOf(t), NEW q \in Queues, 1 \in Pos(q),
           ~(q = t /\ EndTask(t))
    PROVE  1 \in Pos(q)' /\ queue'[q][1] = queue[q][1]
<1>1. CASE UNCHANGED queue
  BY <1>1 DEF Pos
<1>2. CASE \E p, k : Pushes(p, k)
  BY <1>2, PushFacts DEF Inv
<1>3. CASE t \in Queues /\ EndTask(t)
  BY <1>3, EndFacts DEF Inv, Pos
<1> QED
  BY <1>1, <1>2, <1>3, QueueSteps

LEMMA HeadStep ==
    ASSUME Inv, NEW t \in Threads, StepOf(t)
    PROVE  HeadOK'
<1> SUFFICES ASSUME NEW q \in Queues, pc'[q] # "idle"
             PROVE  /\ 1 \in Pos(q)'
                    /\ queue'[q][1].slot = slot(q)' /\ queue'[q][1].side = side'[q]
                    /\ pc'[q] \in {"report", "give", "finish", "leave_work"} => queue'[q][1].kind = "cancelled"
                    /\ pc'[q] \notin {"report", "give", "finish", "leave_work", "end"} =>
                          queue'[q][1].kind = "side"
  BY DEF HeadOK
<1>0. TypeOK /\ ControlOK /\ HeadOK /\ q \in Threads
  BY DEF Inv, Threads
<1>1. CASE q # t
  <2>1. Still(q)
    BY <1>0, <1>1, OthersStill
  <2> QED
    BY <1>0, <1>1, <2>1, HeadStays DEF HeadOK, Still, slot
<1>2. CASE q = t /\ pc[q] = "idle"
  <2>1. BeginTask(q)
    BY <1>0, <1>2, EventThreads DEF StepOf, OpenEvent, Notify, Cancel, Call, Resolve, CheckGeneration,
       Release, PostCancelled, Close, EpollDel, Wakeup, Serve, CallHandler, HandlerReturns,
       LeaveSide, ReportCancelled, GiveSlot, ReleaseHeld, FinishEvent, EndTask
  <2>2. queue[q] \in Seq(TaskSet) /\ queue[q] # <<>> /\ queue' = queue
    BY <1>0, <2>1 DEF TypeOK, BeginTask, queue_vars
  <2>3. 1 \in Pos(q) /\ Head(queue[q]) = queue[q][1]
    BY <2>2, TailFacts DEF Pos
  <2>4. queue[q][1] \in TaskSet
    BY <1>0, <2>3, TasksTyped
  <2>5. /\ hdl'[q] = HandleOf(queue[q][1].slot) /\ side'[q] = queue[q][1].side
        /\ pc'[q] = IF queue[q][1].kind = "side" THEN "call" ELSE "report"
    BY <1>0, <2>1, <2>3 DEF BeginTask, TypeOK, Go
  <2> QED
    BY <2>2, <2>3, <2>4, <2>5 DEF Pos, HandleOf, slot, TaskSet
<1>3. CASE q = t /\ pc[q] # "idle"
  <2>1. 1 \in Pos(q) /\ queue[q][1].slot = slot(q) /\ queue[q][1].side = side[q]
        /\ (pc[q] \in {"report", "give", "finish", "leave_work"} => queue[q][1].kind = "cancelled")
        /\ (pc[q] \notin {"report", "give", "finish", "leave_work", "end"} => queue[q][1].kind = "side")
    BY <1>0, <1>3 DEF HeadOK
  <2>2. ~EndTask(t)
    BY <1>0, <1>3 DEF EndTask, Go, TypeOK
  <2>3. 1 \in Pos(q)' /\ queue'[q][1] = queue[q][1]
    BY <1>3, <2>1, <2>2, HeadStays
  <2>4. hdl'[q] = hdl[q] /\ side'[q] = side[q]
    <3> USE DEF TypeOK, thread_vars
    <3>1. CASE \E h \in Handles : Cancel(t, h)
      BY <1>0, <1>3, <3>1, EventThreads DEF Cancel
    <3>2. CASE Call(t)
      BY <1>0, <1>3, <3>2, EventThreads DEF Call, Resolve, CheckGeneration, Release, PostCancelled, Close, EpollDel, Wakeup, Returns
    <3>3. CASE Serve(t)
      BY <1>0, <1>3, <2>2, <3>3 DEF Serve, BeginTask, CallHandler, HandlerReturns, LeaveSide,
         ReportCancelled, GiveSlot, ReleaseHeld, FinishEvent
    <3> QED
      BY <1>3, <3>1, <3>2, <3>3, EventThreads DEF StepOf
  <2>5. /\ pc'[q] \in {"report", "give", "finish", "leave_work"} => pc[q] \in {"report", "give", "finish", "leave_work"}
        /\ pc'[q] \notin {"report", "give", "finish", "leave_work", "end"} =>
              pc[q] \notin {"report", "give", "finish", "leave_work", "end"}
    <3>0. ThreadOK(q)
      BY <1>0 DEF ControlOK
    <3> USE DEF TypeOK, Go
    <3>1. CASE \E h \in Handles : Cancel(t, h)
      BY <1>0, <1>3, <3>1, EventThreads DEF Cancel
    <3>2. CASE Call(t)
      BY <1>0, <3>0, <1>3, <3>2, EventThreads DEF Call, Resolve, CheckGeneration, Release, PostCancelled, Close, EpollDel, Wakeup, Returns, ThreadOK, QueuePCs
    <3>3. CASE Serve(t)
      BY <1>0, <1>3, <2>2, <3>3 DEF Serve, BeginTask, CallHandler, HandlerReturns, LeaveSide,
         ReportCancelled, GiveSlot, ReleaseHeld, FinishEvent
    <3> QED
      BY <1>3, <3>1, <3>2, <3>3, EventThreads DEF StepOf
  <2> QED
    BY <2>1, <2>3, <2>4, <2>5 DEF slot
<1> QED
  BY <1>1, <1>2, <1>3

-----------------------------------------------------------------------------
Opens(t, s) == t \in Users /\ \E p \in Params : OpenEvent(t, s, p)
Gives(t, s) == t \in Queues /\ GiveSlot(t) /\ slot(t) = s

LEMMA SlotSteps ==
    ASSUME Inv, NEW t \in Threads, StepOf(t)
    PROVE  \/ \E s \in Slots : Opens(t, s)
           \/ \E s \in Slots : Gives(t, s)
           \/ UNCHANGED <<gen, free, params, opens>>
<1> USE DEF slot_vars, ghost_vars
<1>1. CASE \E s \in Slots, p \in Params : t \in Users /\ OpenEvent(t, s, p)
  BY <1>1 DEF Opens
<1>2. CASE \E h \in Handles : \E events \in SUBSET (Sides \cup {"hangup"}) : Notify(t, h, events)
  BY <1>2 DEF Notify
<1>3. CASE \E h \in Handles : Cancel(t, h)
  BY <1>3 DEF Cancel
<1>4. CASE Call(t)
  BY <1>4 DEF Call, Resolve, CheckGeneration, Release, PostCancelled, Close, EpollDel, Wakeup
<1>5. CASE t \in Users /\ Open(t)
  BY <1>5 DEF Open, StoreRefs, EpollAdd
<1>6. CASE t \in Dispatchers /\ Dispatch(t)
  BY <1>6 DEF Dispatch, Publish, ClaimSide, Delivered, PostSide, PushSide, ServedHere
<1>7. CASE t \in Queues /\ Serve(t)
  <2>1. CASE GiveSlot(t)
    BY <1>7, <2>1, SlotOfThread DEF Gives, Inv
  <2>2. CASE ~GiveSlot(t)
    BY <1>7, <2>2 DEF Serve, BeginTask, CallHandler, HandlerReturns, LeaveSide, ReportCancelled, ReleaseHeld, FinishEvent, EndTask
  <2> QED
    BY <2>1, <2>2
<1> QED
  BY <1>1, <1>2, <1>3, <1>4, <1>5, <1>6, <1>7 DEF StepOf

LEMMA OpensEffect ==
    ASSUME TypeOK, NEW t \in Users, NEW s \in Slots, Opens(t, s)
    PROVE  /\ pc[t] = "idle" /\ s \in free /\ free' = free \ {s}
           /\ UNCHANGED <<gen, refs, epoll, queue, work, known>>
           /\ opens' = opens + 1 /\ opens < MaxOpens
           /\ params'[s] \in Params /\ \A r \in Slots : r # s => params'[r] = params[r]
           /\ closed' = closed \ {s}
           /\ hdl'[t] = HandleOf(s) /\ pc'[t] = "store" /\ op'[t] = op[t]
           /\ ready'[s] = {} /\ \A r \in Slots : r # s => ready'[r] = ready[r]
           /\ busy'[s] = {} /\ \A r \in Slots : r # s => busy'[r] = busy[r]
           /\ owed'[s] = {} /\ \A r \in Slots : r # s => owed'[r] = owed[r]
           /\ reported'[s] = <<>> /\ \A r \in Slots : r # s => reported'[r] = reported[r]
           /\ side'[t] = side[t] /\ held'[t] = held[t]
  BY DEF Opens, OpenEvent, TypeOK, Go, kernel_vars, Threads

LEMMA GivesEffect ==
    ASSUME TypeOK, NEW t \in Queues, NEW s \in Slots, Gives(t, s)
    PROVE  /\ pc[t] = "give" /\ pc'[t] = "finish" /\ slot(t) = s
           /\ gen'[s] = gen[s] + 1 /\ \A r \in Slots : r # s => gen'[r] = gen[r]
           /\ free' = free \cup {s}
           /\ UNCHANGED <<params, refs, ready, busy, closed, epoll, notes, queue, qrefs, work>>
           /\ UNCHANGED <<op, hdl, side, todo, drops, known, cancelled, owed, reported, opens>>
           /\ held'[t] = params[s].queues
  BY DEF Gives, GiveSlot, Retired, TypeOK, Go, Threads, state_vars, kernel_vars, queue_vars, ghost_vars

(* Nobody is left when the slot of an event is given back.                 *)
LEMMA NobodyLeft ==
    ASSUME Inv, NEW t \in Queues, NEW s \in Slots, Gives(t, s)
    PROVE  /\ Telling(t, 1, s) /\ Gone(s) /\ Added(s)
           /\ \A u \in Threads : slot(u) = s => ~Closing(u) /\ ~Calling(u) /\ pc[u] # "report_last"
           /\ \A q \in Queues, i \in Nat :
                 Unfinished(q, i) /\ queue[q][i].slot = s => q = t /\ i = 1
           /\ \A q \in Queues : slot(q) = s /\ q # t => pc[q] \in {"idle", "finish", "leave_work", "end"}
<1>0. TypeOK /\ ControlOK /\ HeadOK /\ NamesOK /\ RefsOK /\ LastOK
  BY DEF Inv
<1>1. pc[t] = "give" /\ slot(t) = s
  BY <1>0, GivesEffect
<1>2. Telling(t, 1, s)
  BY <1>0, <1>1 DEF HeadOK, Telling, Unfinished
<1>3. Gone(s) /\ Added(s)
  BY <1>0, <1>2 DEF LastOK, Telling, NamesOK
<1>4. /\ \A u \in Threads : slot(u) = s => ~Closing(u) /\ ~Calling(u) /\ pc[u] # "push"
      /\ \A q \in Queues, i \in Nat : ~Holding(q, i, s)
  BY <1>0, <1>3, NoRefs DEF Gone
<1>5. \A u \in Threads : slot(u) = s => pc[u] # "report_last"
  BY <1>0, <1>2 DEF LastOK
<1>6. ASSUME NEW q \in Queues, NEW i \in Nat, Unfinished(q, i), queue[q][i].slot = s
      PROVE  q = t /\ i = 1
  <2>1. CASE queue[q][i].kind = "cancelled"
    <3>1. Telling(q, i, s)
      BY <1>6, <2>1 DEF Telling
    <3> QED
      BY <1>0, <1>2, <3>1 DEF LastOK
  <2>2. CASE queue[q][i].kind = "side"
    <3>1. i = 1 /\ LeftEvent(q)
      BY <1>4, <1>6, <2>2 DEF Holding, Unfinished
    <3>2. pc[q] = "report_last" /\ slot(q) = s
      BY <1>0, <1>6, <3>1 DEF LeftEvent, Unfinished, HeadOK
    <3> QED
      BY <1>5, <3>2 DEF Threads
  <2> QED
    BY <1>0, <1>6, <2>1, <2>2, TasksTyped DEF Unfinished
<1>7. ASSUME NEW q \in Queues, slot(q) = s, q # t PROVE pc[q] \in {"idle", "finish", "leave_work", "end"}
  <2>1. SUFFICES ASSUME pc[q] \notin {"idle", "finish", "leave_work", "end"} PROVE FALSE
    OBVIOUS
  <2>2. Unfinished(q, 1) /\ queue[q][1].slot = s
    BY <1>0, <1>7, <2>1 DEF HeadOK, Unfinished
  <2> QED
    BY <1>6, <1>7, <2>2
<1> QED
  BY <1>2, <1>3, <1>4, <1>5, <1>6, <1>7

(* An event that is there stays, with its fields, until its slot is given  *)
(* back.                                                                   *)
LEMMA AddedKept ==
    ASSUME Inv, NEW t \in Threads, StepOf(t), NEW s \in Slots, s \notin free, ~Gives(t, s)
    PROVE  /\ s \notin free' /\ gen'[s] = gen[s] /\ params'[s] = params[s]
           /\ Added(s) => Added(s)'
           /\ Owned(s)' <=> Owned(s)
<1>0. TypeOK
  BY DEF Inv
<1>1. s \notin free' /\ gen'[s] = gen[s] /\ params'[s] = params[s]
  <2>1. CASE \E r \in Slots : Opens(t, r)
    BY <1>0, <2>1, OpensEffect DEF Opens
  <2>2. CASE \E r \in Slots : Gives(t, r)
    BY <1>0, <2>2, GivesEffect DEF Gives
  <2> QED
    BY <2>1, <2>2, SlotSteps
<1>2. ASSUME Added(s) PROVE Added(s)'
  <2>1. SUFFICES ASSUME NEW u \in Users, pc'[u] \in {"store", "add"}, hdl'[u].slot = s
                 PROVE  FALSE
    BY <1>1 DEF Added, Opening, slot
  <2>2. u \in Threads
    BY DEF Threads
  <2>3. CASE u # t
    BY <1>0, <1>2, <2>1, <2>2, <2>3, OthersStill DEF Still, Added, Opening, slot
  <2>4. CASE u = t
    <3>1. CASE \E r \in Slots, p \in Params : OpenEvent(t, r, p)
      <4>1. PICK r \in Slots : Opens(t, r)
        BY <2>4, <3>1 DEF Opens
      <4>2. hdl'[t] = HandleOf(r) /\ r \in free
        BY <1>0, <2>4, <4>1, OpensEffect
      <4> QED
        BY <1>2, <2>1, <2>4, <4>2 DEF HandleOf, Added
    <3>2. CASE Open(t)
      BY <1>0, <1>2, <2>1, <2>2, <2>4, <3>2 DEF Open, StoreRefs, EpollAdd, TypeOK, Go, Added, Opening, slot
    <3>3. CASE \E h \in Handles : \E events \in SUBSET (Sides \cup {"hangup"}) : Notify(t, h, events)
      BY <1>0, <2>1, <2>2, <2>4, <3>3 DEF Notify, TypeOK, Go
    <3>4. CASE \E h \in Handles : Cancel(t, h)
      BY <1>0, <2>1, <2>2, <2>4, <3>4 DEF Cancel, TypeOK, Go
    <3>5. CASE Call(t)
      BY <1>0, <2>1, <2>2, <2>4, <3>5, EventThreads DEF TypeOK, Go, Call, Resolve, CheckGeneration,
         Release, PostCancelled, Close, EpollDel, Wakeup, Returns
    <3> QED
      BY <2>1, <2>4, <3>1, <3>2, <3>3, <3>4, <3>5, EventThreads DEF StepOf
  <2> QED
    BY <2>3, <2>4
<1> QED
  BY <1>1, <1>2 DEF Owned

LEMMA GenGrows ==
    ASSUME Inv, NEW t \in Threads, StepOf(t), NEW s \in Slots
    PROVE  gen'[s] >= gen[s] /\ gen[s] \in Nat /\ gen'[s] \in Nat
<1>0. TypeOK /\ gen[s] \in Nat
  BY DEF Inv, TypeOK
<1>1. CASE \E r \in Slots : Opens(t, r)
  BY <1>0, <1>1, OpensEffect DEF Opens
<1>2. CASE \E r \in Slots : Gives(t, r)
  BY <1>0, <1>2, GivesEffect DEF Gives
<1> QED
  BY <1>0, <1>1, <1>2, SlotSteps

(* A registered event has references: that of its start, or those of the  *)
(* call that is about to take it out.                                      *)
LEMMA EpollLive ==
    ASSUME Inv, NEW h \in epoll
    PROVE  h.slot \in Slots /\ refs[h.slot] > 0
<1>0. TypeOK /\ NamesOK /\ RefsOK /\ KernelOK
  BY DEF Inv
<1>1. h.slot \in Slots /\ refs[h.slot] \in Nat
  BY <1>0 DEF TypeOK, Handles
<1>2. Added(h.slot)
  BY <1>0 DEF NamesOK
<1>3. CASE h.slot \notin closed
  <2>1. Started(h.slot)
    BY <1>2, <1>3 DEF Added, Opening, Started
  <2> QED
    BY <1>0, <1>1, <2>1, NoRefs
<1>4. CASE h.slot \in closed
  <2>1. PICK t \in Threads : pc[t] = "del" /\ slot(t) = h.slot
    BY <1>0, <1>4 DEF KernelOK
  <2> QED
    BY <1>0, <1>1, <2>1, NoRefs DEF Closing
<1> QED
  BY <1>3, <1>4

(* Whoever has a reference to the event works on a slot that is not free   *)
(* and not opened meanwhile.                                               *)
LEMMA CallerKeeps ==
    ASSUME Inv, NEW t \in Threads, StepOf(t), NEW u \in Threads,
           Calling(u) \/ (u \in Queues /\ pc[u] \notin {"idle", "finish", "leave_work", "end"}),
           u # t
    PROVE  /\ slot(u) \in Slots /\ slot(u) \notin free /\ ~Gives(t, slot(u))
           /\ slot(u)' = slot(u) /\ gen'[slot(u)] = gen[slot(u)]
           /\ params'[slot(u)] = params[slot(u)]
<1>0. TypeOK /\ HeadOK /\ NamesOK /\ OpenOK /\ RefsOK
  BY DEF Inv
<1>1. slot(u) \in Slots /\ Still(u)
  BY <1>0, SlotOfThread, OthersStill
<1>2. slot(u) \notin free
  <2>1. CASE Calling(u)
    BY <1>0, <1>1, <2>1, NoRefs DEF OpenOK
  <2>2. CASE u \in Queues /\ pc[u] \notin {"idle", "finish", "leave_work", "end"}
    <3>1. Unfinished(u, 1) /\ queue[u][1].slot = slot(u)
      BY <1>0, <2>2 DEF HeadOK, Unfinished
    <3> QED
      BY <1>0, <2>2, <3>1 DEF NamesOK, Added
  <2> QED
    BY <2>1, <2>2
<1>3. ~Gives(t, slot(u))
  <2>1. SUFFICES ASSUME Gives(t, slot(u)) PROVE FALSE
    OBVIOUS
  <2>2. t \in Queues
    BY <2>1 DEF Gives
  <2> QED
    BY <1>1, <2>1, <2>2, NobodyLeft
<1>4. gen'[slot(u)] = gen[slot(u)] /\ params'[slot(u)] = params[slot(u)]
  BY <1>1, <1>2, <1>3, AddedKept
<1> QED
  BY <1>1, <1>2, <1>3, <1>4 DEF Still, slot

(* A thread that moves within a call keeps what its handle names.          *)
LEMMA SelfKeeps ==
    ASSUME Inv, NEW t \in Threads, StepOf(t), pc[t] \notin {"idle", "give"}
    PROVE  \A s \in Slots : gen'[s] = gen[s] /\ params'[s] = params[s] /\ (s \in free <=> s \in free')
<1>0. TypeOK
  BY DEF Inv
<1>1. ~\E s \in Slots : Opens(t, s)
  BY <1>0, OpensEffect DEF Opens
<1>2. ~\E s \in Slots : Gives(t, s)
  BY <1>0, GivesEffect DEF Gives
<1> QED
  BY <1>1, <1>2, SlotSteps

LEMMA GenBounds ==
    ASSUME Inv, NEW t \in Threads, StepOf(t)
    PROVE  /\ \A s \in Slots : gen'[s] + (IF s \in free' THEN 0 ELSE 1) <= opens' + 1
           /\ \A s \in Slots : s \notin free' => params'[s] \in AcceptedOrOwn
           /\ opens' \in 0..MaxOpens
           /\ gen' \in [Slots -> 1..(MaxOpens + 1)]
<1>0. /\ TypeOK /\ opens \in 0..MaxOpens
      /\ \A s \in Slots : gen[s] + (IF s \in free THEN 0 ELSE 1) <= opens + 1
      /\ \A s \in Slots : s \notin free => params[s] \in AcceptedOrOwn
      /\ gen \in [Slots -> 1..(MaxOpens + 1)]
  BY DEF Inv, TypeOK, NamesOK
<1>1. CASE \E s \in Slots : Opens(t, s)
  <2>1. PICK s \in Slots : Opens(t, s)
    BY <1>1
  <2>2. /\ s \in free /\ free' = free \ {s} /\ gen' = gen /\ opens' = opens + 1 /\ opens < MaxOpens
        /\ params'[s] \in Params /\ \A r \in Slots : r # s => params'[r] = params[r]
    BY <1>0, <2>1, OpensEffect DEF Opens
  <2> QED
    BY <1>0, <2>2, EventBounds, EventParams
<1>2. CASE \E s \in Slots : Gives(t, s)
  <2>1. PICK s \in Slots : Gives(t, s)
    BY <1>2
  <2>2. /\ gen'[s] = gen[s] + 1 /\ \A r \in Slots : r # s => gen'[r] = gen[r]
        /\ free' = free \cup {s} /\ params' = params /\ opens' = opens /\ s \notin free
        /\ gen' = [gen EXCEPT ![s] = @ + 1]
    BY <1>0, <2>1, GivesEffect, NobodyLeft DEF Gives, Gone, GiveSlot, Retired
  <2>3. \A r \in Slots : gen'[r] + (IF r \in free' THEN 0 ELSE 1) <= opens + 1
    BY <1>0, <2>2
  <2>4. gen' \in [Slots -> 1..(MaxOpens + 1)]
    BY <1>0, <2>2, <2>3, EventBounds
  <2> QED
    BY <1>0, <2>2, <2>3, <2>4
<1>3. CASE UNCHANGED <<gen, free, params, opens>>
  BY <1>0, <1>3
<1> QED
  BY <1>1, <1>2, <1>3, SlotSteps

-----------------------------------------------------------------------------
(* A count that is zero stays so until the next event in the slot.         *)
LEMMA RefsSteps ==
    ASSUME Inv, NEW t \in Threads, StepOf(t)
    PROVE  \/ UNCHANGED refs
           \/ t \in Users /\ StoreRefs(t)
           \/ Resolve(t) /\ refs[slot(t)] > 0 /\ refs' = [refs EXCEPT ![slot(t)] = @ + 1]
           \/ t \in Dispatchers /\ PostSide(t) /\ refs[slot(t)] > 0
                 /\ refs' = [refs EXCEPT ![slot(t)] = @ + 1]
           \/ Release(t) /\ refs[slot(t)] > 0 /\ refs' = [refs EXCEPT ![slot(t)] = @ - 1]
<1>0. TypeOK /\ ControlOK /\ HeadOK /\ RefsOK /\ slot(t) \in Slots /\ refs[slot(t)] \in Nat
  BY SlotOfThread DEF Inv, TypeOK
<1>1. CASE \E s \in Slots, p \in Params : t \in Users /\ OpenEvent(t, s, p)
  BY <1>1 DEF OpenEvent
<1>2. CASE \E h \in Handles : \E events \in SUBSET (Sides \cup {"hangup"}) : Notify(t, h, events)
  BY <1>2 DEF Notify
<1>3. CASE \E h \in Handles : Cancel(t, h)
  BY <1>3 DEF Cancel
<1>4. CASE Call(t)
  <2>1. CASE Resolve(t)
    BY <1>0, <2>1 DEF Resolve
  <2>2. CASE Release(t)
    BY <1>0, <2>2, ReleaserHolds DEF Release
  <2> QED
    BY <1>4, <2>1, <2>2 DEF Call, CheckGeneration, PostCancelled, Close, EpollDel, Wakeup
<1>5. CASE t \in Users /\ Open(t)
  BY <1>5 DEF Open, EpollAdd
<1>6. CASE t \in Dispatchers /\ Dispatch(t)
  <2>1. CASE PostSide(t)
    <3>1. pc[t] = "post" /\ op[t] = "dispatch"
      BY <1>0, <1>6, <2>1 DEF PostSide, ControlOK, ThreadOK
    <3>2. Calling(t)
      BY <3>1 DEF Calling, CallPCs, CheckedPCs
    <3> QED
      BY <1>0, <1>6, <2>1, <3>2, NoRefs DEF PostSide, PostedRefs
  <2> QED
    BY <1>6, <2>1 DEF Dispatch, Publish, ClaimSide, Delivered, PushSide, ServedHere
<1>7. CASE t \in Queues /\ Serve(t)
  BY <1>7 DEF Serve, BeginTask, CallHandler, HandlerReturns, LeaveSide, ReportCancelled, GiveSlot, ReleaseHeld, FinishEvent, EndTask
<1> QED
  BY <1>1, <1>2, <1>3, <1>4, <1>5, <1>6, <1>7 DEF StepOf

LEMMA ZeroStays ==
    ASSUME Inv, NEW t \in Threads, StepOf(t), NEW s \in Slots, refs[s] = 0,
           ~(t \in Users /\ StoreRefs(t) /\ slot(t) = s)
    PROVE  refs'[s] = 0
<1>0. TypeOK /\ slot(t) \in Slots
  BY SlotOfThread DEF Inv
<1>1. CASE t \in Users /\ StoreRefs(t)
  BY <1>0, <1>1 DEF StoreRefs, TypeOK
<1>2. CASE /\ refs[slot(t)] > 0
           /\ \/ refs' = [refs EXCEPT ![slot(t)] = @ + 1]
              \/ refs' = [refs EXCEPT ![slot(t)] = @ - 1]
  BY <1>0, <1>2 DEF TypeOK
<1> QED
  BY <1>1, <1>2, RefsSteps

LEMMA OpenStep ==
    ASSUME Inv, NEW t \in Threads, StepOf(t)
    PROVE  OpenOK'
<1>0. TypeOK /\ ControlOK /\ OpenOK /\ NamesOK /\ LastOK /\ Users \subseteq Threads
  BY DEF Inv, Threads
<1>1. CASE \E s \in Slots : Opens(t, s)
  <2>1. PICK s \in Slots : Opens(t, s)
    BY <1>1
  <2>2. t \in Users /\ \A u \in Users : u # t => Still(u)
    BY <1>0, <2>1, OthersStill DEF Opens
  <2>3. /\ pc[t] = "idle" /\ s \in free /\ free' = free \ {s} /\ gen' = gen /\ refs' = refs
        /\ closed' = closed \ {s} /\ hdl'[t] = HandleOf(s) /\ pc'[t] = "store"
    BY <1>0, <2>1, <2>2, OpensEffect
  <2>4. slot(t)' = s /\ hdl'[t].gen = gen[s]
    BY <2>3 DEF HandleOf, slot
  <2> QED
    BY <1>0, <2>2, <2>3, <2>4 DEF OpenOK, Still, slot
<1>2. CASE \E s \in Slots : Gives(t, s)
  <2>1. PICK s \in Slots : Gives(t, s)
    BY <1>2
  <2>2. t \in Queues /\ t \notin Users /\ \A u \in Users : Still(u)
    BY <1>0, <2>1, OthersStill, EventThreads DEF Gives
  <2>3. /\ gen'[s] = gen[s] + 1 /\ \A r \in Slots : r # s => gen'[r] = gen[r]
        /\ free' = free \cup {s} /\ closed' = closed /\ refs' = refs
    BY <1>0, <2>1, <2>2, GivesEffect
  <2>4. Added(s) /\ refs[s] = 0
    BY <2>1, <2>2, NobodyLeft DEF Gone
  <2>5. \A u \in Users : slot(u) \in Slots
    BY <1>0, SlotOfThread
  <2> QED
    BY <1>0, <2>2, <2>3, <2>4, <2>5 DEF OpenOK, Still, slot, Added, Opening
<1>3. CASE UNCHANGED <<gen, free, params, opens>> /\ ~\E s \in Slots : Opens(t, s)
  <2>1. \A u \in Users : pc'[u] \in {"store", "add"} =>
           pc[u] \in {"store", "add"} /\ hdl'[u] = hdl[u] /\ (pc'[u] = "store" => pc[u] = "store")
    <3>1. SUFFICES ASSUME t \in Users, pc'[t] \in {"store", "add"}
                   PROVE  pc[t] \in {"store", "add"} /\ hdl'[t] = hdl[t]
                            /\ (pc'[t] = "store" => pc[t] = "store")
      BY <1>0, OthersStill DEF Still
    <3>2. CASE Open(t)
      BY <1>0, <3>1, <3>2 DEF Open, StoreRefs, EpollAdd, TypeOK, Go
    <3>3. CASE \E h \in Handles : Cancel(t, h)
      BY <1>0, <3>1, <3>3 DEF Cancel, TypeOK, Go
    <3>4. CASE Call(t)
      BY <1>0, <3>1, <3>4, EventThreads DEF TypeOK, Go, Call, Resolve, CheckGeneration,
         Release, PostCancelled, Close, EpollDel, Wakeup, Returns
    <3> QED
      BY <1>3, <3>1, <3>2, <3>3, <3>4, EventThreads DEF StepOf, Opens
  <2>2. \A s \in closed' : s \in closed \/ (pc[t] = "close" /\ s = slot(t))
    <3> USE DEF state_vars
    <3>1. CASE \E h \in Handles : \E events \in SUBSET (Sides \cup {"hangup"}) : Notify(t, h, events)
      BY <3>1 DEF Notify
    <3>2. CASE \E h \in Handles : Cancel(t, h)
      BY <3>2 DEF Cancel
    <3>3. CASE Call(t)
      BY <3>3 DEF Call, Resolve, CheckGeneration, Release, PostCancelled, Close, EpollDel, Wakeup
    <3>4. CASE t \in Users /\ Open(t)
      BY <3>4 DEF Open, StoreRefs, EpollAdd
    <3>5. CASE t \in Dispatchers /\ Dispatch(t)
      BY <3>5 DEF Dispatch, Publish, ClaimSide, Delivered, PostSide, PushSide, ServedHere
    <3>6. CASE t \in Queues /\ Serve(t)
      BY <3>6 DEF Serve, BeginTask, CallHandler, HandlerReturns, LeaveSide, ReportCancelled, GiveSlot, ReleaseHeld, FinishEvent, EndTask
    <3> QED
      BY <1>3, <3>1, <3>2, <3>3, <3>4, <3>5, <3>6 DEF StepOf, Opens
  <2>3. pc[t] = "close" => Added(slot(t))
    <3>1. pc[t] = "close" => op[t] = "cancel" /\ hdl[t].gen = gen[slot(t)]
      BY <1>0 DEF ControlOK, ThreadOK, UserPCs, DispatcherPCs, QueuePCs, Threads, NamesOK, CheckedPCs
    <3>2. gen[slot(t)] \in Nat
      BY <1>0, SlotOfThread DEF TypeOK
    <3> QED
      BY <1>0, <3>1, <3>2 DEF NamesOK, NamedApp, slot
  <2>4. \A u \in Users : slot(u) \in Slots
    BY <1>0, SlotOfThread
  <2>5. \A u \in Users : pc'[u] \in {"store", "add"} =>
           slot(u)' \notin free' /\ slot(u)' \notin closed' /\ hdl'[u].gen = gen'[slot(u)']
    BY <1>0, <1>3, <2>1, <2>2, <2>3 DEF OpenOK, slot, Added, Opening
  <2>6. \A u, v \in Users :
          pc'[u] \in {"store", "add"} /\ pc'[v] \in {"store", "add"}
             /\ slot(u)' = slot(v)' => u = v
    BY <1>0, <2>1 DEF OpenOK, slot
  <2>7. ASSUME NEW u \in Users, pc'[u] = "store" PROVE refs'[slot(u)'] = 0
    <3>1. pc[u] = "store" /\ slot(u)' = slot(u) /\ refs[slot(u)] = 0
      BY <1>0, <2>1, <2>7 DEF OpenOK, slot
    <3>2. ~(t \in Users /\ StoreRefs(t) /\ slot(t) = slot(u))
      BY <1>0, <2>7, <3>1 DEF StoreRefs, Go, TypeOK, OpenOK
    <3> QED
      BY <2>4, <3>1, <3>2, ZeroStays
  <2>8. ASSUME NEW s \in free' PROVE refs'[s] = 0
    <3>1. s \in Slots /\ s \in free /\ refs[s] = 0
      BY <1>0, <1>3 DEF TypeOK, OpenOK
    <3>2. ~(t \in Users /\ StoreRefs(t) /\ slot(t) = s)
      BY <1>0, <3>1 DEF StoreRefs, OpenOK
    <3> QED
      BY <3>1, <3>2, ZeroStays
  <2> QED
    BY <2>5, <2>6, <2>7, <2>8 DEF OpenOK
<1> QED
  BY <1>1, <1>2, <1>3, SlotSteps

-----------------------------------------------------------------------------
LEMMA NamedKept ==
    ASSUME Inv, NEW t \in Threads, StepOf(t), NEW h \in Handles
    PROVE  (Named(h) => Named(h)') /\ (NamedApp(h) => NamedApp(h)')
<1>1. h.slot \in Slots /\ h.gen \in Nat
  BY DEF Handles
<1>2. gen'[h.slot] >= gen[h.slot] /\ gen[h.slot] \in Nat /\ gen'[h.slot] \in Nat
  BY <1>1, GenGrows
<1>3. CASE h.gen < gen[h.slot]
  BY <1>1, <1>2, <1>3 DEF Named, NamedApp
<1>4. CASE Gives(t, h.slot)
  <2>1. gen'[h.slot] = gen[h.slot] + 1
    BY <1>1, <1>4, GivesEffect DEF Inv, Gives
  <2> QED
    BY <1>1, <1>2, <2>1 DEF Named, NamedApp
<1>5. CASE ~Gives(t, h.slot) /\ ~(h.gen < gen[h.slot])
  <2>1. SUFFICES ASSUME h.gen = gen[h.slot], Added(h.slot)
                 PROVE  Named(h)' /\ (~Owned(h.slot) => NamedApp(h)')
    BY <1>5 DEF Named, NamedApp
  <2>2. gen'[h.slot] = gen[h.slot] /\ Added(h.slot)' /\ (Owned(h.slot)' <=> Owned(h.slot))
    BY <1>1, <1>5, <2>1, AddedKept DEF Added
  <2> QED
    BY <2>1, <2>2 DEF Named, NamedApp
<1> QED
  BY <1>3, <1>4, <1>5

(* A side task that runs is of an event of the application.                *)
LEMMA ServedIsNamed ==
    ASSUME TypeOK, HeadOK, NamesOK, NEW q \in Queues, pc[q] \notin {"idle", "finish", "leave_work", "end"}
    PROVE  /\ NamedApp(hdl[q]) /\ Added(slot(q)) /\ ~Owned(slot(q)) /\ q \in Threads
           /\ params[slot(q)].queues[side[q]] = q
<1>1. Unfinished(q, 1) /\ queue[q][1].slot = slot(q) /\ queue[q][1].side = side[q]
  BY DEF HeadOK, Unfinished
<1>2. Added(slot(q)) /\ params[slot(q)].queues[side[q]] = q
  BY <1>1 DEF NamesOK
<1>3. q \in Threads /\ side[q] \in Sides
  BY DEF TypeOK, Threads
<1>4. ~Owned(slot(q))
  BY <1>2, <1>3, EventThreads DEF Owned, NoQueues
<1>5. hdl[q].gen = gen[slot(q)]
  BY DEF NamesOK
<1> QED
  BY <1>2, <1>3, <1>4, <1>5 DEF NamedApp, slot

LEMMA EpollSteps ==
    ASSUME NEW t \in Threads, StepOf(t)
    PROVE  \/ epoll' = epoll
           \/ t \in Users /\ EpollAdd(t) /\ epoll' = epoll \cup {hdl[t]}
           \/ EpollDel(t) /\ epoll' = epoll \ {hdl[t]}
<1> USE DEF kernel_vars
<1>1. CASE \E s \in Slots, p \in Params : OpenEvent(t, s, p)
  BY <1>1 DEF OpenEvent
<1>2. CASE \E h \in Handles : \E events \in SUBSET (Sides \cup {"hangup"}) : Notify(t, h, events)
  BY <1>2 DEF Notify
<1>3. CASE \E h \in Handles : Cancel(t, h)
  BY <1>3 DEF Cancel
<1>4. CASE Call(t)
  BY <1>4 DEF Call, Resolve, CheckGeneration, Release, PostCancelled, Close, EpollDel, Wakeup, Unregistered
<1>5. CASE t \in Users /\ Open(t)
  BY <1>5 DEF Open, StoreRefs, EpollAdd
<1>6. CASE t \in Dispatchers /\ Dispatch(t)
  BY <1>6 DEF Dispatch, Publish, ClaimSide, Delivered, PostSide, PushSide, ServedHere
<1>7. CASE t \in Queues /\ Serve(t)
  BY <1>7 DEF Serve, BeginTask, CallHandler, HandlerReturns, LeaveSide, ReportCancelled, GiveSlot, ReleaseHeld, FinishEvent, EndTask
<1> QED
  BY <1>1, <1>2, <1>3, <1>4, <1>5, <1>6, <1>7 DEF StepOf

LEMMA KnownSteps ==
    ASSUME NEW t \in Threads, StepOf(t)
    PROVE  \/ known' = known
           \/ t \in Users /\ EpollAdd(t) /\ ~Owned(slot(t)) /\ known' = known \cup {hdl[t]}
           \/ t \in Queues /\ CallHandler(t) /\ known' = known \cup {hdl[t]}
<1> USE DEF ghost_vars
<1>1. CASE \E s \in Slots, p \in Params : OpenEvent(t, s, p)
  BY <1>1 DEF OpenEvent
<1>2. CASE \E h \in Handles : \E events \in SUBSET (Sides \cup {"hangup"}) : Notify(t, h, events)
  BY <1>2 DEF Notify
<1>3. CASE \E h \in Handles : Cancel(t, h)
  BY <1>3 DEF Cancel
<1>4. CASE Call(t)
  BY <1>4 DEF Call, Resolve, CheckGeneration, Release, PostCancelled, Close, EpollDel, Wakeup
<1>5. CASE t \in Users /\ Open(t)
  BY <1>5 DEF Open, StoreRefs, EpollAdd
<1>6. CASE t \in Dispatchers /\ Dispatch(t)
  BY <1>6 DEF Dispatch, Publish, ClaimSide, Delivered, PostSide, PushSide, ServedHere
<1>7. CASE t \in Queues /\ Serve(t)
  BY <1>7 DEF Serve, BeginTask, CallHandler, HandlerReturns, LeaveSide, ReportCancelled, GiveSlot, ReleaseHeld, FinishEvent, EndTask
<1> QED
  BY <1>1, <1>2, <1>3, <1>4, <1>5, <1>6, <1>7 DEF StepOf

(* The registration gives the handle of an event that is there from then   *)
(* on.                                                                     *)
LEMMA AddGives ==
    ASSUME Inv, NEW t \in Users, EpollAdd(t), NEW s, s = slot(t)
    PROVE  /\ hdl[t] \in Handles /\ hdl[t].gen = gen'[s] /\ Added(s)'
           /\ (Owned(s)' <=> Owned(s))
<1>0. TypeOK /\ OpenOK /\ t \in Threads
  BY DEF Inv, Threads
<1>1. /\ pc[t] = "add" /\ UNCHANGED <<gen, free, params>> /\ pc'[t] = "idle"
      /\ \A u \in Users : u # t => pc'[u] = pc[u] /\ hdl'[u] = hdl[u]
  BY <1>0 DEF EpollAdd, slot_vars, Go, TypeOK, Threads
<1>2. s \notin free /\ hdl[t].gen = gen[s]
  BY <1>0, <1>1 DEF OpenOK
<1>3. Added(s)'
  <2>1. SUFFICES ASSUME NEW u \in Users, pc'[u] \in {"store", "add"}, hdl'[u].slot = s, u # t
                 PROVE  FALSE
    BY <1>1, <1>2 DEF Added, Opening, slot
  <2> QED
    BY <1>0, <1>1, <2>1 DEF OpenOK, slot
<1> QED
  BY <1>0, <1>1, <1>2, <1>3 DEF TypeOK, Owned

(* Where a task of the next state comes from.                              *)
LEMMA PlaceSteps ==
    ASSUME Inv, NEW t \in Threads, StepOf(t), NEW q \in Queues, NEW i \in Nat, (i \in Pos(q))'
    PROVE  \/ i \in Pos(q) /\ queue'[q][i] = queue[q][i] /\ ~(q = t /\ EndTask(t))
           \/ q = t /\ EndTask(t) /\ i # 0 /\ i + 1 \in Pos(q) /\ queue'[q][i] = queue[q][i + 1]
           \/ i = Len(queue[q]) + 1 /\ Pushing(t) /\ Pushes(q, queue'[q][i])
<1>0. TypeOK /\ HeadOK
  BY DEF Inv
<1>1. CASE UNCHANGED queue
  <2>1. ~(q = t /\ EndTask(t))
    <3>1. SUFFICES ASSUME q = t, EndTask(t) PROVE FALSE
      OBVIOUS
    <3>2. queue[q] \in Seq(TaskSet) /\ 1 \in Pos(q) /\ queue'[q] = Tail(queue[q])
      BY <1>0, <3>1 DEF EndTask, HeadOK, TypeOK
    <3>3. queue[q] # <<>>
      BY <3>2, EmptySeq DEF Pos
    <3>4. Len(Tail(queue[q])) = Len(queue[q]) - 1 /\ Len(queue[q]) \in Nat
      BY <3>2, <3>3, TailFacts
    <3>5. Tail(queue[q]) = queue[q]
      BY <1>1, <3>2
    <3>6. Len(Tail(queue[q])) = Len(queue[q])
      BY <3>5, Zenon
    <3> QED
      BY <3>4, <3>6
  <2> QED
    BY <1>1, <2>1 DEF Pos
<1>2. ASSUME NEW p, NEW k, Pushes(p, k), Pushing(t)
      PROVE  \/ i \in Pos(q) /\ queue'[q][i] = queue[q][i] /\ ~(q = t /\ EndTask(t))
             \/ i = Len(queue[q]) + 1 /\ Pushing(t) /\ Pushes(q, queue'[q][i])
  <2>1. ~(q = t /\ EndTask(t))
    BY <1>2 DEF EndTask, Pushing, PushSide, PostCancelled, ReportCancelled
  <2>2. i \in Pos(q) \/ (q = p /\ i = Len(queue[p]) + 1)
    BY <1>0, <1>2, PushFacts
  <2>3. CASE i \in Pos(q)
    BY <1>0, <1>2, <2>1, <2>3, PushFacts
  <2>4. CASE q = p /\ i = Len(queue[p]) + 1
    <3>1. queue'[p][Len(queue[p]) + 1] = k
      BY <1>0, <1>2, PushFacts
    <3> QED
      BY <1>2, <2>4, <3>1
  <2> QED
    BY <2>2, <2>3, <2>4
<1>3. CASE t \in Queues /\ EndTask(t)
  <2>1. CASE q = t
    BY <1>0, <1>3, <2>1, EndFacts
  <2>2. CASE q # t
    BY <1>0, <1>3, <2>2, EndFacts DEF Pos
  <2> QED
    BY <2>1, <2>2
<1> QED
  BY <1>1, <1>2, <1>3, QueueSteps

LEMMA UnfinishedSteps ==
    ASSUME Inv, NEW t \in Threads, StepOf(t), NEW q \in Queues, NEW i \in Nat, Unfinished(q, i)'
    PROVE  \/ Unfinished(q, i) /\ queue'[q][i] = queue[q][i] /\ ~(q = t /\ EndTask(t))
           \/ /\ q = t /\ EndTask(t) /\ i # 0 /\ Unfinished(q, i + 1)
              /\ queue'[q][i] = queue[q][i + 1]
           \/ i = Len(queue[q]) + 1 /\ Pushing(t) /\ Pushes(q, queue'[q][i])
<1>0. TypeOK /\ ControlOK /\ q \in Threads
  BY DEF Inv, Threads
<1>1. (i \in Pos(q))' /\ ~(i = 1 /\ pc'[q] \in {"finish", "leave_work", "end"})
  BY DEF Unfinished
<1>2. CASE i \in Pos(q) /\ queue'[q][i] = queue[q][i] /\ ~(q = t /\ EndTask(t))
  <2>1. SUFFICES ASSUME i = 1, pc[q] \in {"finish", "leave_work", "end"} PROVE FALSE
    BY <1>2 DEF Unfinished
  <2>2. CASE q # t
    BY <1>0, <1>1, <2>1, <2>2, OthersStill DEF Still
  <2>3. CASE q = t
    <3>1. pc'[t] \in {"finish", "leave_work", "end"}
      BY <1>0, <1>2, <2>1, <2>3, EventThreads DEF StepOf, Cancel, Call, Resolve, CheckGeneration, Release,
         PostCancelled, Close, EpollDel, Wakeup, Serve, BeginTask, CallHandler, HandlerReturns, LeaveSide,
         ReportCancelled, GiveSlot, ReleaseHeld, FinishEvent, Go, TypeOK
    <3> QED
      BY <1>1, <2>1, <2>3, <3>1
  <2> QED
    BY <2>2, <2>3
<1>3. CASE q = t /\ EndTask(t) /\ i # 0 /\ i + 1 \in Pos(q) /\ queue'[q][i] = queue[q][i + 1]
  BY <1>3 DEF Unfinished
<1> QED
  BY <1>1, <1>2, <1>3, PlaceSteps

LEMMA TaskNamesStep ==
    ASSUME Inv, NEW t \in Threads, StepOf(t), NEW q \in Queues, NEW i \in Nat, Unfinished(q, i)'
    PROVE  \A s \in Slots : s = queue'[q][i].slot =>
              Added(s)' /\ params'[s].queues[queue'[q][i].side] = q
<1> SUFFICES ASSUME NEW s \in Slots, s = queue'[q][i].slot
             PROVE  Added(s)' /\ params'[s].queues[queue'[q][i].side] = q
  OBVIOUS
<1>0. TypeOK /\ ControlOK /\ HeadOK /\ NamesOK /\ LastOK /\ OpenOK /\ RefsOK
  BY DEF Inv
<1>1. ASSUME NEW j \in Nat, Unfinished(q, j), queue'[q][i] = queue[q][j],
             (j = i /\ ~(q = t /\ EndTask(t))) \/ EndTask(t)
      PROVE  Added(s)' /\ params'[s].queues[queue'[q][i].side] = q
  <2>1. Added(s) /\ params[s].queues[queue[q][j].side] = q
    BY <1>0, <1>1 DEF NamesOK
  <2>2. ~Gives(t, s)
    <3>1. SUFFICES ASSUME Gives(t, s) PROVE FALSE
      OBVIOUS
    <3>2. t \in Queues /\ pc[t] = "give" /\ pc'[t] = "finish"
      BY <1>0, <3>1, GivesEffect DEF Gives
    <3>3. q = t /\ j = 1
      BY <1>1, <3>1, <3>2, NobodyLeft
    <3>4. ~EndTask(t)
      BY <3>2 DEF EndTask
    <3> QED
      BY <1>1, <3>2, <3>3, <3>4 DEF Unfinished
  <2> QED
    BY <1>1, <2>1, <2>2, AddedKept DEF Added
<1>2. CASE Pushing(t) /\ Pushes(q, queue'[q][i])
  <2>1. pc[t] \in {"push", "report_last", "report"}
    BY <1>2 DEF Pushing, PushSide, PostCancelled, ReportCancelled
  <2>2. slot(t) \in Slots /\ \A r \in Slots : params'[r] = params[r]
    BY <1>0, <2>1, SlotOfThread, SelfKeeps
  <2>3. queue[q] \in Seq(TaskSet) /\ queue'[q] = Append(queue[q], queue'[q][i])
    BY <1>0, <1>2 DEF Pushes, TypeOK
  <2>4. ASSUME NEW p, NEW k, Pushes(p, k) PROVE p = q /\ k = queue'[q][i]
    <3>1. queue[q] \in Seq(TaskSet) /\ Len(queue'[q]) = Len(queue[q]) + 1 /\ Len(queue[q]) \in Nat
          /\ queue'[q][Len(queue[q]) + 1] = queue'[q][i]
      BY <1>0, <1>2, PushFacts DEF TypeOK
    <3>2. p = q
      BY <1>0, <2>4, <3>1, PushFacts DEF Pushes
    <3>3. queue'[p][Len(queue[p]) + 1] = k
      BY <1>0, <2>4, PushFacts
    <3> QED
      BY <3>1, <3>2, <3>3
  <2>5. CASE t \in Dispatchers /\ PushSide(t)
    <3>1. /\ params[slot(t)].queues[side[t]] = q
          /\ queue'[q][i] = Task("side", slot(t), side[t])
      BY <1>0, <2>4, <2>5, PushSidePushes
    <3>2. pc[t] = "push" /\ op[t] = "dispatch"
      BY <1>0, <2>5 DEF PushSide, ControlOK, ThreadOK
    <3>3. Added(slot(t))
      <4>1. hdl[t].gen = gen[slot(t)] /\ Named(hdl[t]) /\ gen[slot(t)] \in Nat
        BY <1>0, <2>2, <3>2 DEF NamesOK, CheckedPCs, TypeOK
      <4> QED
        BY <4>1 DEF Named, slot
    <3>4. ~Gives(t, slot(t))
      BY <3>2 DEF Gives, GiveSlot
    <3> QED
      BY <2>2, <3>1, <3>3, <3>4, AddedKept DEF Added, Task
  <2>6. CASE PostCancelled(t)
    <3>1. /\ params[slot(t)].queues[FirstReport(slot(t))] = q
          /\ queue'[q][i] = Task("cancelled", slot(t), FirstReport(slot(t)))
      BY <1>0, <2>4, <2>6, PostCancelledPushes
    <3>2. Added(slot(t)) /\ pc[t] = "report_last"
      BY <1>0, <2>2, <2>6 DEF PostCancelled, LastOK, Gone, NamesOK
    <3>3. ~Gives(t, slot(t))
      BY <3>2 DEF Gives, GiveSlot
    <3> QED
      BY <2>2, <3>1, <3>2, <3>3, AddedKept DEF Added, Task
  <2>7. CASE t \in Queues /\ ReportCancelled(t)
    <3>1. queue' # queue
      BY <1>0, <1>2, PushFacts DEF Pushes
    <3>2. /\ params[slot(t)].queues["readable"] = q
          /\ queue'[q][i] = Task("cancelled", slot(t), "readable")
      BY <1>0, <2>4, <2>7, <3>1, ReportPushes
    <3>3. Added(slot(t)) /\ pc[t] = "report"
      BY <1>0, <2>7, ServedIsNamed DEF ReportCancelled
    <3>4. ~Gives(t, slot(t))
      BY <3>3 DEF Gives, GiveSlot
    <3> QED
      BY <2>2, <3>2, <3>3, <3>4, AddedKept DEF Added, Task
  <2> QED
    BY <1>2, <2>5, <2>6, <2>7 DEF Pushing
<1> QED
  BY <1>1, <1>2, UnfinishedSteps

LEMMA ClosedSteps ==
    ASSUME NEW t \in Threads, StepOf(t)
    PROVE  \/ closed' = closed
           \/ Close(t) /\ closed' = closed \cup {slot(t)}
           \/ \E s \in Slots : Opens(t, s) /\ closed' = closed \ {s}
<1> USE DEF state_vars
<1>1. CASE \E s \in Slots, p \in Params : t \in Users /\ OpenEvent(t, s, p)
  BY <1>1 DEF OpenEvent, Opens
<1>2. CASE \E h \in Handles : \E events \in SUBSET (Sides \cup {"hangup"}) : Notify(t, h, events)
  BY <1>2 DEF Notify
<1>3. CASE \E h \in Handles : Cancel(t, h)
  BY <1>3 DEF Cancel
<1>4. CASE Call(t)
  BY <1>4 DEF Call, Resolve, CheckGeneration, Release, PostCancelled, Close, EpollDel, Wakeup
<1>5. CASE t \in Users /\ Open(t)
  BY <1>5 DEF Open, StoreRefs, EpollAdd
<1>6. CASE t \in Dispatchers /\ Dispatch(t)
  BY <1>6 DEF Dispatch, Publish, ClaimSide, Delivered, PostSide, PushSide, ServedHere
<1>7. CASE t \in Queues /\ Serve(t)
  BY <1>7 DEF Serve, BeginTask, CallHandler, HandlerReturns, LeaveSide, ReportCancelled, GiveSlot, ReleaseHeld, FinishEvent, EndTask
<1> QED
  BY <1>1, <1>2, <1>3, <1>4, <1>5, <1>6, <1>7 DEF StepOf

(* A call that has found its tenant.                                       *)
LEMMA CheckedIsNamed ==
    ASSUME TypeOK, ControlOK, NamesOK, NEW t \in Threads, pc[t] \in CheckedPCs
    PROVE  /\ op[t] # "side" /\ Calling(t) /\ Added(slot(t)) /\ hdl[t].gen = gen[slot(t)]
           /\ slot(t) \in Slots /\ HandleOf(slot(t)) = hdl[t]
           /\ pc[t] \in {"close", "del"} => op[t] = "cancel" /\ ~Owned(slot(t))
           /\ pc[t] \in {"here", "publish", "claim", "post", "push"} => t \in Dispatchers
<1>1. op[t] # "side" /\ (pc[t] \in {"close", "del"} => op[t] = "cancel")
      /\ (pc[t] \in {"here", "publish", "claim", "post", "push"} => t \in Dispatchers)
  BY DEF ControlOK, ThreadOK, CheckedPCs, Threads, UserPCs, DispatcherPCs, QueuePCs
<1>2. op[t] \in {"dispatch", "cancel"} /\ hdl[t] \in Handles /\ slot(t) \in Slots /\ gen[slot(t)] \in Nat
  BY <1>1, SlotOfThread DEF TypeOK
<1>3. hdl[t].gen = gen[slot(t)]
  BY DEF NamesOK
<1>4. Added(slot(t)) /\ (op[t] = "cancel" => ~Owned(slot(t)))
  BY <1>2, <1>3 DEF NamesOK, Named, NamedApp, slot
<1>5. HandleOf(slot(t)) = hdl[t]
  BY <1>2, <1>3 DEF HandleOf, Handles, slot
<1> QED
  BY <1>1, <1>2, <1>3, <1>4, <1>5 DEF Calling, CallPCs

LEMMA NamesStepA ==
    ASSUME Inv, NEW t \in Threads, StepOf(t)
    PROVE  /\ \A h \in epoll' : h.gen = gen'[h.slot] /\ Added(h.slot)'
           /\ \A h \in known' : NamedApp(h)'
           /\ \A s \in Slots : s \in closed' /\ s \notin free' => Added(s)' /\ ~Owned(s)'
<1>0. /\ TypeOK /\ ControlOK /\ HeadOK /\ NamesOK /\ slot(t) \in Slots
      /\ epoll \subseteq Handles /\ known \subseteq Handles
  BY SlotOfThread DEF Inv, TypeOK
<1>1. ASSUME NEW h \in epoll PROVE h.gen = gen'[h.slot] /\ Added(h.slot)'
  <2>1. h.slot \in Slots /\ h.gen = gen[h.slot] /\ Added(h.slot) /\ refs[h.slot] > 0
    BY <1>0, EpollLive DEF NamesOK
  <2>2. ~Gives(t, h.slot)
    BY <2>1, NobodyLeft DEF Gone, Gives
  <2> QED
    BY <2>1, <2>2, AddedKept DEF Added
<1>2. \A h \in epoll' : h.gen = gen'[h.slot] /\ Added(h.slot)'
  <2>1. CASE t \in Users /\ EpollAdd(t) /\ epoll' = epoll \cup {hdl[t]}
    <3>1. hdl[t].gen = gen'[hdl[t].slot] /\ \A s : s = hdl[t].slot => Added(s)'
      BY <2>1, AddGives DEF slot
    <3>2. \A h : h = hdl[t] => h.gen = gen'[h.slot] /\ Added(h.slot)'
      BY <3>1
    <3> QED
      BY <1>1, <2>1, <3>2
  <2> QED
    BY <1>1, <2>1, EpollSteps
<1>3. ASSUME NEW h \in known PROVE NamedApp(h)'
  BY <1>0, <1>3, NamedKept DEF NamesOK
<1>4. \A h \in known' : NamedApp(h)'
  <2>1. CASE t \in Users /\ EpollAdd(t) /\ ~Owned(slot(t)) /\ known' = known \cup {hdl[t]}
    <3>1. /\ hdl[t].gen = gen'[hdl[t].slot]
          /\ \A s : s = hdl[t].slot => Added(s)' /\ ~Owned(s)'
      BY <2>1, AddGives DEF slot
    <3>2. \A h : h = hdl[t] => NamedApp(h)'
      BY <3>1 DEF NamedApp
    <3> QED
      BY <1>3, <2>1, <3>2
  <2>2. CASE t \in Queues /\ CallHandler(t) /\ known' = known \cup {hdl[t]}
    <3>1. NamedApp(hdl[t]) /\ hdl[t] \in Handles
      BY <1>0, <2>2, ServedIsNamed DEF CallHandler, TypeOK
    <3>2. \A h : h = hdl[t] => NamedApp(h)'
      BY <3>1, NamedKept
    <3> QED
      BY <1>3, <2>2, <3>2
  <2> QED
    BY <1>3, <2>1, <2>2, KnownSteps
<1>5. ASSUME NEW s \in Slots, s \in closed', s \notin free' PROVE Added(s)' /\ ~Owned(s)'
  <2>1. CASE s \in closed /\ s \notin free
    <3>1. ~Gives(t, s)
      BY <1>0, <1>5, GivesEffect DEF Gives
    <3> QED
      BY <1>0, <2>1, <3>1, AddedKept DEF NamesOK
  <2>2. CASE s \in closed /\ s \in free
    <3>1. Opens(t, s)
      <4>1. CASE \E r \in Slots : Opens(t, r)
        BY <1>0, <1>5, <2>2, <4>1, OpensEffect DEF Opens
      <4>2. CASE \E r \in Slots : Gives(t, r)
        BY <1>0, <1>5, <2>2, <4>2, GivesEffect DEF Gives
      <4> QED
        BY <1>5, <2>2, <4>1, <4>2, SlotSteps
    <3> QED
      BY <1>0, <1>5, <3>1, OpensEffect DEF Opens
  <2>3. CASE s \notin closed
    <3>1. Close(t) /\ s = slot(t)
      BY <1>5, <2>3, ClosedSteps
    <3>2. pc[t] = "close" /\ ~Gives(t, s)
      BY <3>1 DEF Close, Gives, GiveSlot
    <3>3. Added(s) /\ ~Owned(s)
      BY <1>0, <3>1, <3>2, CheckedIsNamed DEF CheckedPCs
    <3> QED
      BY <3>2, <3>3, AddedKept DEF Added
  <2> QED
    BY <2>1, <2>2, <2>3
<1> QED
  BY <1>2, <1>4, <1>5

(* A call keeps its handle until it is over.                               *)
LEMMA OpSteps ==
    ASSUME Inv, NEW t \in Threads, StepOf(t), op'[t] # "side"
    PROVE  \/ op'[t] = op[t] /\ hdl'[t] = hdl[t]
           \/ op'[t] = "dispatch" /\ hdl'[t] \in epoll
           \/ op'[t] = "cancel" /\ hdl'[t] \in known
           \/ op'[t] = "cancel" /\ hdl'[t] = hdl[t] /\ t \in Queues /\ pc[t] = "handler"
<1>0. TypeOK /\ ThreadOK(t)
  BY DEF Inv, ControlOK
<1> USE DEF TypeOK, thread_vars, Go
<1>1. CASE \E s \in Slots, p \in Params : t \in Users /\ OpenEvent(t, s, p)
  BY <1>0, <1>1 DEF OpenEvent, ThreadOK
<1>2. CASE \E h \in Handles : \E events \in SUBSET (Sides \cup {"hangup"}) : Notify(t, h, events)
  BY <1>0, <1>2 DEF Notify
<1>3. CASE \E h \in Handles : Cancel(t, h)
  BY <1>0, <1>3 DEF Cancel
<1>4. CASE Call(t)
  BY <1>0, <1>4 DEF Call, Resolve, CheckGeneration, Release, PostCancelled, Close, EpollDel, Wakeup, Returns
<1>5. CASE t \in Users /\ Open(t)
  BY <1>0, <1>5 DEF Open, StoreRefs, EpollAdd, ThreadOK
<1>6. CASE t \in Dispatchers /\ Dispatch(t)
  BY <1>0, <1>6 DEF Dispatch, Publish, ClaimSide, Delivered, PostSide, PushSide, ServedHere
<1>7. CASE t \in Queues /\ Serve(t)
  BY <1>0, <1>7, EventThreads DEF Serve, BeginTask, CallHandler, HandlerReturns, LeaveSide, ReportCancelled,
     GiveSlot, ReleaseHeld, FinishEvent, EndTask, ThreadOK
<1> QED
  BY <1>1, <1>2, <1>3, <1>4, <1>5, <1>6, <1>7 DEF StepOf

LEMMA NamesStepB ==
    ASSUME Inv, NEW t \in Threads, StepOf(t), NEW u \in Threads
    PROVE  /\ op'[u] = "dispatch" => Named(hdl[u])'
           /\ op'[u] = "cancel" => NamedApp(hdl[u])'
<1>0. /\ TypeOK /\ HeadOK /\ NamesOK
      /\ epoll \subseteq Handles /\ known \subseteq Handles /\ hdl[u] \in Handles
  BY DEF Inv, TypeOK
<1>1. CASE op'[u] = op[u] /\ hdl'[u] = hdl[u]
  <2>1. \A h \in Handles : h = hdl[u] =>
          (op[u] = "dispatch" => Named(h)') /\ (op[u] = "cancel" => NamedApp(h)')
    BY <1>0, NamedKept DEF NamesOK
  <2> QED
    BY <1>0, <1>1, <2>1 DEF Named, NamedApp
<1>2. CASE u # t
  BY <1>0, <1>1, <1>2, OthersStill DEF Still
<1>3. CASE u = t /\ op'[u] = "dispatch" /\ hdl'[u] \in epoll
  <2>1. \A h \in epoll : Named(h)
    BY <1>0 DEF NamesOK, Named
  <2>2. \A h \in epoll : Named(h)'
    BY <1>0, <2>1, NamedKept
  <2> QED
    BY <1>3, <2>2 DEF Named
<1>4. CASE u = t /\ op'[u] = "cancel" /\ hdl'[u] \in known
  <2>1. \A h \in known : NamedApp(h)'
    BY <1>0, NamedKept DEF NamesOK
  <2> QED
    BY <1>4, <2>1 DEF NamedApp
<1>5. CASE u = t /\ op'[u] = "cancel" /\ hdl'[u] = hdl[u] /\ u \in Queues /\ pc[u] = "handler"
  <2>1. NamedApp(hdl[u])
    BY <1>0, <1>5, ServedIsNamed
  <2>2. \A h \in Handles : h = hdl[u] => NamedApp(h)'
    BY <1>0, <2>1, NamedKept
  <2> QED
    BY <1>0, <1>5, <2>2 DEF NamedApp
<1> QED
  BY <1>1, <1>2, <1>3, <1>4, <1>5, OpSteps

(* What a call has established about its tenant.                           *)
Established(u) ==
    /\ pc[u] \in CheckedPCs => hdl[u].gen = gen[slot(u)]
    /\ pc[u] \in {"publish", "claim", "post", "push"} => ~Owned(slot(u))
    /\ pc[u] \in {"claim", "post", "push"} => todo[u] \subseteq params[slot(u)].interest
    /\ pc[u] \in {"post", "push"} => side[u] \in params[slot(u)].interest
    /\ u \in Queues /\ pc[u] \notin {"idle", "finish", "leave_work", "end"} => hdl[u].gen = gen[slot(u)]

LEMMA NextSideIsOne ==
    ASSUME TypeOK, NEW t \in Threads, todo[t] # {}, todo[t] \subseteq Sides
    PROVE  NextSide(t) \in todo[t]
  BY DEF NextSide, Sides

LEMMA NamesStepC ==
    ASSUME Inv, NEW t \in Threads, StepOf(t), NEW u \in Threads
    PROVE  Established(u)'
<1>0. /\ TypeOK /\ ControlOK /\ HeadOK /\ NamesOK /\ Established(u) /\ slot(u) \in Slots /\ ThreadOK(u)
  BY SlotOfThread DEF Inv, NamesOK, Established, ControlOK
<1>1. CASE u # t
  <2>1. Still(u)
    BY <1>0, <1>1, OthersStill
  <2>2. pc[u] \in CheckedPCs => Calling(u)
    BY <1>0, CheckedIsNamed
  <2>3. CASE pc[u] \in CheckedPCs \/ (u \in Queues /\ pc[u] \notin {"idle", "finish", "leave_work", "end"})
    <3>1. /\ slot(u)' = slot(u) /\ gen'[slot(u)] = gen[slot(u)]
          /\ params'[slot(u)] = params[slot(u)]
      BY <1>1, <2>2, <2>3, CallerKeeps
    <3> QED
      BY <1>0, <2>1, <3>1 DEF Established, Still, Owned, slot
  <2>4. CASE ~(pc[u] \in CheckedPCs \/ (u \in Queues /\ pc[u] \notin {"idle", "finish", "leave_work", "end"}))
    BY <2>1, <2>4 DEF Established, Still, CheckedPCs
  <2> QED
    BY <2>3, <2>4
<1>2. CASE u = t /\ pc[t] \in {"idle", "give"}
  <2>1. CASE \E r \in Slots : Opens(t, r)
    <3>1. t \in Users /\ pc'[t] = "store"
      BY <1>0, <2>1, OpensEffect DEF Opens
    <3> QED
      BY <1>2, <3>1, EventThreads DEF Established, CheckedPCs
  <2>2. CASE \E r \in Slots : Gives(t, r)
    <3>1. pc'[t] = "finish"
      BY <1>0, <2>2, GivesEffect DEF Gives
    <3> QED
      BY <1>2, <3>1 DEF Established, CheckedPCs
  <2>3. CASE \E h \in Handles : \E events \in SUBSET (Sides \cup {"hangup"}) :
                t \in Dispatchers /\ Notify(t, h, events)
    <3>1. pc'[t] = "resolve" /\ t \notin Queues
      BY <1>0, <2>3, EventThreads DEF Notify, Go, TypeOK
    <3> QED
      BY <1>2, <3>1 DEF Established, CheckedPCs
  <2>4. CASE \E h \in Handles : Cancel(t, h)
    <3>1. pc'[t] = "resolve" /\ t \notin Queues
      BY <1>0, <1>2, <2>4, EventThreads DEF Cancel, Go, TypeOK
    <3> QED
      BY <1>2, <3>1 DEF Established, CheckedPCs
  <2>5. CASE t \in Queues /\ BeginTask(t)
    <3>1. 1 \in Pos(t) /\ Head(queue[t]) = queue[t][1] /\ queue[t][1].slot \in Slots
      <4>1. queue[t] \in Seq(TaskSet) /\ queue[t] # <<>>
        BY <1>0, <2>5 DEF BeginTask, TypeOK
      <4>2. 1 \in Pos(t) /\ Head(queue[t]) = queue[t][1]
        BY <4>1, TailFacts DEF Pos
      <4> QED
        BY <1>0, <2>5, <4>2, TasksTyped
    <3>2. hdl'[t] = HandleOf(queue[t][1].slot) /\ gen' = gen /\ pc'[t] \in {"call", "report"}
      BY <1>0, <2>5, <3>1 DEF BeginTask, TypeOK, Go, slot_vars
    <3> QED
      BY <1>2, <3>1, <3>2 DEF Established, CheckedPCs, HandleOf, slot
  <2> QED
    BY <1>0, <1>2, <2>1, <2>2, <2>3, <2>4, <2>5, EventThreads DEF StepOf, Opens, Gives, Call, Resolve, CheckGeneration, Release,
       PostCancelled, Close, EpollDel, Wakeup, Open, StoreRefs, EpollAdd, Dispatch, Publish, ClaimSide,
       Delivered, PostSide, PushSide, ServedHere, Serve, CallHandler, HandlerReturns, LeaveSide,
       ReportCancelled, ReleaseHeld, FinishEvent, EndTask
<1>3. CASE u = t /\ pc[t] \notin {"idle", "give"}
  <2>1. gen'[slot(t)] = gen[slot(t)] /\ params'[slot(t)] = params[slot(t)]
    BY <1>0, <1>3, SelfKeeps
  <2>2. CASE hdl'[t] = hdl[t]
    <3>0. slot(t)' = slot(t) /\ (Owned(slot(t))' <=> Owned(slot(t)))
      BY <2>1, <2>2 DEF slot, Owned
    <3> USE DEF TypeOK, thread_vars, Go
    <3>1. CASE \E h \in Handles : Cancel(t, h)
      BY <1>0, <1>3, <2>1, <2>2, <3>0, <3>1, EventThreads DEF Cancel, Established, CheckedPCs
    <3>2. CASE CheckGeneration(t)
      BY <1>0, <1>3, <2>1, <2>2, <3>0, <3>2, EventThreads DEF CheckGeneration, SameTenant, Established, CheckedPCs, ThreadOK, UserPCs, DispatcherPCs, QueuePCs
    <3>3. CASE Call(t) /\ ~CheckGeneration(t)
      <4>1. pc'[t] \in CheckedPCs \cup {"store", "add"} => pc[t] = "close" /\ pc'[t] = "del"
        BY <1>0, <3>3, EventThreads DEF Call, Resolve, Release, PostCancelled, Close, EpollDel, Wakeup, Returns, CheckedPCs
      <4>2. t \in Queues => pc[t] \notin {"finish", "leave_work", "end"}
        BY <1>0, <3>3 DEF Call, Resolve, Release, PostCancelled, Close, EpollDel, Wakeup
      <4> QED
        BY <1>0, <1>3, <2>1, <2>2, <3>0, <4>1, <4>2 DEF Established, CheckedPCs
    <3>4. CASE t \in Users /\ Open(t)
      BY <1>0, <1>3, <3>4, EventThreads DEF Open, StoreRefs, EpollAdd, Established, CheckedPCs
    <3>5. CASE t \in Dispatchers /\ Publish(t)
      BY <1>0, <1>3, <2>1, <2>2, <3>0, <3>5, EventThreads DEF Publish, SidesOf, Established, CheckedPCs
    <3>6. CASE t \in Dispatchers /\ ClaimSide(t)
      <4>1. todo[t] \subseteq Sides
        <5>1. pc[t] = "claim"
          BY <3>6 DEF ClaimSide
        <5>2. ~Owned(slot(t)) /\ todo[t] \subseteq params[slot(t)].interest /\ slot(t) \notin free
          BY <1>0, <1>3, <5>1, CheckedIsNamed DEF Established, CheckedPCs, Added
        <5> QED
          BY <1>0, <1>3, <5>2, AppQueues DEF NamesOK
      <4>2. NextSide(t) \in todo[t]
        BY <1>0, <3>6, <4>1, NextSideIsOne DEF ClaimSide
      <4> QED
        BY <1>0, <1>3, <2>1, <2>2, <3>0, <3>6, <4>2, EventThreads DEF ClaimSide, Established, CheckedPCs
    <3>7. CASE t \in Dispatchers /\ Dispatch(t) /\ ~Publish(t) /\ ~ClaimSide(t)
      BY <1>0, <1>3, <2>1, <2>2, <3>0, <3>7, EventThreads DEF Dispatch, Delivered, PostSide, PushSide, ServedHere, Established, CheckedPCs
    <3>8. CASE t \in Queues /\ Serve(t)
      BY <1>0, <1>3, <2>1, <2>2, <3>0, <3>8, EventThreads DEF Serve, BeginTask, CallHandler, HandlerReturns, LeaveSide,
         ReportCancelled, GiveSlot, ReleaseHeld, FinishEvent, EndTask, Established, CheckedPCs
    <3> QED
      BY <1>3, <3>1, <3>2, <3>3, <3>4, <3>5, <3>6, <3>7, <3>8 DEF StepOf, OpenEvent, Notify
  <2>3. CASE hdl'[t] # hdl[t]
    <3>1. pc'[t] = "idle"
      <4> USE DEF TypeOK, thread_vars, Go
      <4>1. CASE \E h \in Handles : Cancel(t, h)
        BY <1>0, <1>3, <2>3, <4>1 DEF Cancel
      <4>2. CASE Call(t)
        BY <1>0, <2>3, <4>2, EventThreads DEF Call, Resolve, CheckGeneration, Release, PostCancelled, Close, EpollDel, Wakeup, Returns
      <4>3. CASE t \in Users /\ Open(t)
        BY <1>0, <2>3, <4>3 DEF Open, StoreRefs, EpollAdd
      <4>4. CASE t \in Dispatchers /\ Dispatch(t)
        BY <1>0, <2>3, <4>4 DEF Dispatch, Publish, ClaimSide, Delivered, PostSide, PushSide, ServedHere
      <4>5. CASE t \in Queues /\ Serve(t)
        BY <1>0, <1>3, <2>3, <4>5 DEF Serve, BeginTask, CallHandler, HandlerReturns, LeaveSide, ReportCancelled,
           GiveSlot, ReleaseHeld, FinishEvent, EndTask
      <4> QED
        BY <1>3, <4>1, <4>2, <4>3, <4>4, <4>5 DEF StepOf, OpenEvent, Notify
    <3> QED
      BY <1>3, <3>1 DEF Established, CheckedPCs
  <2> QED
    BY <2>2, <2>3
<1> QED
  BY <1>1, <1>2, <1>3

LEMMA NamesStep ==
    ASSUME Inv, NEW t \in Threads, StepOf(t), (queue \in [Queues -> Seq(TaskSet)])'
    PROVE  NamesOK'
<1>1. /\ \A s \in Slots : gen'[s] + (IF s \in free' THEN 0 ELSE 1) <= opens' + 1
      /\ \A s \in Slots : s \notin free' => params'[s] \in AcceptedOrOwn
  BY GenBounds
<1>2. /\ \A h \in epoll' : h.gen = gen'[h.slot] /\ Added(h.slot)'
      /\ \A h \in known' : NamedApp(h)'
      /\ \A s \in Slots : s \in closed' /\ s \notin free' => Added(s)' /\ ~Owned(s)'
  BY NamesStepA
<1>3. \A u \in Threads : /\ op'[u] = "dispatch" => Named(hdl[u])'
                         /\ op'[u] = "cancel" => NamedApp(hdl[u])'
  BY NamesStepB
<1>4. \A u \in Threads : Established(u)'
  BY NamesStepC
<1>5. ASSUME NEW q \in Queues, NEW i \in Nat, Unfinished(q, i)'
      PROVE  /\ Added(queue[q][i].slot)'
             /\ params'[queue'[q][i].slot].queues[queue'[q][i].side] = q
  <2>1. queue'[q][i].slot \in Slots
    <3>1. queue'[q] \in Seq(TaskSet) /\ i \in 1..Len(queue'[q])
      BY <1>5 DEF Unfinished, Pos
    <3>2. queue'[q][i] \in TaskSet
      BY <3>1, ElementOfSeq
    <3> QED
      BY <3>2 DEF TaskSet
  <2>2. \A s \in Slots : s = queue'[q][i].slot =>
              Added(s)' /\ params'[s].queues[queue'[q][i].side] = q
    BY <1>5, TaskNamesStep
  <2> QED
    BY <2>1, <2>2 DEF Added
<1> QED
  BY <1>1, <1>2, <1>3, <1>4, <1>5 DEF NamesOK, Established, Threads

-----------------------------------------------------------------------------
(* Types.                                                                  *)
LEMMA QueueTypeStep ==
    ASSUME Inv, NEW t \in Threads, StepOf(t)
    PROVE  queue' \in [Queues -> Seq(TaskSet)]
<1>0. TypeOK /\ HeadOK /\ queue \in [Queues -> Seq(TaskSet)]
  BY DEF Inv, TypeOK
<1>1. CASE \E p, k : Pushes(p, k)
  BY <1>0, <1>1, PushFacts
<1>2. CASE t \in Queues /\ EndTask(t)
  BY <1>0, <1>2, EndFacts
<1> QED
  BY <1>0, <1>1, <1>2, QueueSteps

LEMMA StaysIn ==
    ASSUME NEW S, NEW R, NEW f \in [S -> R], NEW g, NEW t \in S, NEW x,
           g = [f EXCEPT ![t] = x], g[t] \in R
    PROVE  g \in [S -> R]
  OBVIOUS

LEMMA Unaltered ==
    ASSUME NEW S, NEW R, NEW f \in [S -> R], NEW t
    PROVE  \E x : f = [f EXCEPT ![t] = x]
<1>1. f = [f EXCEPT ![t] = f[t]]
  OBVIOUS
<1> QED
  BY <1>1

LEMMA Shapepc ==
    ASSUME TypeOK, NEW t \in Threads, StepOf(t)
    PROVE  (\E x : pc' = [pc EXCEPT ![t] = x]) /\ (\E x : op' = [op EXCEPT ![t] = x])
<1>0. (\E x : pc = [pc EXCEPT ![t] = x]) /\ (\E x : op = [op EXCEPT ![t] = x])
  BY Unaltered DEF TypeOK
<1>1. CASE \E s \in Slots, p \in Params : OpenEvent(t, s, p)
  BY <1>0, <1>1 DEF OpenEvent, Go, thread_vars
<1>2. CASE \E h \in Handles : \E events \in SUBSET (Sides \cup {"hangup"}) : Notify(t, h, events)
  BY <1>0, <1>2 DEF Notify, Go, thread_vars
<1>3. CASE \E h \in Handles : Cancel(t, h)
  BY <1>0, <1>3 DEF Cancel, Go, thread_vars
<1>4. CASE Call(t)
  BY <1>0, <1>4 DEF Call, Resolve, CheckGeneration, Release, PostCancelled, Close, EpollDel, Wakeup, Returns, Go, thread_vars
<1>5. CASE Open(t)
  BY <1>0, <1>5 DEF Open, StoreRefs, EpollAdd, Go, thread_vars
<1>6. CASE Dispatch(t)
  BY <1>0, <1>6 DEF Dispatch, Publish, ClaimSide, Delivered, PostSide, PushSide, ServedHere, Go, thread_vars
<1>7. CASE Serve(t)
  BY <1>0, <1>7 DEF Serve, BeginTask, CallHandler, HandlerReturns, LeaveSide, ReportCancelled,
              GiveSlot, ReleaseHeld, FinishEvent, EndTask, Go, thread_vars
<1> QED
  BY <1>1, <1>2, <1>3, <1>4, <1>5, <1>6, <1>7 DEF StepOf

LEMMA Shapehdl ==
    ASSUME TypeOK, NEW t \in Threads, StepOf(t)
    PROVE  (\E x : hdl' = [hdl EXCEPT ![t] = x]) /\ (\E x : side' = [side EXCEPT ![t] = x]) /\ (\E x : todo' = [todo EXCEPT ![t] = x])
<1>0. (\E x : hdl = [hdl EXCEPT ![t] = x]) /\ (\E x : side = [side EXCEPT ![t] = x]) /\ (\E x : todo = [todo EXCEPT ![t] = x])
  BY Unaltered DEF TypeOK
<1>1. CASE \E s \in Slots, p \in Params : OpenEvent(t, s, p)
  BY <1>0, <1>1 DEF OpenEvent, Go, thread_vars
<1>2. CASE \E h \in Handles : \E events \in SUBSET (Sides \cup {"hangup"}) : Notify(t, h, events)
  BY <1>0, <1>2 DEF Notify, Go, thread_vars
<1>3. CASE \E h \in Handles : Cancel(t, h)
  BY <1>0, <1>3 DEF Cancel, Go, thread_vars
<1>4. CASE Call(t)
  BY <1>0, <1>4 DEF Call, Resolve, CheckGeneration, Release, PostCancelled, Close, EpollDel, Wakeup, Returns, Go, thread_vars
<1>5. CASE Open(t)
  BY <1>0, <1>5 DEF Open, StoreRefs, EpollAdd, Go, thread_vars
<1>6. CASE Dispatch(t)
  BY <1>0, <1>6 DEF Dispatch, Publish, ClaimSide, Delivered, PostSide, PushSide, ServedHere, Go, thread_vars
<1>7. CASE Serve(t)
  BY <1>0, <1>7 DEF Serve, BeginTask, CallHandler, HandlerReturns, LeaveSide, ReportCancelled,
              GiveSlot, ReleaseHeld, FinishEvent, EndTask, Go, thread_vars
<1> QED
  BY <1>1, <1>2, <1>3, <1>4, <1>5, <1>6, <1>7 DEF StepOf

LEMMA Shapedrops ==
    ASSUME TypeOK, NEW t \in Threads, StepOf(t)
    PROVE  (\E x : drops' = [drops EXCEPT ![t] = x]) /\ (\E x : held' = [held EXCEPT ![t] = x])
<1>0. (\E x : drops = [drops EXCEPT ![t] = x]) /\ (\E x : held = [held EXCEPT ![t] = x])
  BY Unaltered DEF TypeOK
<1>1. CASE \E s \in Slots, p \in Params : OpenEvent(t, s, p)
  BY <1>0, <1>1 DEF OpenEvent, Go, thread_vars
<1>2. CASE \E h \in Handles : \E events \in SUBSET (Sides \cup {"hangup"}) : Notify(t, h, events)
  BY <1>0, <1>2 DEF Notify, Go, thread_vars
<1>3. CASE \E h \in Handles : Cancel(t, h)
  BY <1>0, <1>3 DEF Cancel, Go, thread_vars
<1>4. CASE Call(t)
  BY <1>0, <1>4 DEF Call, Resolve, CheckGeneration, Release, PostCancelled, Close, EpollDel, Wakeup, Returns, Go, thread_vars
<1>5. CASE Open(t)
  BY <1>0, <1>5 DEF Open, StoreRefs, EpollAdd, Go, thread_vars
<1>6. CASE Dispatch(t)
  BY <1>0, <1>6 DEF Dispatch, Publish, ClaimSide, Delivered, PostSide, PushSide, ServedHere, Go, thread_vars
<1>7. CASE Serve(t)
  BY <1>0, <1>7 DEF Serve, BeginTask, CallHandler, HandlerReturns, LeaveSide, ReportCancelled,
              GiveSlot, ReleaseHeld, FinishEvent, EndTask, Go, thread_vars
<1> QED
  BY <1>1, <1>2, <1>3, <1>4, <1>5, <1>6, <1>7 DEF StepOf

LEMMA TypeStep ==
    ASSUME Inv, NEW t \in Threads, StepOf(t), refs' \in [Slots -> Nat],
           qrefs' \in [Queues -> Nat], work' \in Nat
    PROVE  TypeOK'
<1>0. TypeOK /\ ControlOK /\ HeadOK /\ NamesOK /\ ThreadOK(t)
  BY DEF Inv, ControlOK
<1>1. gen' \in [Slots -> 1..(MaxOpens + 1)] /\ opens' \in 0..MaxOpens
  BY GenBounds
<1>2. queue' \in [Queues -> Seq(TaskSet)]
  BY QueueTypeStep
<1>3. AnyHandle \in Handles
  <2>1. \E h \in Handles : h.gen = 1
    <3>1. PICK s : s \in Slots
      BY EventBounds
    <3>2. [slot |-> s, gen |-> 1] \in Handles
      BY <3>1, EventBounds DEF Handles
    <3> QED
      BY <3>2
  <2> QED
    BY <2>1 DEF AnyHandle
<1>4. \A s \in Slots : HandleOf(s) \in Handles
  BY <1>0 DEF HandleOf, Handles, TypeOK
<1>5. free' \in SUBSET Slots /\ closed' \in SUBSET Slots
  <2>0. free \in SUBSET Slots /\ closed \in SUBSET Slots /\ slot(t) \in Slots
    BY <1>0, SlotOfThread DEF TypeOK
  <2>1. free' \in SUBSET Slots
    <3>1. CASE \E s \in Slots : Opens(t, s)
      BY <1>0, <2>0, <3>1, OpensEffect DEF Opens
    <3>2. CASE \E s \in Slots : Gives(t, s)
      BY <1>0, <2>0, <3>2, GivesEffect DEF Gives
    <3> QED
      BY <2>0, <3>1, <3>2, SlotSteps
  <2>2. closed' \in SUBSET Slots
    BY <2>0, ClosedSteps
  <2> QED
    BY <2>1, <2>2
<1>6. epoll' \in SUBSET Handles /\ known' \in SUBSET Handles
  <2>1. epoll \in SUBSET Handles /\ known \in SUBSET Handles /\ hdl[t] \in Handles
    BY <1>0 DEF TypeOK
  <2>2. epoll' \in SUBSET Handles
    BY <2>1, EpollSteps
  <2>3. known' \in SUBSET Handles
    BY <2>1, KnownSteps
  <2> QED
    BY <2>2, <2>3
<1>7. pc' \in [Threads -> PCs]
  <2>1. pc'[t] \in PCs
    <3>1. ThreadOK(t)'
      BY <1>0, ControlStep DEF ControlOK
    <3> QED
      BY <3>1 DEF ThreadOK, UserPCs, DispatcherPCs, QueuePCs, PCs, Threads
  <2>2. pc \in [Threads -> PCs]
    BY <1>0 DEF TypeOK
  <2> QED
    BY <1>0, <2>1, <2>2, Shapepc, StaysIn
<1>8. op' \in [Threads -> {"dispatch", "cancel", "side"}]
  <2>1. op'[t] \in {"dispatch", "cancel", "side"}
    BY <1>0, OpSteps DEF TypeOK
  <2>2. op \in [Threads -> {"dispatch", "cancel", "side"}]
    BY <1>0 DEF TypeOK
  <2> QED
    BY <1>0, <2>1, <2>2, Shapepc, StaysIn
<1>9. hdl' \in [Threads -> Handles] /\ side' \in [Threads -> Sides]
  <2>0. hdl'[t] \in Handles /\ side'[t] \in Sides
    <3>1. CASE \E s \in Slots, p \in Params : OpenEvent(t, s, p)
      BY <1>0, <1>3, <1>4, <3>1 DEF OpenEvent, TypeOK, Go, thread_vars, Sides
    <3>2. CASE \E h \in Handles : \E events \in SUBSET (Sides \cup {"hangup"}) : Notify(t, h, events)
      BY <1>0, <1>3, <1>4, <3>2 DEF Notify, TypeOK, Go, thread_vars, Sides
    <3>3. CASE \E h \in Handles : Cancel(t, h)
      BY <1>0, <1>3, <1>4, <3>3 DEF Cancel, TypeOK, Go, thread_vars, Sides
    <3>4. CASE Call(t)
      BY <1>0, <1>3, <1>4, <3>4 DEF Call, Resolve, CheckGeneration, Release, PostCancelled, Close, EpollDel, Wakeup, Returns, TypeOK, Go, thread_vars, Sides
    <3>5. CASE Open(t)
      BY <1>0, <1>3, <1>4, <3>5 DEF Open, StoreRefs, EpollAdd, TypeOK, Go, thread_vars, Sides
    <3>6. CASE Dispatch(t)
      BY <1>0, <3>6 DEF Dispatch, Publish, ClaimSide, Delivered, PostSide, PushSide, ServedHere, NextSide, Sides, TypeOK, thread_vars
    <3>7. CASE t \in Queues /\ Serve(t)
      <4>1. CASE BeginTask(t)
        <5>1. queue[t] \in Seq(TaskSet) /\ queue[t] # <<>>
          BY <1>0, <3>7, <4>1 DEF BeginTask, TypeOK
        <5>2. 1 \in Pos(t) /\ Head(queue[t]) = queue[t][1]
          BY <5>1, TailFacts DEF Pos
        <5>3. queue[t][1].slot \in Slots /\ queue[t][1].side \in Sides
          BY <1>0, <3>7, <5>2, TasksTyped
        <5> QED
          BY <1>0, <1>4, <4>1, <5>2, <5>3 DEF BeginTask, TypeOK
      <4>2. CASE ~BeginTask(t)
        BY <1>0, <1>3, <3>7, <4>2 DEF Serve, CallHandler, HandlerReturns, LeaveSide, ReportCancelled,
                GiveSlot, ReleaseHeld, FinishEvent, EndTask, Sides, TypeOK, thread_vars
      <4> QED
        BY <4>1, <4>2
    <3> QED
      BY <3>1, <3>2, <3>3, <3>4, <3>5, <3>6, <3>7 DEF StepOf
  <2>1. hdl \in [Threads -> Handles] /\ side \in [Threads -> Sides]
    BY <1>0 DEF TypeOK
  <2>2. hdl' \in [Threads -> Handles]
    BY <1>0, <2>0, <2>1, Shapehdl, StaysIn
  <2>3. side' \in [Threads -> Sides]
    BY <1>0, <2>0, <2>1, Shapehdl, StaysIn
  <2> QED
    BY <2>2, <2>3
<1>10. Publish(t) => SidesOf(todo[t], params[slot(t)].interest) \subseteq Sides /\ slot(t) \in Slots
  <2>1. SUFFICES ASSUME Publish(t)
                 PROVE  SidesOf(todo[t], params[slot(t)].interest) \subseteq Sides /\ slot(t) \in Slots
    OBVIOUS
  <2>2. slot(t) \in Slots /\ slot(t) \notin free /\ ~Owned(slot(t))
    BY <1>0, <2>1, CheckedIsNamed DEF Publish, CheckedPCs, Added, NamesOK
  <2>3. params[slot(t)].interest \subseteq Sides
    BY <1>0, <2>2, AppQueues DEF NamesOK
  <2> QED
    BY <2>2, <2>3 DEF SidesOf
<1>11. todo' \in [Threads -> SUBSET (Sides \cup {"hangup"})]
  <2>0. todo'[t] \in SUBSET (Sides \cup {"hangup"})
    <3>1. CASE \E s \in Slots, p \in Params : OpenEvent(t, s, p)
      BY <1>0, <1>10, <3>1 DEF OpenEvent, TypeOK, thread_vars
    <3>2. CASE \E h \in Handles : \E events \in SUBSET (Sides \cup {"hangup"}) : Notify(t, h, events)
      BY <1>0, <1>10, <3>2 DEF Notify, TypeOK, thread_vars
    <3>3. CASE \E h \in Handles : Cancel(t, h)
      BY <1>0, <1>10, <3>3 DEF Cancel, TypeOK, thread_vars
    <3>4. CASE Call(t)
      BY <1>0, <1>10, <3>4 DEF Call, Resolve, CheckGeneration, Release, PostCancelled, Close, EpollDel, Wakeup, Returns, TypeOK, thread_vars
    <3>5. CASE Open(t)
      BY <1>0, <1>10, <3>5 DEF Open, StoreRefs, EpollAdd, TypeOK, thread_vars
    <3>6. CASE Dispatch(t)
      <4>1. CASE Publish(t)
        BY <1>0, <1>10, <3>6, <4>1 DEF Publish, TypeOK, thread_vars
      <4>2. CASE ClaimSide(t)
        BY <1>0, <1>10, <3>6, <4>2 DEF ClaimSide, TypeOK, thread_vars
      <4>3. CASE Delivered(t)
        BY <1>0, <1>10, <3>6, <4>3 DEF Delivered, TypeOK, thread_vars
      <4>4. CASE PostSide(t)
        BY <1>0, <1>10, <3>6, <4>4 DEF PostSide, TypeOK, thread_vars
      <4>5. CASE PushSide(t)
        BY <1>0, <1>10, <3>6, <4>5 DEF PushSide, TypeOK, thread_vars
      <4>6. CASE ServedHere(t)
        BY <1>0, <1>10, <3>6, <4>6 DEF ServedHere, TypeOK, thread_vars
      <4> QED
        BY <1>0, <1>10, <3>6, <4>1, <4>2, <4>3, <4>4, <4>5, <4>6 DEF Dispatch
    <3>7. CASE Serve(t)
      BY <1>0, <1>10, <3>7 DEF Serve, BeginTask, CallHandler, HandlerReturns, LeaveSide, ReportCancelled,
                GiveSlot, ReleaseHeld, FinishEvent, EndTask, TypeOK, thread_vars
    <3> QED
      BY <3>1, <3>2, <3>3, <3>4, <3>5, <3>6, <3>7 DEF StepOf
  <2>1. todo \in [Threads -> SUBSET (Sides \cup {"hangup"})]
    BY <1>0 DEF TypeOK
  <2> QED
    BY <1>0, <2>0, <2>1, Shapehdl, StaysIn
<1>12. drops' \in [Threads -> 0..2]
  <2>0. drops'[t] \in 0..2
    <3>1. CASE \E s \in Slots, p \in Params : OpenEvent(t, s, p)
      BY <1>0, <3>1 DEF OpenEvent, TypeOK, thread_vars, ThreadOK
    <3>2. CASE \E h \in Handles : \E events \in SUBSET (Sides \cup {"hangup"}) : Notify(t, h, events)
      BY <1>0, <3>2 DEF Notify, TypeOK, thread_vars, ThreadOK
    <3>3. CASE \E h \in Handles : Cancel(t, h)
      BY <1>0, <3>3 DEF Cancel, TypeOK, thread_vars, ThreadOK
    <3>4. CASE Call(t)
      BY <1>0, <3>4 DEF Call, Resolve, CheckGeneration, Release, PostCancelled, Close, EpollDel, Wakeup, Returns, TypeOK, thread_vars, ThreadOK
    <3>5. CASE Open(t)
      BY <1>0, <3>5 DEF Open, StoreRefs, EpollAdd, TypeOK, thread_vars, ThreadOK
    <3>6. CASE Dispatch(t)
      BY <1>0, <3>6 DEF Dispatch, Publish, ClaimSide, Delivered, PostSide, PushSide, ServedHere, TypeOK, thread_vars, ThreadOK
    <3>7. CASE Serve(t)
      BY <1>0, <3>7 DEF Serve, BeginTask, CallHandler, HandlerReturns, LeaveSide, ReportCancelled,
                GiveSlot, ReleaseHeld, FinishEvent, EndTask, TypeOK, thread_vars, ThreadOK
    <3> QED
      BY <3>1, <3>2, <3>3, <3>4, <3>5, <3>6, <3>7 DEF StepOf
  <2>1. drops \in [Threads -> 0..2]
    BY <1>0 DEF TypeOK
  <2> QED
    BY <1>0, <2>0, <2>1, Shapedrops, StaysIn
<1>13. held' \in [Threads -> [Sides -> Queues \cup {NoQueue}]]
  <2>1. held \in [Threads -> [Sides -> Queues \cup {NoQueue}]]
    BY <1>0 DEF TypeOK
  <2>2. held'[t] \in [Sides -> Queues \cup {NoQueue}]
    <3>1. CASE t \in Queues /\ GiveSlot(t)
      <4>1. slot(t) \in Slots /\ slot(t) \notin free /\ ~Owned(slot(t))
        BY <1>0, <3>1, ServedIsNamed, SlotOfThread DEF GiveSlot, Added
      <4>2. params[slot(t)] \in Accepted
        BY <1>0, <4>1, AppQueues DEF NamesOK
      <4>3. params[slot(t)].queues \in [Sides -> Queues \cup {NoQueue}]
        BY <4>2 DEF Accepted
      <4> QED
        BY <2>1, <3>1, <4>3 DEF GiveSlot
    <3>3. CASE t \in Queues /\ ReleaseHeld(t)
      BY <1>0, <3>3, ReleaseEffect
    <3>2. CASE ~(t \in Queues /\ GiveSlot(t)) /\ ~(t \in Queues /\ ReleaseHeld(t))
      <4>1. ThreadOK(t)'
        BY <1>0, ControlStep DEF ControlOK
      <4>2. pc'[t] # "finish"
        <5>1. CASE \E s \in Slots, p \in Params : OpenEvent(t, s, p)
          BY <1>0, <3>2, <5>1 DEF OpenEvent, TypeOK, Go
        <5>2. CASE \E h \in Handles : \E events \in SUBSET (Sides \cup {"hangup"}) : Notify(t, h, events)
          BY <1>0, <3>2, <5>2 DEF Notify, TypeOK, Go
        <5>3. CASE \E h \in Handles : Cancel(t, h)
          BY <1>0, <3>2, <5>3 DEF Cancel, TypeOK, Go
        <5>4. CASE Call(t)
          BY <1>0, <3>2, <5>4 DEF Call, Resolve, CheckGeneration, Release, PostCancelled, Close, EpollDel, Wakeup, Returns, TypeOK, Go
        <5>5. CASE Open(t)
          BY <1>0, <3>2, <5>5 DEF Open, StoreRefs, EpollAdd, TypeOK, Go
        <5>6. CASE Dispatch(t)
          BY <1>0, <3>2, <5>6 DEF Dispatch, Publish, ClaimSide, Delivered, PostSide, PushSide, ServedHere, TypeOK, Go
        <5>7. CASE t \in Queues /\ Serve(t)
          BY <1>0, <3>2, <5>7 DEF Serve, BeginTask, CallHandler, HandlerReturns, LeaveSide, ReportCancelled,
             FinishEvent, EndTask, TypeOK, Go
        <5> QED
          BY <5>1, <5>2, <5>3, <5>4, <5>5, <5>6, <5>7 DEF StepOf
      <4> QED
        BY <4>1, <4>2 DEF ThreadOK, NoQueues
    <3> QED
      BY <3>1, <3>2, <3>3
  <2> QED
    BY <1>0, <2>1, <2>2, Shapedrops, StaysIn
<1>14. params' \in [Slots -> Params \cup {NoParams}]
  <2>1. params \in [Slots -> Params \cup {NoParams}]
    BY <1>0 DEF TypeOK
  <2>2. CASE \E s \in Slots : Opens(t, s)
    BY <2>1, <2>2 DEF Opens, OpenEvent
  <2>3. CASE \E s \in Slots : Gives(t, s)
    BY <1>0, <2>1, <2>3, GivesEffect DEF Gives
  <2> QED
    BY <2>1, <2>2, <2>3, SlotSteps
<1>15. notes' \in 0..MaxNotify
  <2>1. notes \in 0..MaxNotify
    BY <1>0 DEF TypeOK
  <2>2. CASE \E s \in Slots, p \in Params : OpenEvent(t, s, p)
    BY <2>1, <2>2 DEF OpenEvent, kernel_vars
  <2>3. CASE \E h \in Handles : \E events \in SUBSET (Sides \cup {"hangup"}) : Notify(t, h, events)
    BY <2>1, <2>3, EventBounds DEF Notify, kernel_vars
  <2>4. CASE \E h \in Handles : Cancel(t, h)
    BY <2>1, <2>4 DEF Cancel, kernel_vars
  <2>5. CASE Call(t)
    BY <2>1, <2>5 DEF Call, Resolve, CheckGeneration, Release, PostCancelled, Close, EpollDel, Wakeup, Returns, kernel_vars
  <2>6. CASE Open(t)
    BY <2>1, <2>6 DEF Open, StoreRefs, EpollAdd, kernel_vars
  <2>7. CASE Dispatch(t)
    BY <2>1, <2>7 DEF Dispatch, Publish, ClaimSide, Delivered, PostSide, PushSide, ServedHere, kernel_vars
  <2>8. CASE Serve(t)
    BY <2>1, <2>8 DEF Serve, BeginTask, CallHandler, HandlerReturns, LeaveSide, ReportCancelled,
              GiveSlot, ReleaseHeld, FinishEvent, EndTask, kernel_vars
  <2> QED
    BY <2>2, <2>3, <2>4, <2>5, <2>6, <2>7, <2>8 DEF StepOf
<1>16. cancelled' \in SUBSET Handles
  <2>1. cancelled \in SUBSET Handles /\ hdl[t] \in Handles
    BY <1>0 DEF TypeOK
  <2>2. CASE \E s \in Slots, p \in Params : OpenEvent(t, s, p)
    BY <2>1, <2>2 DEF OpenEvent, ghost_vars
  <2>3. CASE \E h \in Handles : \E events \in SUBSET (Sides \cup {"hangup"}) : Notify(t, h, events)
    BY <2>1, <2>3 DEF Notify, ghost_vars
  <2>4. CASE \E h \in Handles : Cancel(t, h)
    BY <2>1, <2>4 DEF Cancel, ghost_vars
  <2>5. CASE Call(t)
    BY <2>1, <2>5 DEF Call, Resolve, CheckGeneration, Release, PostCancelled, Close, EpollDel, Wakeup, Returns, ghost_vars
  <2>6. CASE Open(t)
    BY <2>1, <2>6 DEF Open, StoreRefs, EpollAdd, ghost_vars
  <2>7. CASE Dispatch(t)
    BY <2>1, <2>7 DEF Dispatch, Publish, ClaimSide, Delivered, PostSide, PushSide, ServedHere, ghost_vars
  <2>8. CASE Serve(t)
    BY <2>1, <2>8 DEF Serve, BeginTask, CallHandler, HandlerReturns, LeaveSide, ReportCancelled,
              GiveSlot, ReleaseHeld, FinishEvent, EndTask, ghost_vars
  <2> QED
    BY <2>2, <2>3, <2>4, <2>5, <2>6, <2>7, <2>8 DEF StepOf
<1>17. ready' \in [Slots -> SUBSET Sides]
  <2>1. ready \in [Slots -> SUBSET Sides] /\ side[t] \in Sides /\ slot(t) \in Slots
    BY <1>0, SlotOfThread DEF TypeOK
  <2>2. CASE \E s \in Slots, p \in Params : OpenEvent(t, s, p)
    BY <2>1, <1>10, <2>2 DEF OpenEvent, state_vars
  <2>3. CASE \E h \in Handles : \E events \in SUBSET (Sides \cup {"hangup"}) : Notify(t, h, events)
    BY <2>1, <1>10, <2>3 DEF Notify, state_vars
  <2>4. CASE \E h \in Handles : Cancel(t, h)
    BY <2>1, <1>10, <2>4 DEF Cancel, state_vars
  <2>5. CASE Call(t)
    BY <2>1, <1>10, <2>5 DEF Call, Resolve, CheckGeneration, Release, PostCancelled, Close, EpollDel, Wakeup, Returns, state_vars
  <2>6. CASE Open(t)
    BY <2>1, <1>10, <2>6 DEF Open, StoreRefs, EpollAdd, state_vars
  <2>7. CASE Dispatch(t)
    <3>1. CASE ClaimSide(t)
      BY <2>1, <3>1 DEF ClaimSide
    <3>2. CASE ~ClaimSide(t)
      BY <2>1, <1>10, <2>7, <3>2 DEF Dispatch, Publish, Delivered, PostSide, PushSide, ServedHere, state_vars
    <3> QED
      BY <3>1, <3>2
  <2>8. CASE Serve(t)
    BY <2>1, <1>10, <2>8 DEF Serve, BeginTask, CallHandler, HandlerReturns, LeaveSide, ReportCancelled,
              GiveSlot, ReleaseHeld, FinishEvent, EndTask, state_vars
  <2> QED
    BY <2>2, <2>3, <2>4, <2>5, <2>6, <2>7, <2>8 DEF StepOf
<1>18. busy' \in [Slots -> SUBSET Sides]
  <2>1. busy \in [Slots -> SUBSET Sides] /\ side[t] \in Sides /\ slot(t) \in Slots
    BY <1>0, SlotOfThread DEF TypeOK
  <2>2. CASE \E s \in Slots, p \in Params : OpenEvent(t, s, p)
    BY <2>1, <2>2 DEF OpenEvent, state_vars
  <2>3. CASE \E h \in Handles : \E events \in SUBSET (Sides \cup {"hangup"}) : Notify(t, h, events)
    BY <2>1, <2>3 DEF Notify, state_vars
  <2>4. CASE \E h \in Handles : Cancel(t, h)
    BY <2>1, <2>4 DEF Cancel, state_vars
  <2>5. CASE Call(t)
    <3>1. CASE Resolve(t)
      BY <2>1, <2>5, <3>1 DEF Resolve, Returns, state_vars
    <3>2. CASE CheckGeneration(t)
      BY <2>1, <2>5, <3>2 DEF CheckGeneration, Returns, state_vars
    <3>3. CASE Release(t)
      BY <2>1, <2>5, <3>3 DEF Release, Returns, state_vars
    <3>4. CASE PostCancelled(t)
      BY <2>1, <2>5, <3>4 DEF PostCancelled, Returns, state_vars
    <3>5. CASE Close(t)
      BY <2>1, <2>5, <3>5 DEF Close, Returns, state_vars
    <3>6. CASE EpollDel(t)
      BY <2>1, <2>5, <3>6 DEF EpollDel, Returns, state_vars
    <3>7. CASE Wakeup(t)
      BY <2>1, <2>5, <3>7 DEF Wakeup, Returns, state_vars
    <3> QED
      BY <2>1, <2>5, <3>1, <3>2, <3>3, <3>4, <3>5, <3>6, <3>7 DEF Call
  <2>6. CASE Open(t)
    BY <2>1, <2>6 DEF Open, StoreRefs, EpollAdd, state_vars
  <2>7. CASE Dispatch(t)
    <3>1. CASE Publish(t)
      BY <2>1, <2>7, <3>1 DEF Publish, state_vars, NextSide, Sides
    <3>2. CASE ClaimSide(t)
      BY <2>1, <2>7, <3>2 DEF ClaimSide, state_vars, NextSide, Sides
    <3>3. CASE Delivered(t)
      BY <2>1, <2>7, <3>3 DEF Delivered, state_vars, NextSide, Sides
    <3>4. CASE PostSide(t)
      BY <2>1, <2>7, <3>4 DEF PostSide, state_vars, NextSide, Sides
    <3>5. CASE PushSide(t)
      BY <2>1, <2>7, <3>5 DEF PushSide, state_vars, NextSide, Sides
    <3>6. CASE ServedHere(t)
      BY <2>1, <2>7, <3>6 DEF ServedHere, state_vars, NextSide, Sides
    <3> QED
      BY <2>1, <2>7, <3>1, <3>2, <3>3, <3>4, <3>5, <3>6 DEF Dispatch
  <2>8. CASE Serve(t)
    BY <2>1, <2>8 DEF Serve, BeginTask, CallHandler, HandlerReturns, LeaveSide, ReportCancelled,
              GiveSlot, ReleaseHeld, FinishEvent, EndTask, state_vars
  <2> QED
    BY <2>2, <2>3, <2>4, <2>5, <2>6, <2>7, <2>8 DEF StepOf
<1>19. owed' \in [Slots -> SUBSET Sides]
  <2>1. owed \in [Slots -> SUBSET Sides] /\ side[t] \in Sides /\ slot(t) \in Slots
    BY <1>0, SlotOfThread DEF TypeOK
  <2>2. CASE \E s \in Slots, p \in Params : OpenEvent(t, s, p)
    BY <2>1, <1>10, <2>2 DEF OpenEvent, ghost_vars
  <2>3. CASE \E h \in Handles : \E events \in SUBSET (Sides \cup {"hangup"}) : Notify(t, h, events)
    BY <2>1, <1>10, <2>3 DEF Notify, ghost_vars
  <2>4. CASE \E h \in Handles : Cancel(t, h)
    BY <2>1, <1>10, <2>4 DEF Cancel, ghost_vars
  <2>5. CASE Call(t)
    BY <2>1, <1>10, <2>5 DEF Call, Resolve, CheckGeneration, Release, PostCancelled, Close, EpollDel, Wakeup, Returns, ghost_vars
  <2>6. CASE Open(t)
    BY <2>1, <1>10, <2>6 DEF Open, StoreRefs, EpollAdd, ghost_vars
  <2>7. CASE Dispatch(t)
    BY <2>1, <1>10, <2>7 DEF Dispatch, Publish, ClaimSide, Delivered, PostSide, PushSide, ServedHere, ghost_vars
  <2>8. CASE Serve(t)
    BY <2>1, <1>10, <2>8 DEF Serve, BeginTask, CallHandler, HandlerReturns, LeaveSide, ReportCancelled,
              GiveSlot, ReleaseHeld, FinishEvent, EndTask, ghost_vars
  <2> QED
    BY <2>2, <2>3, <2>4, <2>5, <2>6, <2>7, <2>8 DEF StepOf
<1>20. reported' \in [Slots -> Seq(Sides)]
  <2>1. reported \in [Slots -> Seq(Sides)] /\ side[t] \in Sides /\ slot(t) \in Slots
    BY <1>0, SlotOfThread DEF TypeOK
  <2>2. CASE \E s \in Slots, p \in Params : OpenEvent(t, s, p)
    BY <2>1, <2>2 DEF OpenEvent, ghost_vars
  <2>3. CASE \E h \in Handles : \E events \in SUBSET (Sides \cup {"hangup"}) : Notify(t, h, events)
    BY <2>1, <2>3 DEF Notify, ghost_vars
  <2>4. CASE \E h \in Handles : Cancel(t, h)
    BY <2>1, <2>4 DEF Cancel, ghost_vars
  <2>5. CASE Call(t)
    BY <2>1, <2>5 DEF Call, Resolve, CheckGeneration, Release, PostCancelled, Close, EpollDel, Wakeup, Returns, ghost_vars
  <2>6. CASE Open(t)
    BY <2>1, <2>6 DEF Open, StoreRefs, EpollAdd, ghost_vars
  <2>7. CASE Dispatch(t)
    BY <2>1, <2>7 DEF Dispatch, Publish, ClaimSide, Delivered, PostSide, PushSide, ServedHere, ghost_vars
  <2>8. CASE Serve(t)
    <3>1. CASE ReportCancelled(t)
      <4>1. reported[slot(t)] \in Seq(Sides)
        BY <2>1
      <4>2. Append(reported[slot(t)], side[t]) \in Seq(Sides)
        BY <2>1, <4>1, AppendProperties
      <4> QED
        BY <2>1, <3>1, <4>2 DEF ReportCancelled
    <3>2. CASE ~ReportCancelled(t)
      BY <2>1, <2>8, <3>2 DEF Serve, BeginTask, CallHandler, HandlerReturns, LeaveSide,
              GiveSlot, ReleaseHeld, FinishEvent, EndTask, ghost_vars
    <3> QED
      BY <3>1, <3>2
  <2> QED
    BY <2>2, <2>3, <2>4, <2>5, <2>6, <2>7, <2>8 DEF StepOf
<1> QED
  BY <1>1, <1>2, <1>5, <1>6, <1>7, <1>8, <1>9, <1>11, <1>12, <1>13, <1>14, <1>15, <1>16, <1>17,
     <1>18, <1>19, <1>20 DEF TypeOK

-----------------------------------------------------------------------------
(* Sets that differ at most by one element.                                *)
LEMMA CountStep ==
    ASSUME NEW S, NEW T, NEW x, IsFiniteSet(S), \A y : y # x => (y \in S <=> y \in T)
    PROVE  /\ IsFiniteSet(T) /\ Cardinality(S) \in Nat /\ Cardinality(T) \in Nat
           /\ Cardinality(T) = Cardinality(S) + (IF x \in T THEN 1 ELSE 0)
                                 - (IF x \in S THEN 1 ELSE 0)
<1>1. IsFiniteSet(S \ {x}) /\ IsFiniteSet(S \cup {x})
  BY FS_RemoveElement, FS_AddElement
<1>2. Cardinality(S) \in Nat
  BY FS_CardinalityType
<1>3. CASE x \in T
  <2>1. T = S \cup {x}
    BY <1>3
  <2>2. Cardinality(T) = IF x \in S THEN Cardinality(S) ELSE Cardinality(S) + 1
    BY <2>1, FS_AddElement
  <2> QED
    BY <1>1, <1>2, <1>3, <2>1, <2>2
<1>4. CASE x \notin T
  <2>1. T = S \ {x}
    BY <1>4
  <2>2. Cardinality(T) = IF x \in S THEN Cardinality(S) - 1 ELSE Cardinality(S)
    BY <2>1, FS_RemoveElement
  <2>3. Cardinality(T) \in Nat
    BY <1>1, <2>1, FS_CardinalityType
  <2> QED
    BY <1>1, <1>2, <1>4, <2>1, <2>2, <2>3
<1> QED
  BY <1>3, <1>4

(* The count of an event before and after a step of thread t, which        *)
(* changes at most what t holds and what the task at place x holds.        *)
LEMMA RefsSplit ==
    ASSUME TypeOK, RefsOK, NEW t \in Threads, StepOf(t), NEW s \in Slots, NEW x,
           \A y : y # x => (y \in Tasks(s) <=> y \in Tasks(s)'),
           refs'[s] - refs[s] =
               (IF Started(s)' THEN 1 ELSE 0) - (IF Started(s) THEN 1 ELSE 0)
               + (IF slot(t)' = s /\ Closing(t)' THEN 1 ELSE 0)
               - (IF slot(t) = s /\ Closing(t) THEN 1 ELSE 0)
               + (IF slot(t)' = s /\ Calling(t)' THEN 1 ELSE 0)
               - (IF slot(t) = s /\ Calling(t) THEN 1 ELSE 0)
               + (IF slot(t)' = s /\ pc'[t] = "push" THEN 1 ELSE 0)
               - (IF slot(t) = s /\ pc[t] = "push" THEN 1 ELSE 0)
               + (IF x \in Tasks(s)' THEN 1 ELSE 0) - (IF x \in Tasks(s) THEN 1 ELSE 0),
           refs'[s] \in Int
    PROVE  /\ IsFiniteSet(Closers(s))' /\ IsFiniteSet(Callers(s))'
           /\ IsFiniteSet(Posters(s))' /\ IsFiniteSet(Tasks(s))'
           /\ refs'[s] = Cardinality(Starts(s))' + Cardinality(Closers(s))'
                       + Cardinality(Callers(s))' + Cardinality(Posters(s))'
                       + Cardinality(Tasks(s))'
<1>0. \A u \in Threads : u # t => Still(u)
  BY OthersStill
<1>1. /\ IsFiniteSet(Closers(s)) /\ IsFiniteSet(Callers(s))
      /\ IsFiniteSet(Posters(s)) /\ IsFiniteSet(Tasks(s))
      /\ refs[s] = Cardinality(Starts(s)) + Cardinality(Closers(s))
                       + Cardinality(Callers(s)) + Cardinality(Posters(s))
                       + Cardinality(Tasks(s))
  BY DEF RefsOK
<1>2. /\ Cardinality(Starts(s)) = IF Started(s) THEN 1 ELSE 0
      /\ Cardinality(Starts(s))' = IF Started(s)' THEN 1 ELSE 0
  <2>1. Starts(s) = IF Started(s) THEN {s} ELSE {}
    BY DEF Starts
  <2>2. Starts(s)' = IF Started(s)' THEN {s} ELSE {}
    BY DEF Starts
  <2> QED
    BY <2>1, <2>2, FS_Singleton, FS_EmptySet
<1>3. \A y : y # t => (y \in Closers(s) <=> y \in Closers(s)')
  BY <1>0 DEF Closers, Closing, Still, slot
<1>4. \A y : y # t => (y \in Callers(s) <=> y \in Callers(s)')
  BY <1>0 DEF Callers, Calling, Still, slot
<1>5. \A y : y # t => (y \in Posters(s) <=> y \in Posters(s)')
  BY <1>0 DEF Posters, Still, slot
<1>6. /\ t \in Closers(s) <=> slot(t) = s /\ Closing(t)
      /\ t \in Closers(s)' <=> slot(t)' = s /\ Closing(t)'
  BY DEF Closers
<1>7. /\ t \in Callers(s) <=> slot(t) = s /\ Calling(t)
      /\ t \in Callers(s)' <=> slot(t)' = s /\ Calling(t)'
  BY DEF Callers
<1>8. /\ t \in Posters(s) <=> slot(t) = s /\ pc[t] = "push"
      /\ t \in Posters(s)' <=> slot(t)' = s /\ pc'[t] = "push"
  BY DEF Posters
<1>11. /\ IsFiniteSet(Closers(s)') /\ Cardinality(Closers(s)) \in Nat /\ Cardinality(Closers(s)') \in Nat
       /\ Cardinality(Closers(s)') = Cardinality(Closers(s))
             + (IF slot(t)' = s /\ Closing(t)' THEN 1 ELSE 0)
             - (IF slot(t) = s /\ Closing(t) THEN 1 ELSE 0)
  BY <1>1, <1>3, <1>6, CountStep
<1>12. /\ IsFiniteSet(Callers(s)') /\ Cardinality(Callers(s)) \in Nat /\ Cardinality(Callers(s)') \in Nat
       /\ Cardinality(Callers(s)') = Cardinality(Callers(s))
             + (IF slot(t)' = s /\ Calling(t)' THEN 1 ELSE 0)
             - (IF slot(t) = s /\ Calling(t) THEN 1 ELSE 0)
  BY <1>1, <1>4, <1>7, CountStep
<1>13. /\ IsFiniteSet(Posters(s)') /\ Cardinality(Posters(s)) \in Nat /\ Cardinality(Posters(s)') \in Nat
       /\ Cardinality(Posters(s)') = Cardinality(Posters(s))
             + (IF slot(t)' = s /\ pc'[t] = "push" THEN 1 ELSE 0)
             - (IF slot(t) = s /\ pc[t] = "push" THEN 1 ELSE 0)
  BY <1>1, <1>5, <1>8, CountStep
<1>14. /\ IsFiniteSet(Tasks(s)') /\ Cardinality(Tasks(s)) \in Nat /\ Cardinality(Tasks(s)') \in Nat
       /\ Cardinality(Tasks(s)') = Cardinality(Tasks(s))
             + (IF x \in Tasks(s)' THEN 1 ELSE 0) - (IF x \in Tasks(s) THEN 1 ELSE 0)
  BY <1>1, CountStep
<1>15. Cardinality(Starts(s)) \in Nat /\ Cardinality(Starts(s))' \in Nat
  BY <1>2
<1>16. refs[s] \in Nat
  BY DEF TypeOK
<1> DEFINE a == Cardinality(Starts(s))
           a2 == Cardinality(Starts(s))'
           b == Cardinality(Closers(s))
           b2 == Cardinality(Closers(s)')
           c == Cardinality(Callers(s))
           c2 == Cardinality(Callers(s)')
           d == Cardinality(Posters(s))
           d2 == Cardinality(Posters(s)')
           e == Cardinality(Tasks(s))
           e2 == Cardinality(Tasks(s)')
<1>17. refs'[s] - refs[s] = (a2 - a) + (b2 - b) + (c2 - c) + (d2 - d) + (e2 - e)
  BY <1>2, <1>11, <1>12, <1>13, <1>14
<1>18. /\ refs[s] = a + b + c + d + e
       /\ a \in Nat /\ b \in Nat /\ c \in Nat /\ d \in Nat /\ e \in Nat
       /\ a2 \in Nat /\ b2 \in Nat /\ c2 \in Nat /\ d2 \in Nat /\ e2 \in Nat
  BY <1>1, <1>11, <1>12, <1>13, <1>14, <1>15
<1> HIDE DEF a, a2, b, b2, c, c2, d, d2, e, e2
<1>19. refs'[s] = a2 + b2 + c2 + d2 + e2
  BY <1>16, <1>17, <1>18
<1> QED
  BY <1>11, <1>12, <1>13, <1>14, <1>19 DEF a2, b2, c2, d2, e2

(* Steps of a thread that is not starting an event.                        *)
LEMMA StoreSteps ==
    ASSUME TypeOK, NEW t \in Threads, StepOf(t), pc[t] = "store" \/ pc'[t] = "store"
    PROVE  \/ t \in Users /\ StoreRefs(t) /\ pc[t] = "store" /\ pc'[t] = "add"
           \/ \E s \in Slots : Opens(t, s)
<1> USE DEF TypeOK, Go, thread_vars
<1>1. CASE \E s \in Slots, p \in Params : t \in Users /\ OpenEvent(t, s, p)
  BY <1>1 DEF Opens
<1>2. CASE \E h \in Handles : \E events \in SUBSET (Sides \cup {"hangup"}) : Notify(t, h, events)
  BY <1>2 DEF Notify
<1>3. CASE \E h \in Handles : Cancel(t, h)
  BY <1>3 DEF Cancel
<1>4. CASE Call(t)
  BY <1>4 DEF Call, Resolve, CheckGeneration, Release, PostCancelled, Close, EpollDel, Wakeup, Returns
<1>5. CASE t \in Users /\ Open(t)
  BY <1>5 DEF Open, StoreRefs, EpollAdd
<1>6. CASE Dispatch(t)
  BY <1>6 DEF Dispatch, Publish, ClaimSide, Delivered, PostSide, PushSide, ServedHere
<1>7. CASE Serve(t)
  BY <1>7 DEF Serve, BeginTask, CallHandler, HandlerReturns, LeaveSide, ReportCancelled,
              GiveSlot, ReleaseHeld, FinishEvent, EndTask
<1> QED
  BY <1>1, <1>2, <1>3, <1>4, <1>5, <1>6, <1>7 DEF StepOf

(* The reference of ntt_event_start comes with the store and goes to       *)
(* whoever sets CLOSED.                                                    *)
LEMMA StartedSteps ==
    ASSUME Inv, NEW t \in Threads, StepOf(t), NEW s \in Slots
    PROVE  \/ /\ Started(s)' <=> Started(s)
              /\ ~(t \in Users /\ StoreRefs(t) /\ slot(t) = s) /\ ~(Close(t) /\ slot(t) = s)
           \/ t \in Users /\ StoreRefs(t) /\ slot(t) = s /\ ~Started(s) /\ Started(s)'
           \/ Close(t) /\ slot(t) = s /\ ~Started(s)' /\ (Started(s) <=> s \notin closed)
<1>0. TypeOK /\ ControlOK /\ NamesOK /\ OpenOK
  BY DEF Inv
<1>1. \A u \in Threads : u # t => Still(u)
  BY <1>0, OthersStill
<1>2. CASE t \in Users /\ StoreRefs(t) /\ slot(t) = s
  <2>1. /\ pc[t] = "store" /\ pc'[t] = "add" /\ UNCHANGED <<free, closed, hdl>>
    BY <1>0, <1>2 DEF StoreRefs, TypeOK, Go, slot_vars, state_vars
  <2>2. s \notin free /\ s \notin closed
    BY <1>2, <2>1, <1>0 DEF OpenOK
  <2>3. \A u \in Users : u # t => ~(pc[u] = "store" /\ slot(u) = s)
    BY <1>2, <2>1, <1>0 DEF OpenOK
  <2>4. Started(s)'
    BY <2>1, <2>2, <2>3, <1>1 DEF Started, Still, slot, Threads
  <2>5. ~Started(s)
    BY <1>2, <2>1 DEF Started
  <2> QED
    BY <1>2, <2>4, <2>5
<1>3. CASE Close(t) /\ slot(t) = s
  <2>1. pc[t] = "close" /\ s \in closed'
    BY <1>3 DEF Close
  <2>2. Added(s)
    BY <1>0, <1>3, <2>1, CheckedIsNamed DEF CheckedPCs
  <2> QED
    BY <1>3, <2>1, <2>2 DEF Added, Opening, Started
<1>4. CASE Opens(t, s)
  <2>0. t \in Users
    BY <1>4 DEF Opens
  <2>1. s \in free /\ pc'[t] = "store" /\ hdl'[t] = HandleOf(s)
    BY <1>0, <1>4, <2>0, OpensEffect
  <2>2. ~Started(s) /\ ~Started(s)'
    BY <2>0, <2>1 DEF Started, slot, HandleOf
  <2>3. pc[t] = "idle"
    BY <1>0, <1>4, <2>0, OpensEffect
  <2> QED
    BY <2>2, <2>3 DEF StoreRefs, Close
<1>5. CASE Gives(t, s)
  <2>0. t \in Queues
    BY <1>5 DEF Gives
  <2>1. /\ s \in closed /\ closed' = closed /\ pc[t] = "give"
    BY <1>0, <1>5, <2>0, NobodyLeft, GivesEffect DEF Gone
  <2> QED
    BY <2>1 DEF Started, StoreRefs, Close
<1>6. CASE /\ ~(t \in Users /\ StoreRefs(t) /\ slot(t) = s) /\ ~(Close(t) /\ slot(t) = s)
           /\ ~Opens(t, s) /\ ~Gives(t, s)
  <2>1. s \in free' <=> s \in free
    BY <1>0, <1>6, SlotSteps, OpensEffect, GivesEffect DEF Opens, Gives
  <2>2. s \in closed' <=> s \in closed
    BY <1>6, ClosedSteps
  <2>3. \A u \in Users : (pc[u] = "store" /\ slot(u) = s) <=> (pc'[u] = "store" /\ slot(u)' = s)
    <3> SUFFICES ASSUME NEW u \in Users
                 PROVE  (pc[u] = "store" /\ slot(u) = s) <=> (pc'[u] = "store" /\ slot(u)' = s)
      OBVIOUS
    <3>1. CASE u # t
      BY <3>1, <1>1 DEF Still, slot, Threads
    <3>2. CASE u = t /\ \E r \in Slots : Opens(t, r)
      <4>1. PICK r \in Slots : Opens(t, r)
        BY <3>2
      <4>2. t \in Users /\ r # s
        BY <4>1, <1>6 DEF Opens
      <4>3. pc[t] = "idle" /\ hdl'[t] = HandleOf(r)
        BY <1>0, <4>1, <4>2, OpensEffect
      <4> QED
        BY <3>2, <4>2, <4>3 DEF slot, HandleOf
    <3>3. CASE u = t /\ ~\E r \in Slots : Opens(t, r)
      <4>1. CASE pc[t] = "store" \/ pc'[t] = "store"
        BY <1>0, <1>6, <3>3, <4>1, StoreSteps
      <4> QED
        BY <3>3, <4>1
    <3> QED
      BY <3>1, <3>2, <3>3
  <2> QED
    BY <1>6, <2>1, <2>2, <2>3 DEF Started
<1> QED
  BY <1>2, <1>3, <1>4, <1>5, <1>6

(* Steps that neither add a side task nor take one away.                   *)
LEMMA TasksAgree ==
    ASSUME Inv, NEW t \in Threads, StepOf(t), NEW s \in Slots,
           ~(t \in Dispatchers /\ PushSide(t)), ~(t \in Queues /\ EndTask(t))
    PROVE  /\ \A y : y # <<t, 1>> => (y \in Tasks(s) <=> y \in Tasks(s)')
           /\ <<t, 1>> \in Tasks(s) <=> t \in Queues /\ Holding(t, 1, s)
           /\ <<t, 1>> \in Tasks(s)' <=> t \in Queues /\ Holding(t, 1, s)'
<1>0. TypeOK /\ HeadOK /\ ControlOK /\ NamesOK /\ LastOK
  BY DEF Inv
<1>1. \A u \in Threads : u # t => Still(u)
  BY <1>0, OthersStill
<1>2. ASSUME NEW q \in Queues, NEW i \in Nat, <<q, i>> # <<t, 1>>
      PROVE  Holding(q, i, s) <=> Holding(q, i, s)'
  <2>1. i = 1 => (LeftEvent(q) <=> LeftEvent(q)')
    BY <1>1, <1>2 DEF LeftEvent, Still, Threads
  <2>2. CASE UNCHANGED queue
    BY <2>1, <2>2 DEF Holding, Pos
  <2>3. CASE \E p, k : Pushes(p, k) /\ k.kind # "side"
    <3>1. PICK p, k : Pushes(p, k) /\ k.kind # "side"
      BY <2>3
    <3>2. /\ (i \in Pos(q))' <=> i \in Pos(q) \/ (q = p /\ i = Len(queue[p]) + 1)
          /\ i \in Pos(q) => queue'[q][i] = queue[q][i]
          /\ queue'[p][Len(queue[p]) + 1] = k
      BY <1>0, <3>1, PushFacts
    <3> QED
      BY <2>1, <3>1, <3>2 DEF Holding
  <2>4. UNCHANGED queue \/ \E p, k : Pushes(p, k) /\ k.kind # "side"
    <3>0. \A r, d : Task("cancelled", r, d).kind # "side"
      BY DEF Task
    <3>1. CASE PostCancelled(t)
      <4>1. Pushes(params[slot(t)].queues[FirstReport(slot(t))],
                   Task("cancelled", slot(t), FirstReport(slot(t))))
        BY <1>0, <3>1, PostCancelledPushes
      <4> QED
        BY <3>0, <4>1
    <3>2. CASE t \in Queues /\ ReportCancelled(t)
      <4>1. \/ UNCHANGED queue
            \/ Pushes(params[slot(t)].queues["readable"],
                      Task("cancelled", slot(t), "readable"))
        BY <1>0, <3>2, ReportPushes
      <4> QED
        BY <3>0, <4>1
    <3> QED
      BY <3>1, <3>2, QueuesStay DEF Pushing
  <2> QED
    BY <2>2, <2>3, <2>4
<1>3. \A y : y # <<t, 1>> => (y \in Tasks(s) <=> y \in Tasks(s)')
  BY <1>2 DEF Tasks
<1> QED
  BY <1>3 DEF Tasks

(* The reference of the task that a queue runs.                            *)
LEMMA HeadHolding ==
    ASSUME HeadOK, NEW q \in Queues, pc[q] # "idle", NEW s
    PROVE  /\ pc[q] \in {"report", "give", "finish", "leave_work"} => ~Holding(q, 1, s)
           /\ pc[q] = "end" /\ op[q] = "side" => ~Holding(q, 1, s)
           /\ pc[q] \notin {"report", "give", "finish", "leave_work", "end"} =>
                 (Holding(q, 1, s) <=> slot(q) = s /\ ~LeftEvent(q))
  BY DEF HeadOK, Holding, LeftEvent

(* What thread t is entitled to of the event in s, and the same after the  *)
(* step: equal but for what follows.                                       *)
AsCloser(t, s) == slot(t) = s /\ Closing(t)
AsCaller(t, s) == slot(t) = s /\ Calling(t)
AsPoster(t, s) == slot(t) = s /\ pc[t] = "push"
AsQueue(t, s) == t \in Queues /\ Holding(t, 1, s)

LEMMA QueueHolds ==
    ASSUME HeadOK, ControlOK, NEW t \in Threads, pc[t] # "idle", NEW s
    PROVE  AsQueue(t, s) <=> /\ t \in Queues /\ slot(t) = s /\ ~LeftEvent(t)
                             /\ pc[t] \notin {"report", "give", "finish", "leave_work", "end"}
<1>1. ThreadOK(t)
  BY DEF ControlOK
<1> QED
  BY <1>1, HeadHolding DEF AsQueue, ThreadOK, LeftEvent

LEMMA QueueHoldsAfter ==
    ASSUME HeadOK', ControlOK', NEW t \in Threads, pc'[t] # "idle", NEW s
    PROVE  AsQueue(t, s)' <=> /\ t \in Queues /\ slot(t)' = s /\ ~LeftEvent(t)'
                              /\ pc'[t] \notin {"report", "give", "finish", "leave_work", "end"}
<1>1. ThreadOK(t)'
  BY DEF ControlOK
<1>2. t \in Queues =>
         /\ (1 \in Pos(t))' /\ queue'[t][1].slot = slot(t)'
         /\ pc'[t] \in {"report", "give", "finish", "leave_work"} => queue'[t][1].kind = "cancelled"
         /\ pc'[t] \notin {"report", "give", "finish", "leave_work", "end"} => queue'[t][1].kind = "side"
  BY DEF HeadOK
<1> QED
  BY <1>1, <1>2 DEF AsQueue, ThreadOK, LeftEvent, Holding

Entitled(t, s) == /\ AsCloser(t, s)' <=> AsCloser(t, s)
                  /\ AsCaller(t, s)' <=> AsCaller(t, s)
                  /\ AsPoster(t, s)' <=> AsPoster(t, s)
                  /\ AsQueue(t, s)' <=> AsQueue(t, s)

(* Steps of a call.                                                        *)
LEMMA EntitledCall ==
    ASSUME Inv, NEW t \in Threads, StepOf(t), NEW s \in Slots, HeadOK', ControlOK', Call(t)
    PROVE  \/ Entitled(t, s) /\ refs'[s] = refs[s] /\ ~(Close(t) /\ slot(t) = s /\ s \notin closed)
           \/ /\ Resolve(t) /\ refs'[s] = refs[s] + 1
              /\ ~AsCaller(t, s) /\ AsCaller(t, s)'
              /\ AsCloser(t, s)' <=> AsCloser(t, s)
              /\ AsPoster(t, s)' <=> AsPoster(t, s)
              /\ AsQueue(t, s)' <=> AsQueue(t, s)
           \/ /\ Close(t) /\ slot(t) = s /\ s \notin closed /\ refs'[s] = refs[s]
              /\ ~AsCloser(t, s) /\ AsCloser(t, s)'
              /\ AsCaller(t, s)' <=> AsCaller(t, s)
              /\ AsPoster(t, s)' <=> AsPoster(t, s)
              /\ AsQueue(t, s)' <=> AsQueue(t, s)
           \/ /\ Release(t) /\ refs'[s] = refs[s] - 1
              /\ AsPoster(t, s)' <=> AsPoster(t, s)
              /\ \/ /\ AsCloser(t, s) /\ ~AsCloser(t, s)'
                    /\ AsCaller(t, s)' <=> AsCaller(t, s)
                    /\ AsQueue(t, s)' <=> AsQueue(t, s)
                 \/ /\ AsCaller(t, s) /\ ~AsCaller(t, s)'
                    /\ AsCloser(t, s)' <=> AsCloser(t, s)
                    /\ AsQueue(t, s)' <=> AsQueue(t, s)
                 \/ /\ AsQueue(t, s) /\ ~AsQueue(t, s)'
                    /\ AsCloser(t, s)' <=> AsCloser(t, s)
                    /\ AsCaller(t, s)' <=> AsCaller(t, s)
<1>0. /\ TypeOK /\ ControlOK /\ HeadOK /\ RefsOK /\ ThreadOK(t) /\ ThreadOK(t)'
      /\ slot(t) \in Slots /\ refs[s] \in Nat
  BY SlotOfThread DEF Inv, ControlOK, TypeOK
<1>1. /\ pc[t] # "idle"
      /\ t \in Queues => pc'[t] # "idle"
      /\ t \in Queues => hdl'[t] = hdl[t]
  BY <1>0 DEF Call, Resolve, CheckGeneration, Release, PostCancelled, Close, EpollDel, Wakeup, Returns, TypeOK, Go
<1>2. AsQueue(t, s) <=> /\ t \in Queues /\ slot(t) = s /\ ~LeftEvent(t)
                        /\ pc[t] \notin {"report", "give", "finish", "leave_work", "end"}
  BY <1>0, <1>1, QueueHolds
<1>3. AsQueue(t, s)' <=> /\ t \in Queues /\ slot(t)' = s /\ ~LeftEvent(t)'
                         /\ pc'[t] \notin {"report", "give", "finish", "leave_work", "end"}
  <2>1. CASE t \in Queues
    BY <2>1, <1>1, QueueHoldsAfter
  <2>2. CASE t \notin Queues
    BY <2>2 DEF AsQueue
  <2> QED
    BY <2>1, <2>2
<1>4. AsQueue(t, s) <=> t \in Queues /\ slot(t) = s /\ ~(op[t] = "side" /\ pc[t] = "report_last")
  BY <1>0, <1>2 DEF Call, Resolve, CheckGeneration, Release, PostCancelled, Close, EpollDel, Wakeup, LeftEvent
<1> USE DEF Entitled, AsCloser, AsCaller, AsPoster, Closing, Calling, CallPCs, CheckedPCs, TypeOK, Go, slot
<1>11. CASE Resolve(t)
  <2>1. AsQueue(t, s)' <=> AsQueue(t, s)
    BY <1>0, <1>3, <1>4, <1>11 DEF Resolve, Returns, LeftEvent, ThreadOK
  <2> QED
    <3>1. op[t] # "side" /\ pc[t] = "resolve"
      BY <1>0, <1>11 DEF Resolve, ThreadOK, Threads
    <3> QED
      BY <1>0, <1>11, <2>1, <3>1 DEF Resolve, Returns, Close
<1>12. CASE CheckGeneration(t)
  <2>1. AsQueue(t, s)' <=> AsQueue(t, s)
    BY <1>0, <1>3, <1>4, <1>12 DEF CheckGeneration, LeftEvent, ThreadOK
  <2> QED
    BY <1>0, <1>12, <2>1 DEF CheckGeneration, Close
<1>13. CASE Release(t)
  <2>1. CASE slot(t) # s
    BY <1>0, <1>2, <1>3, <1>13, <2>1 DEF Release, Returns, Close
  <2>2. CASE slot(t) = s
    <3>1. refs'[s] = refs[s] - 1 /\ pc[t] = "release"
      BY <1>0, <1>13, <2>2 DEF Release
    <3>2. AsPoster(t, s)' <=> AsPoster(t, s)
      BY <1>0, <1>13 DEF Release, Returns
    <3>3. CASE drops[t] = 2
      <4>1. refs[s] >= 2
        BY <1>0, <3>1, <3>3, <2>2, ReleaserHolds
      <4>2. op[t] = "cancel"
        BY <1>0, <3>1, <3>3 DEF ThreadOK
      <4>3. pc'[t] = "release" /\ op'[t] = op[t] /\ hdl'[t] = hdl[t] /\ drops'[t] = 1
        BY <1>0, <1>13, <4>1, <3>3, <2>2 DEF Release
      <4>4. AsQueue(t, s)' <=> AsQueue(t, s)
        BY <1>3, <1>4, <4>2, <4>3, <3>1 DEF LeftEvent
      <4> QED
        BY <1>13, <2>2, <3>1, <3>2, <3>3, <4>2, <4>3, <4>4
    <3>4. CASE drops[t] # 2 /\ op[t] # "side"
      <4>1. drops[t] = 1
        BY <1>0, <3>1, <3>4 DEF ThreadOK
      <4>2. /\ pc'[t] \in {"report_last", "idle", "handler", "end"}
            /\ t \in Queues => op[t] = "cancel" /\ pc'[t] \in {"report_last", "handler"} /\ hdl'[t] = hdl[t]
            /\ (t \in Queues /\ pc'[t] = "report_last") => op'[t] = "cancel"
        BY <1>0, <1>13, <3>4, <4>1 DEF Release, Returns, ThreadOK
      <4>4. AsQueue(t, s)' <=> AsQueue(t, s)
        BY <1>3, <1>4, <4>2, <3>1 DEF LeftEvent
      <4> QED
        BY <1>13, <2>2, <3>1, <3>2, <3>4, <4>1, <4>2, <4>4
    <3>5. CASE op[t] = "side"
      <4>1. t \in Queues /\ drops[t] = 1
        BY <1>0, <3>1, <3>5 DEF ThreadOK, Threads
      <4>2. op'[t] = "side" /\ pc'[t] \in {"report_last", "end"} /\ hdl'[t] = hdl[t]
        BY <1>0, <1>13, <3>5, <4>1 DEF Release, Returns
      <4>3. AsQueue(t, s) /\ ~AsQueue(t, s)'
        BY <1>3, <1>4, <2>2, <3>1, <4>1, <4>2 DEF LeftEvent
      <4> QED
        BY <1>13, <2>2, <3>1, <3>2, <3>5, <4>1, <4>2, <4>3
    <3> QED
      BY <3>3, <3>4, <3>5
  <2> QED
    BY <2>1, <2>2
<1>14. CASE PostCancelled(t)
  <2>1. AsQueue(t, s)' <=> AsQueue(t, s)
    <3>1. CASE t \in Queues
      <4>1. /\ slot(t)' = slot(t) /\ op'[t] = "side" /\ pc[t] = "report_last"
            /\ pc'[t] = IF op[t] = "cancel" THEN "handler" ELSE "end"
        BY <1>0, <1>1, <1>14, <3>1, EventThreads DEF PostCancelled, Returns
      <4>2. op[t] \in {"cancel", "side"}
        BY <1>0, <3>1 DEF ThreadOK
      <4> QED
        BY <1>3, <1>4, <3>1, <4>1, <4>2 DEF LeftEvent
    <3>2. CASE t \notin Queues
      BY <3>2 DEF AsQueue
    <3> QED
      BY <3>1, <3>2
  <2> QED
    BY <1>0, <1>14, <2>1 DEF PostCancelled, Returns, Close
<1>15. CASE Close(t)
  <2>1. AsQueue(t, s)' <=> AsQueue(t, s)
    BY <1>0, <1>3, <1>4, <1>15 DEF Close, LeftEvent, ThreadOK
  <2> QED
    BY <1>0, <1>15, <2>1 DEF Close, FirstToClose, ThreadOK
<1>16. CASE EpollDel(t)
  <2>1. AsQueue(t, s)' <=> AsQueue(t, s)
    BY <1>0, <1>3, <1>4, <1>16 DEF EpollDel, LeftEvent, ThreadOK
  <2> QED
    BY <1>0, <1>16, <2>1 DEF EpollDel, Close
<1>17. CASE Wakeup(t)
  BY <1>0, <1>3, <1>4, <1>17 DEF Wakeup, Returns, Close, ThreadOK, QueuePCs
<1> QED
  BY <1>11, <1>12, <1>13, <1>14, <1>15, <1>16, <1>17 DEF Call

(* Steps outside a call.                                                   *)
LEMMA EntitledElse ==
    ASSUME Inv, NEW t \in Threads, StepOf(t), NEW s \in Slots, HeadOK', ControlOK', ~Call(t),
           ~(t \in Dispatchers /\ PushSide(t)), ~(t \in Queues /\ EndTask(t))
    PROVE  \/ Entitled(t, s) /\ refs'[s] = refs[s] /\ ~(t \in Users /\ StoreRefs(t) /\ slot(t) = s)
           \/ t \in Users /\ StoreRefs(t) /\ slot(t) = s /\ Entitled(t, s) /\ refs'[s] = refs[s] + 1
           \/ /\ t \in Dispatchers /\ PostSide(t) /\ refs'[s] = refs[s] + 1
              /\ ~AsPoster(t, s) /\ AsPoster(t, s)'
              /\ AsCloser(t, s)' <=> AsCloser(t, s)
              /\ AsCaller(t, s)' <=> AsCaller(t, s)
              /\ AsQueue(t, s)' <=> AsQueue(t, s)
<1>0. /\ TypeOK /\ ControlOK /\ HeadOK /\ OpenOK /\ ThreadOK(t) /\ ThreadOK(t)'
      /\ slot(t) \in Slots /\ refs[s] \in Nat
  BY SlotOfThread DEF Inv, ControlOK, TypeOK
<1>1. t \notin Queues => ~AsQueue(t, s) /\ ~AsQueue(t, s)'
  BY DEF AsQueue
<1> USE DEF Entitled, AsCloser, AsCaller, AsPoster, Closing, Calling, CallPCs, CheckedPCs, TypeOK, Go, slot
<1>11. CASE \E r \in Slots, p \in Params : t \in Users /\ OpenEvent(t, r, p)
  BY <1>0, <1>1, <1>11, EventThreads DEF OpenEvent, StoreRefs, ThreadOK
<1>12. CASE \E h \in Handles : \E events \in SUBSET (Sides \cup {"hangup"}) :
               t \in Dispatchers /\ Notify(t, h, events)
  BY <1>0, <1>1, <1>12, EventThreads DEF Notify
<1>13. CASE t \in Users /\ Open(t)
  <2>1. t \notin Queues
    BY <1>13, EventThreads
  <2>2. CASE StoreRefs(t)
    <3>1. refs[slot(t)] = 0
      BY <1>0, <1>13, <2>2 DEF StoreRefs, OpenOK
    <3> QED
      BY <1>0, <1>1, <1>13, <2>1, <2>2, <3>1 DEF StoreRefs, ThreadOK
  <2>3. CASE EpollAdd(t)
    BY <1>0, <1>1, <1>13, <2>1, <2>3 DEF EpollAdd, StoreRefs, ThreadOK
  <2> QED
    BY <1>13, <2>2, <2>3 DEF Open
<1>14. CASE t \in Dispatchers /\ Dispatch(t)
  <2>1. t \notin Queues /\ t \notin Users
    BY <1>14, EventThreads
  <2>2. CASE PostSide(t)
    <3>1. op[t] # "side"
      BY <1>0, <1>14, <2>2 DEF PostSide, ThreadOK
    <3> QED
      BY <1>0, <1>1, <1>14, <2>1, <2>2, <3>1 DEF PostSide, PostedRefs
  <2>3. CASE ~PostSide(t)
    BY <1>0, <1>1, <1>14, <2>1, <2>3 DEF Dispatch, Publish, ClaimSide, Delivered, ServedHere, ThreadOK
  <2> QED
    BY <2>2, <2>3
<1>15. CASE t \in Queues /\ ~(\E h \in Handles : Cancel(t, h)) /\ pc[t] = "idle"
  <2>1. BeginTask(t)
    BY <1>0, <1>15, EventThreads DEF StepOf, Serve, CallHandler, HandlerReturns,
       LeaveSide, ReportCancelled, GiveSlot, ReleaseHeld, FinishEvent, EndTask
  <2>2. AsQueue(t, s)' <=> AsQueue(t, s)
    BY <1>0, <1>15, <2>1 DEF BeginTask, AsQueue, Holding, Pos, LeftEvent, queue_vars
  <2> QED
    BY <1>0, <1>15, <2>1, <2>2, EventThreads DEF BeginTask, ThreadOK
<1>16. CASE t \in Queues /\ (pc[t] # "idle" \/ \E h \in Handles : Cancel(t, h))
  <2>1. Serve(t) \/ \E h \in Handles : Cancel(t, h)
    BY <1>16, EventThreads DEF StepOf
  <2>2. pc[t] # "idle" /\ pc'[t] # "idle" /\ hdl'[t] = hdl[t] /\ refs' = refs /\ t \notin Users
    <3>1. pc[t] # "idle" /\ t \notin Users
      BY <1>16, EventThreads DEF Cancel
    <3>2. CASE \E h \in Handles : Cancel(t, h)
      BY <1>0, <3>1, <3>2 DEF Cancel
    <3>3. CASE Serve(t)
      <4>1. CASE BeginTask(t)
        BY <1>0, <1>16, <3>1, <3>3, <4>1 DEF BeginTask
      <4>2. CASE CallHandler(t)
        BY <1>0, <1>16, <3>1, <3>3, <4>2 DEF CallHandler
      <4>3. CASE HandlerReturns(t)
        BY <1>0, <1>16, <3>1, <3>3, <4>3 DEF HandlerReturns
      <4>4. CASE LeaveSide(t)
        BY <1>0, <1>16, <3>1, <3>3, <4>4 DEF LeaveSide
      <4>5. CASE ReportCancelled(t)
        BY <1>0, <1>16, <3>1, <3>3, <4>5 DEF ReportCancelled
      <4>6. CASE GiveSlot(t)
        BY <1>0, <1>16, <3>1, <3>3, <4>6 DEF GiveSlot
      <4>7. CASE FinishEvent(t)
        BY <1>0, <1>16, <3>1, <3>3, <4>7 DEF FinishEvent
      <4>8. CASE ReleaseHeld(t)
        BY <1>0, <1>16, <3>1, <3>3, <4>8 DEF ReleaseHeld
      <4> QED
        BY <1>0, <1>16, <3>1, <3>3, <4>1, <4>2, <4>3, <4>4, <4>5, <4>6, <4>7, <4>8 DEF Serve
    <3> QED
      BY <2>1, <3>2, <3>3
  <2>3. AsQueue(t, s) <=> /\ t \in Queues /\ slot(t) = s /\ ~LeftEvent(t)
                          /\ pc[t] \notin {"report", "give", "finish", "leave_work", "end"}
    BY <1>0, <2>2, QueueHolds
  <2>4. AsQueue(t, s)' <=> /\ t \in Queues /\ slot(t)' = s /\ ~LeftEvent(t)'
                           /\ pc'[t] \notin {"report", "give", "finish", "leave_work", "end"}
    BY <2>2, QueueHoldsAfter
  <2>5. AsQueue(t, s)' <=> AsQueue(t, s)
    <3>2. CASE \E h \in Handles : Cancel(t, h)
      BY <1>0, <2>2, <2>3, <2>4, <3>2 DEF Cancel, LeftEvent, ThreadOK
    <3>3. CASE Serve(t)
      <4>1. CASE BeginTask(t)
        BY <1>0, <1>16, <2>2, <2>3, <2>4, <3>3, <4>1 DEF BeginTask, LeftEvent, ThreadOK
      <4>2. CASE CallHandler(t)
        BY <1>0, <1>16, <2>2, <2>3, <2>4, <3>3, <4>2 DEF CallHandler, LeftEvent, ThreadOK
      <4>3. CASE HandlerReturns(t)
        BY <1>0, <1>16, <2>2, <2>3, <2>4, <3>3, <4>3 DEF HandlerReturns, LeftEvent, ThreadOK
      <4>4. CASE LeaveSide(t)
        BY <1>0, <1>16, <2>2, <2>3, <2>4, <3>3, <4>4 DEF LeaveSide, LeftEvent, ThreadOK
      <4>5. CASE ReportCancelled(t)
        BY <1>0, <1>16, <2>2, <2>3, <2>4, <3>3, <4>5 DEF ReportCancelled, LeftEvent, ThreadOK
      <4>6. CASE GiveSlot(t)
        BY <1>0, <1>16, <2>2, <2>3, <2>4, <3>3, <4>6 DEF GiveSlot, LeftEvent, ThreadOK
      <4>7. CASE FinishEvent(t)
        BY <1>0, <1>16, <2>2, <2>3, <2>4, <3>3, <4>7 DEF FinishEvent, LeftEvent, ThreadOK
      <4>8. CASE ReleaseHeld(t)
        BY <1>0, <1>16, <2>2, <2>3, <2>4, <3>3, <4>8 DEF ReleaseHeld, LeftEvent, ThreadOK
      <4> QED
        BY <1>0, <1>16, <2>2, <2>3, <2>4, <3>3, <4>1, <4>2, <4>3, <4>4, <4>5, <4>6, <4>7, <4>8 DEF Serve
    <3> QED
      BY <2>1, <3>2, <3>3
  <2> QED
    <3>0. CASE \E h \in Handles : Cancel(t, h)
      BY <1>0, <1>16, <2>2, <2>5, <3>0, EventThreads DEF Cancel, ThreadOK
    <3>1. CASE BeginTask(t)
      BY <1>0, <1>16, <2>2, <2>5, EventThreads, <3>1 DEF BeginTask, ThreadOK
    <3>2. CASE CallHandler(t)
      BY <1>0, <1>16, <2>2, <2>5, EventThreads, <3>2 DEF CallHandler, ThreadOK
    <3>3. CASE HandlerReturns(t)
      BY <1>0, <1>16, <2>2, <2>5, EventThreads, <3>3 DEF HandlerReturns, ThreadOK
    <3>4. CASE LeaveSide(t)
      BY <1>0, <1>16, <2>2, <2>5, EventThreads, <3>4 DEF LeaveSide, ThreadOK
    <3>5. CASE ReportCancelled(t)
      BY <1>0, <1>16, <2>2, <2>5, EventThreads, <3>5 DEF ReportCancelled, ThreadOK
    <3>6. CASE GiveSlot(t)
      BY <1>0, <1>16, <2>2, <2>5, EventThreads, <3>6 DEF GiveSlot, ThreadOK
    <3>7. CASE FinishEvent(t)
      BY <1>0, <1>16, <2>2, <2>5, EventThreads, <3>7 DEF FinishEvent, ThreadOK
    <3>8. CASE ReleaseHeld(t)
      BY <1>0, <1>16, <2>2, <2>5, EventThreads, <3>8 DEF ReleaseHeld, ThreadOK
    <3> QED
      BY <1>0, <1>16, <2>1, <2>2, <2>5, <3>0, <3>1, <3>2, <3>3, <3>4, <3>5, <3>6, <3>7, <3>8 DEF Serve, EndTask
<1>17. CASE t \notin Queues /\ \E h \in Handles : Cancel(t, h)
  BY <1>0, <1>1, <1>17 DEF Cancel, StoreRefs
<1> QED
  BY <1>11, <1>12, <1>13, <1>14, <1>15, <1>16, <1>17 DEF StepOf

RefsOf(s) == /\ IsFiniteSet(Closers(s)) /\ IsFiniteSet(Callers(s))
             /\ IsFiniteSet(Posters(s)) /\ IsFiniteSet(Tasks(s))
             /\ refs[s] = Cardinality(Starts(s)) + Cardinality(Closers(s))
                            + Cardinality(Callers(s)) + Cardinality(Posters(s))
                            + Cardinality(Tasks(s))

LEMMA RefsStepA ==
    ASSUME Inv, NEW t \in Threads, StepOf(t), NEW s \in Slots, HeadOK', ControlOK',
           ~(t \in Dispatchers /\ PushSide(t)), ~(t \in Queues /\ EndTask(t))
    PROVE  RefsOf(s)'
<1>0. TypeOK /\ RefsOK /\ refs[s] \in Nat
  BY DEF Inv, TypeOK
<1>1. /\ \A y : y # <<t, 1>> => (y \in Tasks(s) <=> y \in Tasks(s)')
      /\ <<t, 1>> \in Tasks(s) <=> AsQueue(t, s)
      /\ <<t, 1>> \in Tasks(s)' <=> AsQueue(t, s)'
  BY TasksAgree DEF AsQueue
<1>2. refs'[s] - refs[s] =
               (IF Started(s)' THEN 1 ELSE 0) - (IF Started(s) THEN 1 ELSE 0)
               + (IF AsCloser(t, s)' THEN 1 ELSE 0) - (IF AsCloser(t, s) THEN 1 ELSE 0)
               + (IF AsCaller(t, s)' THEN 1 ELSE 0) - (IF AsCaller(t, s) THEN 1 ELSE 0)
               + (IF AsPoster(t, s)' THEN 1 ELSE 0) - (IF AsPoster(t, s) THEN 1 ELSE 0)
               + (IF AsQueue(t, s)' THEN 1 ELSE 0) - (IF AsQueue(t, s) THEN 1 ELSE 0)
      /\ refs'[s] \in Int
  <2>1. CASE Call(t)
    <3>1. pc[t] # "store"
      BY <2>1 DEF Call, Resolve, CheckGeneration, Release, PostCancelled, Close, EpollDel, Wakeup
    <3>2. ~StoreRefs(t)
      BY <3>1 DEF StoreRefs
    <3>3. CASE ~(Close(t) /\ slot(t) = s /\ s \notin closed)
      <4>1. Started(s)' <=> Started(s)
        BY <3>2, <3>3, StartedSteps
      <4> QED
        BY <1>0, <2>1, <3>3, <4>1, EntitledCall DEF Entitled
    <3>4. CASE Close(t) /\ slot(t) = s /\ s \notin closed
      <4>1. ~Started(s)' /\ Started(s)
        BY <3>2, <3>4, StartedSteps
      <4>2. pc[t] = "close"
        BY <3>4 DEF Close
      <4>3. ~Resolve(t) /\ ~Release(t)
        BY <4>2 DEF Resolve, Release
      <4> QED
        BY <1>0, <2>1, <3>4, <4>1, <4>3, EntitledCall
    <3> QED
      BY <3>3, <3>4
  <2>2. CASE ~Call(t)
    <3>1. ~Close(t)
      BY <2>2 DEF Call
    <3>2. CASE t \in Users /\ StoreRefs(t) /\ slot(t) = s
      <4>1. Started(s)' /\ ~Started(s)
        BY <3>1, <3>2, StartedSteps
      <4>2. t \notin Dispatchers
        BY <3>2, EventThreads
      <4> QED
        BY <1>0, <2>2, <3>2, <4>1, <4>2, EntitledElse DEF Entitled
    <3>3. CASE ~(t \in Users /\ StoreRefs(t) /\ slot(t) = s)
      <4>1. Started(s)' <=> Started(s)
        BY <3>1, <3>3, StartedSteps
      <4> QED
        BY <1>0, <2>2, <3>3, <4>1, EntitledElse DEF Entitled
    <3> QED
      BY <3>2, <3>3
  <2> QED
    BY <2>1, <2>2
<1> QED
  BY <1>0, <1>1, <1>2, RefsSplit DEF RefsOf, AsCloser, AsCaller, AsPoster

(* ntt_event_post_side hands its reference to the task it pushes.          *)
LEMMA RefsStepB ==
    ASSUME Inv, NEW t \in Dispatchers, StepOf(t), NEW s \in Slots, PushSide(t)
    PROVE  RefsOf(s)'
<1>0. /\ TypeOK /\ RefsOK /\ ControlOK /\ NamesOK /\ OpenOK /\ HeadOK /\ t \in Threads
      /\ refs[s] \in Nat /\ slot(t) \in Slots
  BY SlotOfThread DEF Inv, TypeOK, Threads
<1>a. PICK p, k : Pushes(p, k) /\ k = Task("side", slot(t), side[t])
  BY <1>0, PushSidePushes
<1>b. PICK n : n = Len(queue[p]) + 1
  OBVIOUS
<1> DEFINE x == <<p, n>>
<1>1. Pushes(p, k) /\ k.kind = "side" /\ k.slot = slot(t) /\ p \in Queues
  BY <1>a DEF Task, Pushes
<1>2. /\ Len(queue[p]) \in Nat /\ n \in Nat
      /\ \A q \in Queues, i \in Nat :
            (i \in Pos(q))' <=> i \in Pos(q) \/ (q = p /\ i = n)
      /\ \A q \in Queues : \A i \in Pos(q) : queue'[q][i] = queue[q][i]
      /\ queue'[p][n] = k
  BY <1>0, <1>1, <1>b, PushFacts
<1>3. /\ pc[t] = "push" /\ pc'[t] = "claim" /\ op[t] = "dispatch"
      /\ UNCHANGED <<refs, hdl, op, drops, free, closed>>
  BY <1>0 DEF PushSide, TypeOK, Go, ControlOK, ThreadOK, slot_vars, state_vars
<1>4. \A q \in Queues : pc'[q] = pc[q] /\ op'[q] = op[q] /\ q \in Threads
  BY <1>0, EventThreads, OthersStill DEF Still, Threads
<1>5. ~(LeftEvent(p) /\ n = 1)
  BY <1>0, <1>1, <1>2, <1>b DEF LeftEvent, HeadOK, Pos
<1>6. \A q \in Queues, i \in Nat : <<q, i>> # x => (Holding(q, i, s) <=> Holding(q, i, s)')
  BY <1>2, <1>4 DEF Holding, LeftEvent
<1>7. \A y : y # x => (y \in Tasks(s) <=> y \in Tasks(s)')
  BY <1>6 DEF Tasks
<1>8. x \notin Tasks(s)
  <2>1. ~Holding(p, n, s)
    BY <1>1, <1>2, <1>b DEF Holding, Pos
  <2> QED
    BY <2>1 DEF Tasks
<1>9. x \in Tasks(s)' <=> slot(t) = s
  <2>1. Holding(p, n, s)' <=> slot(t) = s
    BY <1>1, <1>2, <1>4, <1>5 DEF Holding, LeftEvent
  <2> QED
    BY <1>1, <1>2, <2>1 DEF Tasks
<1>10. Started(s)' <=> Started(s)
  BY <1>3, StartedSteps, <1>0 DEF StoreRefs, Close
<1>11. /\ (slot(t)' = s /\ Closing(t)') <=> (slot(t) = s /\ Closing(t))
       /\ (slot(t)' = s /\ Calling(t)') <=> (slot(t) = s /\ Calling(t))
       /\ ~(slot(t)' = s /\ pc'[t] = "push")
       /\ (slot(t) = s /\ pc[t] = "push") <=> slot(t) = s
  BY <1>3 DEF Closing, Calling, CallPCs, CheckedPCs, slot
<1>12. refs'[s] = refs[s] /\ refs'[s] \in Int
  BY <1>0, <1>3
<1> HIDE DEF x
<1> QED
  BY <1>0, <1>7, <1>8, <1>9, <1>10, <1>11, <1>12, RefsSplit DEF RefsOf

(* The tasks behind the one that has ended move up.                        *)
LEMMA RefsStepC ==
    ASSUME Inv, NEW t \in Queues, StepOf(t), NEW s \in Slots, EndTask(t)
    PROVE  RefsOf(s)'
<1>0. TypeOK /\ RefsOK /\ ControlOK /\ HeadOK /\ t \in Threads
  BY DEF Inv, Threads
<1>1. /\ \A p \in Queues : p # t => queue'[p] = queue[p]
      /\ \A i \in Nat : i \in Pos(t)' <=> i \in Nat \ {0} /\ i + 1 \in Pos(t)
      /\ \A i \in Pos(t)' : queue'[t][i] = queue[t][i + 1]
  BY <1>0, EndFacts
<1>2. /\ pc[t] = "end" /\ pc'[t] = "idle" /\ op[t] = "side" /\ op' = op
      /\ UNCHANGED <<refs, drops, free, closed>>
  BY <1>0 DEF EndTask, TypeOK, Go, ControlOK, ThreadOK, slot_vars, state_vars
<1>3. \A u \in Threads : u # t => Still(u)
  BY <1>0, OthersStill
<1>4. \A q \in Queues, i \in Nat : q # t => (Holding(q, i, s) <=> Holding(q, i, s)')
  <2> SUFFICES ASSUME NEW q \in Queues, NEW i \in Nat, q # t
               PROVE  Holding(q, i, s) <=> Holding(q, i, s)'
    OBVIOUS
  <2>1. queue'[q] = queue[q] /\ pc'[q] = pc[q] /\ op'[q] = op[q]
    BY <1>1, <1>3 DEF Still, Threads
  <2> QED
    BY <2>1 DEF Holding, LeftEvent, Pos
<1>5. ~Holding(t, 0, s) /\ ~Holding(t, 1, s) /\ ~Holding(t, 0, s)'
  BY <1>1, <1>2 DEF Holding, LeftEvent, Pos
<1>6. \A i \in Nat : i # 0 => (Holding(t, i, s)' <=> Holding(t, i + 1, s))
  <2> SUFFICES ASSUME NEW i \in Nat, i # 0
               PROVE  Holding(t, i, s)' <=> Holding(t, i + 1, s)
    OBVIOUS
  <2>1. ~LeftEvent(t)' /\ i + 1 # 1
    BY <1>2 DEF LeftEvent
  <2>2. (i \in Pos(t))' <=> i + 1 \in Pos(t)
    BY <1>1
  <2>3. i \in Pos(t)' => queue'[t][i] = queue[t][i + 1]
    BY <1>1
  <2> QED
    BY <2>1, <2>2, <2>3 DEF Holding
<1>7. IsFiniteSet(Tasks(s)') /\ Cardinality(Tasks(s)') = Cardinality(Tasks(s))
  <2> DEFINE S == Tasks(s)
             T == Tasks(s)'
             f == [y \in S |-> IF y[1] = t THEN <<t, y[2] - 1>> ELSE y]
  <2>0. /\ \A y \in S : y \in Queues \X Nat /\ Holding(y[1], y[2], s)
        /\ \A y \in Queues \X Nat : Holding(y[1], y[2], s) => y \in S
        /\ \A y \in T : y \in Queues \X Nat /\ Holding(y[1], y[2], s)'
        /\ \A y \in Queues \X Nat : Holding(y[1], y[2], s)' => y \in T
    BY DEF Tasks
  <2> HIDE DEF S, T
  <2>1. \A y \in S : f[y] \in T
    <3> SUFFICES ASSUME NEW y \in S PROVE f[y] \in T
      OBVIOUS
    <3>1. y[1] \in Queues /\ y[2] \in Nat /\ y = <<y[1], y[2]>> /\ Holding(y[1], y[2], s)
      BY <2>0
    <3>2. CASE y[1] # t
      <4>1. f[y] = y /\ Holding(y[1], y[2], s)'
        BY <3>1, <3>2, <1>4
      <4> QED
        BY <3>1, <4>1, <2>0
    <3>3. CASE y[1] = t
      <4>1. f[y] = <<t, y[2] - 1>> /\ y[2] # 0 /\ y[2] # 1
        BY <3>1, <3>3, <1>5
      <4>2. y[2] - 1 \in Nat /\ y[2] - 1 # 0 /\ (y[2] - 1) + 1 = y[2]
        BY <3>1, <4>1
      <4>3. Holding(t, y[2] - 1, s)'
        BY <1>6, <3>1, <3>3, <4>2
      <4> QED
        BY <2>0, <4>1, <4>2, <4>3
    <3> QED
      BY <3>2, <3>3
  <2>2. f \in [S -> T]
    BY <2>1
  <2>3. \A y, z \in S : f[y] = f[z] => y = z
    BY <2>0
  <2>4. \A z \in T : \E y \in S : f[y] = z
    <3> SUFFICES ASSUME NEW z \in T PROVE \E y \in S : f[y] = z
      OBVIOUS
    <3>1. z[1] \in Queues /\ z[2] \in Nat /\ z = <<z[1], z[2]>> /\ Holding(z[1], z[2], s)'
      BY <2>0
    <3>2. CASE z[1] # t
      <4>1. Holding(z[1], z[2], s)
        BY <3>1, <3>2, <1>4
      <4>2. z \in S
        BY <2>0, <3>1, <4>1
      <4> QED
        BY <3>2, <4>2
    <3>3. CASE z[1] = t
      <4>1. z[2] # 0
        BY <3>1, <3>3, <1>5
      <4>2. Holding(t, z[2] + 1, s) /\ z[2] + 1 \in Nat
        BY <1>6, <3>1, <3>3, <4>1
      <4>3. <<t, z[2] + 1>> \in S
        BY <2>0, <4>2
      <4>4. f[<<t, z[2] + 1>>] = z
        BY <3>1, <3>3, <4>3
      <4> QED
        BY <4>3, <4>4
    <3> QED
      BY <3>2, <3>3
  <2>5. f \in Bijection(S, T)
    BY <2>2, <2>3, <2>4 DEF Bijection, Injection, Surjection, IsInjective
  <2>6. IsFiniteSet(S)
    BY <1>0 DEF RefsOK, S
  <2> QED
    BY <2>5, <2>6, FS_Bijection DEF ExistsBijection, S, T
<1>8. Closers(s)' = Closers(s) /\ Callers(s)' = Callers(s) /\ Posters(s)' = Posters(s)
  BY <1>2, <1>3 DEF Closers, Callers, Posters, Closing, Calling, CallPCs, CheckedPCs, Still, slot
<1>9. Starts(s)' = Starts(s)
  <2>1. Started(s)' <=> Started(s)
    BY <1>0, <1>2, StartedSteps DEF StoreRefs, Close
  <2> QED
    BY <2>1 DEF Starts
<1>10. RefsOf(s)
  BY <1>0 DEF RefsOK, RefsOf
<1> QED
  BY <1>2, <1>7, <1>8, <1>9, <1>10 DEF RefsOf

LEMMA RefsStep ==
    ASSUME Inv, NEW t \in Threads, StepOf(t)
    PROVE  RefsOK' /\ refs' \in [Slots -> Nat]
<1>1. HeadOK' /\ ControlOK'
  BY HeadStep, ControlStep DEF Inv
<1>2. \A s \in Slots : RefsOf(s)'
  BY <1>1, RefsStepA, RefsStepB, RefsStepC
<1>3. refs' \in [Slots -> Nat]
  <2>0. TypeOK /\ slot(t) \in Slots /\ refs \in [Slots -> Nat]
    BY SlotOfThread DEF Inv, TypeOK
  <2>1. CASE UNCHANGED refs
    BY <2>0, <2>1
  <2>2. CASE t \in Users /\ StoreRefs(t)
    BY <2>0, <2>2 DEF StoreRefs
  <2>3. CASE refs' = [refs EXCEPT ![slot(t)] = @ + 1]
    BY <2>0, <2>3
  <2>4. CASE refs[slot(t)] > 0 /\ refs' = [refs EXCEPT ![slot(t)] = @ - 1]
    BY <2>0, <2>4
  <2> QED
    BY <2>1, <2>2, <2>3, <2>4, RefsSteps
<1> QED
  BY <1>2, <1>3 DEF RefsOK, RefsOf

-----------------------------------------------------------------------------
(* Where a report of the cancellation comes from.                          *)
LEMMA TellingSteps ==
    ASSUME Inv, NEW t \in Threads, StepOf(t), NEW q \in Queues, NEW i \in Nat, NEW s \in Slots,
           Telling(q, i, s)'
    PROVE  \/ Telling(q, i, s) /\ ~(q = t /\ EndTask(t))
           \/ q = t /\ EndTask(t) /\ Telling(q, i + 1, s)
           \/ /\ i = Len(queue[q]) + 1 /\ Pushes(q, queue'[q][i]) /\ slot(t) = s
              /\ \/ PostCancelled(t)
                 \/ t \in Queues /\ ReportCancelled(t) /\ pc'[t] = "end"
<1>0. TypeOK /\ ControlOK /\ HeadOK /\ NamesOK /\ LastOK /\ RefsOK /\ OpenOK /\ slot(t) \in Slots
  BY SlotOfThread DEF Inv
<1>1. Unfinished(q, i)' /\ queue'[q][i].kind = "cancelled" /\ queue'[q][i].slot = s
  BY DEF Telling
<1>2. CASE Unfinished(q, i) /\ queue'[q][i] = queue[q][i] /\ ~(q = t /\ EndTask(t))
  BY <1>1, <1>2 DEF Telling
<1>3. CASE q = t /\ EndTask(t) /\ i # 0 /\ Unfinished(q, i + 1) /\ queue'[q][i] = queue[q][i + 1]
  BY <1>1, <1>3 DEF Telling
<1>4. CASE i = Len(queue[q]) + 1 /\ Pushing(t) /\ Pushes(q, queue'[q][i])
  <2>0. ASSUME NEW p, NEW k, Pushes(p, k)
        PROVE  p = q /\ queue'[q][i] = k
    <3>0. p \in Queues
      BY <2>0 DEF Pushes
    <3>1. Len(queue'[q]) = Len(queue[q]) + 1 /\ Len(queue[q]) \in Nat
      BY <1>0, <1>4, PushFacts
    <3>2. p = q
      BY <1>0, <2>0, <3>1, PushFacts
    <3> QED
      BY <1>0, <1>4, <2>0, <3>2, PushFacts
  <2>1. CASE t \in Dispatchers /\ PushSide(t)
    <3>1. Pushes(params[slot(t)].queues[side[t]], Task("side", slot(t), side[t]))
      BY <1>0, <2>1, PushSidePushes
    <3>2. queue'[q][i] = Task("side", slot(t), side[t])
      BY <2>0, <3>1
    <3> QED
      BY <1>1, <3>2 DEF Task
  <2>2. CASE PostCancelled(t)
    <3>1. Pushes(params[slot(t)].queues[FirstReport(slot(t))],
                 Task("cancelled", slot(t), FirstReport(slot(t))))
      BY <1>0, <2>2, PostCancelledPushes
    <3>2. queue'[q][i] = Task("cancelled", slot(t), FirstReport(slot(t)))
      BY <2>0, <3>1
    <3>3. slot(t) = s
      BY <1>1, <3>2 DEF Task
    <3> QED
      BY <1>4, <2>2, <3>3
  <2>3. CASE t \in Queues /\ ReportCancelled(t)
    <3>1. Len(queue'[q]) = Len(queue[q]) + 1 /\ Len(queue[q]) \in Nat
      BY <1>0, <1>4, PushFacts
    <3>2. queue' # queue
      BY <3>1
    <3>3. /\ Pushes(params[slot(t)].queues["readable"], Task("cancelled", slot(t), "readable"))
          /\ pc' = [pc EXCEPT ![t] = "end"]
      BY <1>0, <2>3, <3>2, ReportPushes
    <3>4. queue'[q][i] = Task("cancelled", slot(t), "readable")
      BY <2>0, <3>3
    <3>5. slot(t) = s /\ pc'[t] = "end"
      BY <1>0, <1>1, <3>3, <3>4 DEF Task, TypeOK
    <3> QED
      BY <1>4, <2>3, <3>5
  <2> QED
    BY <1>4, <2>1, <2>2, <2>3 DEF Pushing
<1> QED
  BY <1>2, <1>3, <1>4, <1>1, UnfinishedSteps

LEMMA LastSteps ==
    ASSUME Inv, NEW t \in Threads, StepOf(t), NEW u \in Threads, pc'[u] = "report_last"
    PROVE  \/ u # t /\ pc[u] = "report_last" /\ slot(u)' = slot(u)
           \/ u = t /\ Release(t) /\ refs[slot(t)] = 1 /\ slot(u)' = slot(u)
<1>0. TypeOK
  BY DEF Inv
<1>1. CASE u # t
  BY <1>0, <1>1, OthersStill DEF Still, slot
<1>2. CASE u = t
  <2> USE DEF TypeOK, Go, thread_vars
  <2>1. CASE \E s \in Slots, p \in Params : OpenEvent(t, s, p)
    BY <1>0, <1>2, <2>1 DEF OpenEvent
  <2>2. CASE \E h \in Handles : \E events \in SUBSET (Sides \cup {"hangup"}) : Notify(t, h, events)
    BY <1>0, <1>2, <2>2 DEF Notify
  <2>3. CASE \E h \in Handles : Cancel(t, h)
    BY <1>0, <1>2, <2>3 DEF Cancel
  <2>4. CASE Call(t)
    BY <1>0, <1>2, <2>4 DEF Call, Resolve, CheckGeneration, Release, PostCancelled, Close, EpollDel, Wakeup, Returns, slot
  <2>5. CASE Open(t)
    BY <1>0, <1>2, <2>5 DEF Open, StoreRefs, EpollAdd
  <2>6. CASE Dispatch(t)
    BY <1>0, <1>2, <2>6 DEF Dispatch, Publish, ClaimSide, Delivered, PostSide, PushSide, ServedHere
  <2>7. CASE Serve(t)
    BY <1>0, <1>2, <2>7 DEF Serve, BeginTask, CallHandler, HandlerReturns, LeaveSide, ReportCancelled,
                GiveSlot, ReleaseHeld, FinishEvent, EndTask
  <2> QED
    BY <2>1, <2>2, <2>3, <2>4, <2>5, <2>6, <2>7 DEF StepOf
<1> QED
  BY <1>1, <1>2

(* An event whose last reference is gone stays so until its slot is given  *)
(* back.                                                                   *)
LEMMA GoneStays ==
    ASSUME Inv, NEW t \in Threads, StepOf(t), NEW s \in Slots, Gone(s), ~Gives(t, s)
    PROVE  Gone(s)'
<1>1. refs[s] = 0 /\ s \in closed /\ s \notin free
  BY DEF Gone
<1>2. ~(t \in Users /\ StoreRefs(t) /\ slot(t) = s)
  BY <1>1 DEF Inv, OpenOK, StoreRefs
<1>3. refs'[s] = 0
  BY <1>1, <1>2, ZeroStays
<1>4. s \notin free'
  BY <1>1, AddedKept
<1>5. s \in closed'
  <2>1. \A r \in Slots : Opens(t, r) => r # s
    BY <1>1, OpensEffect DEF Inv, Opens
  <2> QED
    BY <1>1, <2>1, ClosedSteps
<1> QED
  BY <1>3, <1>4, <1>5 DEF Gone

(* Whoever drops the last reference finds the event closed.                *)
LEMMA LastIsClosed ==
    ASSUME Inv, NEW t \in Threads, Release(t), NEW s, s = slot(t), refs[s] = 1
    PROVE  s \in closed /\ s \notin free
<1>0. /\ TypeOK /\ ControlOK /\ HeadOK /\ RefsOK /\ OpenOK /\ ThreadOK(t)
      /\ s \in Slots /\ pc[t] = "release"
  BY SlotOfThread DEF Inv, ControlOK, Release
<1>1. s \notin free /\ \A u \in Users : ~(pc[u] = "store" /\ slot(u) = s)
  BY <1>0 DEF OpenOK
<1>2. Callers(s) # {} \/ Tasks(s) # {}
  <2>1. CASE op[t] # "side"
    BY <1>0, <2>1 DEF Callers, Calling, CallPCs
  <2>2. CASE op[t] = "side"
    <3>1. t \in Queues
      BY <1>0, <2>2 DEF ThreadOK, Threads
    <3>2. Holding(t, 1, s)
      BY <1>0, <3>1, HeadHolds
    <3>3. <<t, 1>> \in Tasks(s)
      BY <3>1, <3>2 DEF Tasks
    <3> QED
      BY <3>3
  <2> QED
    BY <2>1, <2>2
<1>3. ~Started(s)
  BY <1>0, <1>2, RefsParts, SetIsEmpty
<1> QED
  BY <1>1, <1>3 DEF Started

LEMMA TokenSteps ==
    ASSUME Inv, NEW t \in Threads, StepOf(t), NEW s \in Slots
    PROVE  /\ \A u \in Threads : pc'[u] = "report_last" /\ slot(u)' = s => Gone(s)'
           /\ \A q \in Queues, i \in Nat : Telling(q, i, s)' => Gone(s)'
<1>0. TypeOK /\ ControlOK /\ HeadOK /\ LastOK /\ slot(t) \in Slots
  BY SlotOfThread DEF Inv
<1>1. ASSUME NEW u \in Threads, pc'[u] = "report_last", slot(u)' = s PROVE Gone(s)'
  <2>1. CASE u # t /\ pc[u] = "report_last" /\ slot(u)' = slot(u)
    <3>1. Gone(s)
      BY <1>0, <1>1, <2>1 DEF LastOK
    <3>2. ~Gives(t, s)
      BY <1>1, <2>1, NobodyLeft DEF Gives
    <3> QED
      BY <3>1, <3>2, GoneStays
  <2>2. CASE u = t /\ Release(t) /\ refs[slot(t)] = 1 /\ slot(u)' = slot(u)
    <3>1. s \in closed /\ s \notin free /\ slot(t) = s
      BY <1>1, <2>2, LastIsClosed
    <3>2. refs'[s] = 0 /\ closed' = closed /\ free' = free
      BY <1>0, <2>2, <3>1 DEF Release, TypeOK, slot_vars, state_vars
    <3> QED
      BY <3>1, <3>2 DEF Gone
  <2> QED
    BY <1>1, <2>1, <2>2, LastSteps
<1>2. ASSUME NEW q \in Queues, NEW i \in Nat, Telling(q, i, s)' PROVE Gone(s)'
  <2>1. Gone(s)
    <3>1. CASE Telling(q, i, s) \/ Telling(q, i + 1, s)
      BY <1>0, <3>1 DEF LastOK
    <3>2. CASE slot(t) = s /\ PostCancelled(t)
      BY <1>0, <3>2 DEF LastOK, PostCancelled
    <3>3. CASE slot(t) = s /\ t \in Queues /\ ReportCancelled(t)
      <4>1. Telling(t, 1, s)
        BY <1>0, <3>3 DEF Telling, Unfinished, HeadOK, ReportCancelled
      <4> QED
        BY <1>0, <3>3, <4>1 DEF LastOK
    <3> QED
      BY <1>2, <3>1, <3>2, <3>3, TellingSteps
  <2>2. ~Gives(t, s)
    <3> SUFFICES ASSUME Gives(t, s) PROVE FALSE
      OBVIOUS
    <3>0. t \in Queues
      BY DEF Gives
    <3>1. pc[t] = "give" /\ pc'[t] = "finish"
      BY <1>0, <3>0, GivesEffect
    <3>2. Telling(q, i, s)
      BY <1>2, <3>1, TellingSteps DEF EndTask, PostCancelled, ReportCancelled
    <3>3. q = t /\ i = 1
      BY <3>0, <3>2, NobodyLeft DEF Telling
    <3> QED
      BY <1>2, <3>1, <3>3 DEF Telling, Unfinished
  <2> QED
    BY <2>1, <2>2, GoneStays
<1> QED
  BY <1>1, <1>2

LEMMA OnePush ==
    ASSUME TypeOK, NEW p, NEW k, NEW q, NEW l, Pushes(p, k), Pushes(q, l)
    PROVE  p = q
<1>1. p \in Queues /\ q \in Queues
  BY DEF Pushes
<1>2. Len(queue'[q]) = Len(queue[q]) + 1 /\ Len(queue[q]) \in Nat
  BY PushFacts
<1> QED
  BY <1>1, <1>2, PushFacts

LEMMA LastStep ==
    ASSUME Inv, NEW t \in Threads, StepOf(t)
    PROVE  LastOK'
<1>0. TypeOK /\ ControlOK /\ HeadOK /\ LastOK /\ slot(t) \in Slots
  BY SlotOfThread DEF Inv

<1>a. \A u \in Threads : pc'[u] = "report_last" => slot(u)' \in Slots
  BY <1>0, LastSteps, SlotOfThread
<1>1. \A u \in Threads : (pc[u] = "report_last" => Gone(slot(u)))'
  BY <1>a, TokenSteps DEF Gone
<1>2. \A s \in Slots, q \in Queues, i \in Nat : Telling(q, i, s)' => Gone(s)'
  BY TokenSteps
<1>b. \A s \in Slots : t \in Queues /\ ReportCancelled(t) /\ slot(t) = s => Telling(t, 1, s)
  BY <1>0 DEF Telling, Unfinished, HeadOK, ReportCancelled
<1>3. \A u, v \in Threads : pc'[u] = "report_last" /\ pc'[v] = "report_last"
                            /\ slot(u)' = slot(v)' => u = v
  <2> SUFFICES ASSUME NEW u \in Threads, NEW v \in Threads, pc'[u] = "report_last",
                      pc'[v] = "report_last", slot(u)' = slot(v)'
               PROVE  u = v
    OBVIOUS
  <2>1. \A w \in Threads : pc[w] = "report_last" => refs[slot(w)] = 0
    BY <1>0 DEF LastOK, Gone
  <2>2. /\ \/ u # t /\ pc[u] = "report_last" /\ slot(u)' = slot(u)
           \/ u = t /\ Release(t) /\ refs[slot(t)] = 1 /\ slot(u)' = slot(u)
        /\ \/ v # t /\ pc[v] = "report_last" /\ slot(v)' = slot(v)
           \/ v = t /\ Release(t) /\ refs[slot(t)] = 1 /\ slot(v)' = slot(v)
    BY LastSteps
  <2>3. \A w, x \in Threads : pc[w] = "report_last" /\ pc[x] = "report_last"
                              /\ slot(w) = slot(x) => w = x
    BY <1>0 DEF LastOK
  <2> QED
    BY <2>1, <2>2, <2>3
<1>4. ASSUME NEW s \in Slots, NEW u \in Threads, NEW q \in Queues, NEW i \in Nat,
             pc'[u] = "report_last", slot(u)' = s, Telling(q, i, s)'
      PROVE  FALSE
  <2>0. /\ \A w \in Threads : pc[w] = "report_last" => refs[slot(w)] = 0
        /\ \A p \in Queues, j \in Nat : Telling(p, j, s) => refs[s] = 0
        /\ \A w \in Threads, p \in Queues, j \in Nat :
              pc[w] = "report_last" /\ slot(w) = s => ~Telling(p, j, s)
        /\ \A w, x \in Threads : pc[w] = "report_last" /\ pc[x] = "report_last"
                              /\ slot(w) = slot(x) => w = x
    BY <1>0 DEF LastOK, Gone
  <2>1. \/ u # t /\ pc[u] = "report_last" /\ slot(u)' = slot(u)
        \/ u = t /\ Release(t) /\ refs[slot(t)] = 1 /\ slot(u)' = slot(u)
    BY <1>4, LastSteps
  <2>2. \/ Telling(q, i, s) \/ Telling(q, i + 1, s)
        \/ PostCancelled(t) /\ slot(t) = s
        \/ t \in Queues /\ ReportCancelled(t) /\ slot(t) = s
    BY <1>4, TellingSteps
  <2>3. CASE Telling(q, i, s) \/ Telling(q, i + 1, s)
    BY <1>4, <2>0, <2>1, <2>3
  <2>4. CASE PostCancelled(t) /\ slot(t) = s
    BY <1>4, <2>0, <2>1, <2>4 DEF PostCancelled, Release
  <2>5. CASE t \in Queues /\ ReportCancelled(t) /\ slot(t) = s
    BY <1>4, <1>b, <2>0, <2>1, <2>5 DEF ReportCancelled, Release
  <2> QED
    BY <2>2, <2>3, <2>4, <2>5
<1>5. ASSUME NEW s \in Slots, NEW q \in Queues, NEW p \in Queues, NEW i \in Nat, NEW j \in Nat,
             Telling(q, i, s)', Telling(p, j, s)'
      PROVE  q = p /\ i = j
  <2> DEFINE A(r, n) == Telling(r, n, s) /\ ~(r = t /\ EndTask(t))
             B(r, n) == r = t /\ EndTask(t) /\ Telling(r, n + 1, s)
             C(r, n) == /\ n = Len(queue[r]) + 1 /\ Pushes(r, queue'[r][n]) /\ slot(t) = s
                        /\ \/ PostCancelled(t)
                           \/ t \in Queues /\ ReportCancelled(t) /\ pc'[t] = "end"
  <2>1. (A(q, i) \/ B(q, i) \/ C(q, i)) /\ (A(p, j) \/ B(p, j) \/ C(p, j))
    BY <1>5, TellingSteps
  <2>2. /\ \A r, x \in Queues, n, m \in Nat : Telling(r, n, s) /\ Telling(x, m, s) => r = x /\ n = m
        /\ \A w \in Threads, x \in Queues, m \in Nat :
              pc[w] = "report_last" /\ slot(w) = s => ~Telling(x, m, s)
    BY <1>0 DEF LastOK
  <2>3. ASSUME NEW r \in Queues, NEW x \in Queues, NEW n \in Nat, NEW m \in Nat,
               Telling(r, n, s)', A(r, n), C(x, m)
        PROVE  FALSE
    <3>1. CASE PostCancelled(t)
      BY <2>2, <2>3, <3>1 DEF PostCancelled
    <3>2. CASE t \in Queues /\ ReportCancelled(t) /\ pc'[t] = "end"
      <4>1. r = t /\ n = 1
        BY <1>b, <2>2, <2>3, <3>2
      <4> QED
        BY <2>3, <3>2, <4>1 DEF Telling, Unfinished
    <3> QED
      BY <2>3, <3>1, <3>2
  <2>4. CASE A(q, i) /\ A(p, j)
    BY <2>2, <2>4
  <2>5. CASE B(q, i) /\ B(p, j)
    <3>1. i + 1 = j + 1 /\ q = p
      BY <2>2, <2>5
    <3> QED
      BY <3>1
  <2>6. CASE (A(q, i) /\ B(p, j)) \/ (B(q, i) /\ A(p, j))
    BY <2>2, <2>6
  <2>7. CASE (A(q, i) /\ C(p, j)) \/ (C(q, i) /\ A(p, j))
    BY <1>5, <2>3, <2>7
  <2>8. CASE (B(q, i) /\ C(p, j)) \/ (C(q, i) /\ B(p, j))
    BY <2>8 DEF EndTask, PostCancelled, ReportCancelled
  <2>9. CASE C(q, i) /\ C(p, j)
    <3>1. q = p
      BY <1>0, <2>9, OnePush
    <3> QED
      BY <2>9, <3>1
  <2> QED
    BY <2>1, <2>4, <2>5, <2>6, <2>7, <2>8, <2>9
<1> QED
  BY <1>1, <1>2, <1>3, <1>4, <1>5, <1>a DEF LastOK

-----------------------------------------------------------------------------
LEMMA DelSteps ==
    ASSUME Inv, NEW t \in Threads, StepOf(t), NEW u \in Threads
    PROVE  /\ pc'[u] = "del" =>
                 \/ u # t /\ pc[u] = "del" /\ hdl'[u] = hdl[u]
                 \/ u = t /\ Close(t) /\ pc[t] = "close" /\ slot(t) \notin closed /\ hdl'[t] = hdl[t]
           /\ pc[u] = "del" =>
                 \/ u # t /\ pc'[u] = "del" /\ hdl'[u] = hdl[u]
                 \/ u = t /\ EpollDel(t)
<1>0. TypeOK
  BY DEF Inv
<1>1. CASE u # t
  BY <1>0, <1>1, OthersStill DEF Still
<1>2. CASE u = t
  <2> USE DEF TypeOK, Go, thread_vars
  <2>1. CASE \E s \in Slots, p \in Params : OpenEvent(t, s, p)
    BY <1>0, <1>2, <2>1 DEF OpenEvent
  <2>2. CASE \E h \in Handles : \E events \in SUBSET (Sides \cup {"hangup"}) : Notify(t, h, events)
    BY <1>0, <1>2, <2>2 DEF Notify
  <2>3. CASE \E h \in Handles : Cancel(t, h)
    BY <1>0, <1>2, <2>3 DEF Cancel
  <2>4. CASE Call(t)
    BY <1>0, <1>2, <2>4 DEF Call, Resolve, CheckGeneration, Release, PostCancelled, Close, EpollDel, Wakeup, Returns, slot, FirstToClose
  <2>5. CASE Open(t)
    BY <1>0, <1>2, <2>5 DEF Open, StoreRefs, EpollAdd
  <2>6. CASE Dispatch(t)
    BY <1>0, <1>2, <2>6 DEF Dispatch, Publish, ClaimSide, Delivered, PostSide, PushSide, ServedHere
  <2>7. CASE Serve(t)
    BY <1>0, <1>2, <2>7 DEF Serve, BeginTask, CallHandler, HandlerReturns, LeaveSide, ReportCancelled,
                GiveSlot, ReleaseHeld, FinishEvent, EndTask
  <2> QED
    BY <2>1, <2>2, <2>3, <2>4, <2>5, <2>6, <2>7 DEF StepOf
<1> QED
  BY <1>1, <1>2

(* An event is there because it was, or because it has been registered.    *)
LEMMA AddedBefore ==
    ASSUME Inv, NEW t \in Threads, StepOf(t), NEW s \in Slots, Added(s)'
    PROVE  /\ s \notin free /\ gen'[s] = gen[s] /\ params'[s] = params[s]
           /\ \/ Added(s)
              \/ t \in Users /\ EpollAdd(t) /\ slot(t) = s
<1>0. TypeOK
  BY DEF Inv
<1>1. s \notin free' /\ \A u \in Users : ~(pc'[u] \in {"store", "add"} /\ slot(u)' = s)
  BY DEF Added, Opening
<1>2. ~Gives(t, s)
  BY <1>0, <1>1, GivesEffect DEF Gives
<1>3. ~Opens(t, s)
  <2> SUFFICES ASSUME Opens(t, s) PROVE FALSE
    OBVIOUS
  <2>1. t \in Users
    BY DEF Opens
  <2>2. pc'[t] = "store" /\ hdl'[t] = HandleOf(s)
    BY <1>0, <2>1, OpensEffect
  <2> QED
    BY <1>1, <2>1, <2>2 DEF slot, HandleOf
<1>4. s \notin free
  BY <1>0, <1>1, <1>3, SlotSteps, OpensEffect, GivesEffect DEF Opens, Gives
<1>5. gen'[s] = gen[s] /\ params'[s] = params[s]
  BY <1>2, <1>4, AddedKept
<1>6. ASSUME NEW u \in Users, pc[u] \in {"store", "add"}, slot(u) = s
      PROVE  t \in Users /\ EpollAdd(t) /\ slot(t) = s
  <2>1. u = t
    BY <1>0, <1>1, <1>6, OthersStill DEF Still, slot, Threads
  <2>2. CASE pc[t] = "store"
    <3>1. StoreRefs(t)
      BY <1>0, <2>2, StoreSteps, OpensEffect DEF Opens
    <3> QED
      BY <1>0, <1>1, <1>6, <2>1, <3>1 DEF StoreRefs, TypeOK, Go, slot
  <2>3. CASE pc[t] = "add"
    <3>1. ~Call(t) /\ ~(\E h \in Handles : Cancel(t, h)) /\ ~Dispatch(t) /\ ~StoreRefs(t)
      BY <1>6, <2>1, <2>3, EventThreads DEF Call, Resolve, CheckGeneration, Release, PostCancelled, Close, EpollDel, Wakeup,
         Cancel, Dispatch, Publish, ClaimSide, Delivered, PostSide, PushSide, ServedHere, StoreRefs
    <3>2. EpollAdd(t)
      BY <1>6, <2>1, <2>3, <3>1, EventThreads DEF StepOf, OpenEvent, Open
    <3> QED
      BY <1>6, <2>1, <3>2
  <2> QED
    BY <1>6, <2>1, <2>2, <2>3
<1> QED
  BY <1>4, <1>5, <1>6 DEF Added, Opening

LEMMA KernelStep ==
    ASSUME Inv, NEW t \in Threads, StepOf(t), TypeOK'
    PROVE  KernelOK'
<1>0. TypeOK /\ ControlOK /\ HeadOK /\ NamesOK /\ OpenOK /\ RefsOK /\ KernelOK /\ slot(t) \in Slots
  BY SlotOfThread DEF Inv
<1>a. /\ \A s \in Slots : Added(s) /\ s \notin closed => HandleOf(s) \in epoll
      /\ \A u \in Threads : pc[u] = "del" => hdl[u] \in epoll /\ slot(u) \in closed
      /\ \A v, u \in Threads : pc[v] = "del" /\ pc[u] = "del" /\ slot(v) = slot(u) => v = u
      /\ \A h \in epoll : h.slot \in closed => \E u \in Threads : pc[u] = "del" /\ slot(u) = h.slot
      /\ \A h \in epoll : h.gen = gen[h.slot] /\ h.slot \in Slots /\ h = HandleOf(h.slot)
  <2>1. \A h \in epoll : h \in Handles /\ h.gen = gen[h.slot]
    BY <1>0 DEF TypeOK, NamesOK
  <2>2. \A h \in epoll : h.slot \in Slots /\ h = HandleOf(h.slot)
    BY <2>1 DEF Handles, HandleOf
  <2> QED
    BY <1>0, <2>1, <2>2 DEF KernelOK
<1>b. EpollDel(t) => pc[t] = "del" /\ slot(t) \in closed /\ hdl[t] = HandleOf(slot(t))
  <2> SUFFICES ASSUME EpollDel(t) PROVE pc[t] = "del" /\ slot(t) \in closed /\ hdl[t] = HandleOf(slot(t))
    OBVIOUS
  <2>1. pc[t] = "del"
    BY DEF EpollDel
  <2> QED
    BY <1>0, <1>a, <2>1, CheckedIsNamed DEF CheckedPCs
<1>c. \A u \in Threads : pc[u] = "del" => slot(u) \notin free /\ slot(u) \in Slots
  BY <1>0, CheckedIsNamed DEF CheckedPCs, Added
<1>d. \A s \in Slots : s \in closed /\ s \notin free => s \in closed'
  <2>1. \A r \in Slots : Opens(t, r) => r \in free
    BY <1>0, OpensEffect DEF Opens
  <2> QED
    BY <2>1, ClosedSteps
<1>1. ASSUME NEW s \in Slots, Added(s)', s \notin closed' PROVE HandleOf(s)' \in epoll'
  <2>1. s \notin free /\ gen'[s] = gen[s] /\ (Added(s) \/ (t \in Users /\ EpollAdd(t) /\ slot(t) = s))
    BY <1>1, AddedBefore
  <2>2. s \notin closed
    BY <1>1, <1>d, <2>1
  <2>3. HandleOf(s)' = HandleOf(s)
    BY <2>1 DEF HandleOf
  <2>4. CASE t \in Users /\ EpollAdd(t) /\ slot(t) = s
    <3>1. hdl[t] \in epoll' /\ pc[t] = "add"
      BY <2>4 DEF EpollAdd
    <3>2. hdl[t].gen = gen[s] /\ hdl[t] \in Handles
      BY <1>0, <2>4, <3>1 DEF OpenOK, TypeOK
    <3>3. hdl[t] = HandleOf(s)
      BY <2>4, <3>2 DEF HandleOf, Handles, slot
    <3> QED
      BY <2>3, <3>1, <3>3
  <2>5. CASE Added(s)
    <3>1. HandleOf(s) \in epoll
      BY <1>a, <2>2, <2>5
    <3>2. EpollDel(t) => hdl[t] # HandleOf(s)
      BY <1>b, <2>2 DEF HandleOf
    <3> QED
      BY <2>3, <3>1, <3>2, EpollSteps
  <2> QED
    BY <2>1, <2>4, <2>5
<1>2. ASSUME NEW u \in Threads, pc'[u] = "del" PROVE hdl'[u] \in epoll' /\ slot(u)' \in closed'
  <2>1. CASE u # t /\ pc[u] = "del" /\ hdl'[u] = hdl[u]
    <3>1. hdl[u] \in epoll /\ slot(u) \in closed /\ slot(u) \notin free /\ slot(u) \in Slots
      BY <1>a, <1>c, <2>1
    <3>2. EpollDel(t) => hdl[t] # hdl[u]
      BY <1>a, <1>b, <2>1 DEF slot
    <3> QED
      BY <1>d, <2>1, <3>1, <3>2, EpollSteps DEF slot
  <2>2. CASE u = t /\ Close(t) /\ pc[t] = "close" /\ slot(t) \notin closed /\ hdl'[t] = hdl[t]
    <3>1. Added(slot(t)) /\ HandleOf(slot(t)) = hdl[t]
      BY <1>0, <2>2, CheckedIsNamed DEF CheckedPCs
    <3>2. hdl[t] \in epoll /\ epoll' = epoll /\ closed' = closed \cup {slot(t)}
      BY <1>a, <1>0, <2>2, <3>1 DEF Close, kernel_vars
    <3> QED
      BY <2>2, <3>2 DEF slot
  <2> QED
    BY <1>2, <2>1, <2>2, DelSteps
<1>3. ASSUME NEW u \in Threads, NEW v \in Threads, pc'[v] = "del", pc'[u] = "del", slot(v)' = slot(u)'
      PROVE  v = u
  <2>1. /\ \/ u # t /\ pc[u] = "del" /\ hdl'[u] = hdl[u]
           \/ u = t /\ slot(t) \notin closed /\ hdl'[t] = hdl[t]
        /\ \/ v # t /\ pc[v] = "del" /\ hdl'[v] = hdl[v]
           \/ v = t /\ slot(t) \notin closed /\ hdl'[t] = hdl[t]
    BY <1>3, DelSteps
  <2> QED
    BY <1>3, <1>a, <2>1 DEF slot
<1>4. ASSUME NEW h \in epoll', h.slot \in closed'
      PROVE  \E u \in Threads : pc'[u] = "del" /\ slot(u)' = h.slot
  <2>0. h \in Handles /\ h.slot \in Slots
    BY DEF TypeOK, Handles
  <2>1. CASE h \in epoll /\ h.slot \in closed
    <3>1. PICK u \in Threads : pc[u] = "del" /\ slot(u) = h.slot
      BY <1>a, <2>1
    <3>2. CASE u # t /\ pc'[u] = "del" /\ hdl'[u] = hdl[u]
      BY <3>1, <3>2 DEF slot
    <3>3. CASE u = t /\ EpollDel(t)
      <4>1. h = hdl[t]
        BY <1>a, <1>b, <2>1, <3>1, <3>3
      <4> QED
        BY <3>3, <4>1, <1>4 DEF EpollDel, Unregistered
    <3> QED
      BY <3>1, <3>2, <3>3, DelSteps
  <2>2. CASE h \in epoll /\ h.slot \notin closed
    <3>1. Close(t) /\ slot(t) = h.slot
      BY <1>4, <2>2, ClosedSteps
    <3> QED
      BY <1>0, <2>2, <3>1 DEF Close, FirstToClose, TypeOK, Go, slot
  <2>3. CASE h \notin epoll
    <3>1. t \in Users /\ EpollAdd(t) /\ h = hdl[t]
      BY <1>4, <2>3, EpollSteps
    <3>2. slot(t) \notin closed /\ closed' = closed
      BY <1>0, <3>1 DEF OpenOK, EpollAdd, state_vars
    <3> QED
      BY <1>4, <3>1, <3>2 DEF slot
  <2> QED
    BY <2>1, <2>2, <2>3
<1> QED
  BY <1>1, <1>2, <1>3, <1>4 DEF KernelOK

-----------------------------------------------------------------------------
(* The steps that set and clear BUSY.                                      *)
Claims(t, s, d) == /\ t \in Dispatchers /\ ClaimSide(t) /\ slot(t) = s
                   /\ NextSide(t) = d /\ Claimable(s, d)
Leaves(t, s, d) == /\ t \in Queues /\ LeaveSide(t) /\ slot(t) = s /\ side[t] = d
                   /\ ~StaysBusy(s, d)

LEMMA BusySteps ==
    ASSUME Inv, NEW t \in Threads, StepOf(t), NEW s \in Slots, NEW d \in Sides
    PROVE  \/ /\ d \in busy'[s] <=> d \in busy[s]
              /\ ~Opens(t, s) /\ ~Claims(t, s, d) /\ ~Leaves(t, s, d)
           \/ Opens(t, s) /\ d \notin busy'[s]
           \/ Claims(t, s, d) /\ d \in busy'[s] /\ d \notin busy[s]
           \/ Leaves(t, s, d) /\ d \notin busy'[s]
<1>0. TypeOK /\ slot(t) \in Slots
  BY SlotOfThread DEF Inv
<1>1. CASE Opens(t, s)
  BY <1>0, <1>1, OpensEffect DEF Opens
<1>5. ASSUME NEW r \in Slots, Opens(t, r), r # s PROVE busy'[s] = busy[s]
  BY <1>0, <1>5, OpensEffect DEF Opens
<1> USE DEF TypeOK, state_vars
<1>2. CASE Claims(t, s, d)
  BY <1>0, <1>2 DEF Claims, ClaimSide, Claimable
<1>3. CASE Leaves(t, s, d)
  BY <1>0, <1>3 DEF Leaves, LeaveSide
<1>4. CASE ~Opens(t, s) /\ ~Claims(t, s, d) /\ ~Leaves(t, s, d)
  <2> SUFFICES d \in busy'[s] <=> d \in busy[s]
    BY <1>4
  <2>1. CASE \E r \in Slots, p \in Params : t \in Users /\ OpenEvent(t, r, p)
    <3>1. PICK r \in Slots : Opens(t, r)
      BY <2>1 DEF Opens
    <3>2. t \in Users /\ r # s
      BY <1>4, <3>1 DEF Opens
    <3> QED
      BY <1>5, <3>1, <3>2
  <2>2. CASE \E h \in Handles : \E events \in SUBSET (Sides \cup {"hangup"}) : Notify(t, h, events)
    BY <2>2 DEF Notify
  <2>3. CASE \E h \in Handles : Cancel(t, h)
    BY <2>3 DEF Cancel
  <2>4. CASE Call(t)
    BY <2>4 DEF Call, Resolve, CheckGeneration, Release, PostCancelled, Close, EpollDel, Wakeup
  <2>5. CASE Open(t)
    BY <2>5 DEF Open, StoreRefs, EpollAdd
  <2>6. CASE t \in Dispatchers /\ Dispatch(t)
    <3>1. CASE ClaimSide(t)
      <4>1. \/ busy' = busy
            \/ busy' = [busy EXCEPT ![slot(t)] = @ \cup {NextSide(t)}] /\ Claimable(slot(t), NextSide(t))
        BY <3>1 DEF ClaimSide
      <4>2. ~(slot(t) = s /\ NextSide(t) = d /\ Claimable(slot(t), NextSide(t)))
        BY <1>4, <2>6, <3>1 DEF Claims
      <4> QED
        BY <1>0, <4>1, <4>2
    <3> QED
      BY <2>6, <3>1 DEF Dispatch, Publish, Delivered, PostSide, PushSide, ServedHere
  <2>7. CASE t \in Queues /\ Serve(t)
    <3>1. CASE LeaveSide(t)
      BY <1>0, <1>4, <2>7, <3>1 DEF LeaveSide, Leaves
    <3> QED
      BY <2>7, <3>1 DEF Serve, BeginTask, CallHandler, HandlerReturns, ReportCancelled,
              GiveSlot, ReleaseHeld, FinishEvent, EndTask
  <2> QED
    BY <2>1, <2>2, <2>3, <2>4, <2>5, <2>6, <2>7 DEF StepOf
<1> QED
  BY <1>1, <1>2, <1>3, <1>4

(* Who is on the way to post, before and after a step.                     *)
LEMMA PostingSteps ==
    ASSUME Inv, NEW t \in Threads, StepOf(t), NEW u \in Threads, NEW s \in Slots, NEW d \in Sides
    PROVE  /\ Posting(u, s, d)' =>
                 \/ Posting(u, s, d) /\ ~(u = t /\ t \in Dispatchers /\ PushSide(t))
                 \/ u = t /\ Claims(t, s, d)
           /\ Posting(u, s, d) =>
                 \/ Posting(u, s, d)'
                 \/ u = t /\ t \in Dispatchers /\ PushSide(t) /\ pc[t] = "push"
           /\ Claims(t, s, d) => Posting(t, s, d)'
<1>0. TypeOK
  BY DEF Inv
<1>1. CASE u # t
  <2>1. Still(u)
    BY <1>0, <1>1, OthersStill
  <2>2. Claims(t, s, d) => Posting(t, s, d)'
    BY <1>0 DEF Claims, ClaimSide, Posting, TypeOK, Go, slot
  <2> QED
    BY <1>1, <2>1, <2>2 DEF Still, Posting, slot
<1>2. CASE u = t /\ t \notin Dispatchers
  BY <1>2 DEF Posting, Claims
<1>3. CASE u = t /\ t \in Dispatchers
  <2>0. t \notin Users /\ t \notin Queues
    BY <1>3, EventThreads
  <2> USE DEF TypeOK, Go, thread_vars, Posting, slot, Claims
  <2>1. CASE \E h \in Handles : \E events \in SUBSET (Sides \cup {"hangup"}) : Notify(t, h, events)
    BY <1>0, <1>3, <2>1 DEF Notify, ClaimSide
  <2>2. CASE Call(t)
    BY <1>0, <1>3, <2>2 DEF Call, Resolve, CheckGeneration, Release, PostCancelled, Close, EpollDel, Wakeup, Returns, ClaimSide
  <2>3. CASE Dispatch(t)
    <3>1. CASE ClaimSide(t)
      BY <1>0, <1>3, <3>1 DEF ClaimSide, PushSide
    <3>2. CASE PushSide(t)
      BY <1>0, <1>3, <3>2 DEF ClaimSide, PushSide
    <3>3. CASE ~ClaimSide(t) /\ ~PushSide(t)
      BY <1>0, <1>3, <2>3, <3>3 DEF Dispatch, Publish, Delivered, PostSide, ServedHere
    <3> QED
      BY <3>1, <3>2, <3>3
  <2> QED
    BY <1>3, <2>0, <2>1, <2>2, <2>3 DEF StepOf, Cancel
<1> QED
  BY <1>1, <1>2, <1>3

LEMMA PlaceStays ==
    ASSUME Inv, NEW t \in Threads, StepOf(t), NEW q \in Queues, NEW i \in Nat, i \in Pos(q),
           ~(q = t /\ EndTask(t))
    PROVE  (i \in Pos(q))' /\ queue'[q][i] = queue[q][i]
<1>1. CASE UNCHANGED queue
  BY <1>1 DEF Pos
<1>2. CASE \E p, k : Pushes(p, k)
  BY <1>2, PushFacts DEF Inv
<1>3. CASE t \in Queues /\ EndTask(t)
  BY <1>3, EndFacts DEF Inv, Pos
<1> QED
  BY <1>1, <1>2, <1>3, QueueSteps

(* How the task that a queue runs lets go of its side.                     *)
LEMMA LeftSteps ==
    ASSUME Inv, NEW t \in Threads, StepOf(t), NEW q \in Queues, ~(q = t /\ EndTask(t))
    PROVE  /\ LeftSide(q) => LeftSide(q)'
           /\ LeftSide(q)' /\ 1 \in Pos(q) /\ queue[q][1].kind = "side" =>
                 \/ LeftSide(q)
                 \/ q = t /\ Leaves(t, slot(t), side[t]) /\ queue[q][1].slot = slot(t)
                       /\ queue[q][1].side = side[t]
<1>0. TypeOK /\ ControlOK /\ HeadOK /\ q \in Threads /\ ThreadOK(q)
  BY DEF Inv, ControlOK, Threads
<1>1. CASE q # t
  BY <1>0, <1>1, OthersStill DEF Still, LeftSide
<1>2. CASE q = t
  <2>0. q \notin Users /\ q \notin Dispatchers
    BY EventThreads
  <2>h. pc[q] # "idle" =>
          /\ queue[q][1].slot = slot(q) /\ queue[q][1].side = side[q]
          /\ pc[q] \in {"report", "give", "finish", "leave_work"} => queue[q][1].kind = "cancelled"
    BY <1>0 DEF HeadOK
  <2> USE DEF TypeOK, Go, thread_vars, LeftSide
  <2>1. CASE \E h \in Handles : Cancel(t, h)
    BY <1>0, <1>2, <2>0, <2>1 DEF Cancel
  <2>2. CASE Call(t)
    BY <1>0, <1>2, <2>2 DEF Call, Resolve, CheckGeneration, Release, PostCancelled, Close, EpollDel, Wakeup, Returns, ThreadOK, QueuePCs
  <2>3. CASE Serve(t)
    <3>1. CASE LeaveSide(t)
      BY <1>0, <1>2, <2>h, <3>1 DEF LeaveSide, Leaves, slot
    <3>2. CASE BeginTask(t) \/ CallHandler(t) \/ HandlerReturns(t)
      BY <1>0, <1>2, <3>2 DEF BeginTask, CallHandler, HandlerReturns
    <3>3. CASE ReportCancelled(t) \/ GiveSlot(t) \/ ReleaseHeld(t) \/ FinishEvent(t)
      BY <1>0, <1>2, <2>h, <3>3 DEF ReportCancelled, GiveSlot, ReleaseHeld, FinishEvent
    <3> QED
      BY <1>2, <2>3, <3>1, <3>2, <3>3 DEF Serve
  <2> QED
    BY <1>2, <2>0, <2>1, <2>2, <2>3 DEF StepOf
<1> QED
  BY <1>1, <1>2

LEMMA ServingBack ==
    ASSUME Inv, NEW t \in Threads, StepOf(t), NEW q \in Queues, NEW i \in Nat,
           NEW s \in Slots, NEW d \in Sides, Serving(q, i, s, d)'
    PROVE  \/ Serving(q, i, s, d) /\ ~(q = t /\ EndTask(t))
                 /\ ~(q = t /\ i = 1 /\ Leaves(t, s, d))
           \/ q = t /\ EndTask(t) /\ Serving(q, i + 1, s, d)
           \/ /\ t \in Dispatchers /\ PushSide(t) /\ Posting(t, s, d)
              /\ i = Len(queue[q]) + 1 /\ Pushes(q, queue'[q][i])
<1>0. TypeOK /\ ControlOK /\ HeadOK /\ NamesOK /\ LastOK /\ RefsOK /\ OpenOK /\ slot(t) \in Slots
  BY SlotOfThread DEF Inv
<1>1. /\ (i \in Pos(q))' /\ queue'[q][i] = Task("side", s, d)
      /\ ~(i = 1 /\ LeftSide(q)')
      /\ queue'[q][i].kind = "side"
  BY DEF Serving, Task
<1>2. CASE i \in Pos(q) /\ queue'[q][i] = queue[q][i] /\ ~(q = t /\ EndTask(t))
  <2>1. Serving(q, i, s, d)
    BY <1>1, <1>2, LeftSteps DEF Serving
  <2>2. ~(q = t /\ i = 1 /\ Leaves(t, s, d))
    <3> SUFFICES ASSUME q = t, i = 1, Leaves(t, s, d) PROVE FALSE
      OBVIOUS
    <3>1. pc'[t] = "release" /\ op'[t] = "side"
      BY <1>0 DEF Leaves, LeaveSide, TypeOK, Go, ControlOK, ThreadOK
    <3> QED
      BY <1>1, <3>1 DEF LeftSide
  <2> QED
    BY <1>2, <2>1, <2>2
<1>3. CASE q = t /\ EndTask(t) /\ i # 0 /\ i + 1 \in Pos(q) /\ queue'[q][i] = queue[q][i + 1]
  BY <1>1, <1>3 DEF Serving
<1>4. CASE i = Len(queue[q]) + 1 /\ Pushing(t) /\ Pushes(q, queue'[q][i])
  <2>0. ASSUME NEW p, NEW k, Pushes(p, k)
        PROVE  p = q /\ queue'[q][i] = k
    <3>1. p = q
      BY <1>0, <1>4, <2>0, OnePush
    <3> QED
      BY <1>0, <1>4, <2>0, <3>1, PushFacts
  <2>1. CASE t \in Dispatchers /\ PushSide(t)
    <3>1. Pushes(params[slot(t)].queues[side[t]], Task("side", slot(t), side[t]))
      BY <1>0, <2>1, PushSidePushes
    <3>2. queue'[q][i] = Task("side", slot(t), side[t])
      BY <2>0, <3>1
    <3>3. slot(t) = s /\ side[t] = d
      BY <1>1, <3>2 DEF Task
    <3> QED
      BY <1>4, <2>1, <3>3 DEF Posting, PushSide
  <2>2. CASE PostCancelled(t)
    <3>1. Pushes(params[slot(t)].queues[FirstReport(slot(t))],
                 Task("cancelled", slot(t), FirstReport(slot(t))))
      BY <1>0, <2>2, PostCancelledPushes
    <3>2. queue'[q][i] = Task("cancelled", slot(t), FirstReport(slot(t)))
      BY <2>0, <3>1
    <3> QED
      BY <1>1, <3>2 DEF Task
  <2>3. CASE t \in Queues /\ ReportCancelled(t)
    <3>1. Len(queue'[q]) = Len(queue[q]) + 1 /\ Len(queue[q]) \in Nat
      BY <1>0, <1>4, PushFacts
    <3>2. queue' # queue
      BY <3>1
    <3>3. Pushes(params[slot(t)].queues["readable"], Task("cancelled", slot(t), "readable"))
      BY <1>0, <2>3, <3>2, ReportPushes
    <3>4. queue'[q][i] = Task("cancelled", slot(t), "readable")
      BY <2>0, <3>3
    <3> QED
      BY <1>1, <3>4 DEF Task
  <2> QED
    BY <1>4, <2>1, <2>2, <2>3 DEF Pushing
<1> QED
  BY <1>1, <1>2, <1>3, <1>4, PlaceSteps

LEMMA ServingOn ==
    ASSUME Inv, NEW t \in Threads, StepOf(t), NEW q \in Queues, NEW i \in Nat,
           NEW s \in Slots, NEW d \in Sides, Serving(q, i, s, d)
    PROVE  \/ Serving(q, i, s, d)' /\ ~(q = t /\ EndTask(t))
           \/ q = t /\ EndTask(t) /\ i - 1 \in Nat /\ i # 1 /\ Serving(q, i - 1, s, d)'
           \/ q = t /\ i = 1 /\ Leaves(t, s, d)
<1>0. TypeOK /\ ControlOK /\ HeadOK
  BY DEF Inv
<1>1. i \in Pos(q) /\ queue[q][i] = Task("side", s, d) /\ ~(i = 1 /\ LeftSide(q))
  BY DEF Serving
<1>2. CASE ~(q = t /\ EndTask(t))
  <2>1. (i \in Pos(q))' /\ queue'[q][i] = queue[q][i]
    BY <1>1, <1>2, PlaceStays
  <2>2. CASE i = 1 /\ LeftSide(q)'
    <3>1. queue[q][1].kind = "side" /\ queue[q][1].slot = s /\ queue[q][1].side = d
      BY <1>1, <2>2 DEF Task
    <3> QED
      BY <1>1, <1>2, <2>2, <3>1, LeftSteps
  <2>3. CASE ~(i = 1 /\ LeftSide(q)')
    BY <1>1, <1>2, <2>1, <2>3 DEF Serving
  <2> QED
    BY <2>2, <2>3
<1>3. CASE q = t /\ EndTask(t)
  <2>1. LeftSide(t)
    BY <1>0, <1>3 DEF LeftSide, EndTask, ControlOK, ThreadOK
  <2>2. i # 1 /\ i # 0
    BY <1>1, <1>3, <2>1 DEF Pos
  <2>3. i - 1 \in Nat /\ i - 1 # 0 /\ (i - 1) + 1 = i
    BY <2>2
  <2>4. (i - 1 \in Pos(t)') /\ queue'[t][i - 1] = queue[t][i]
    BY <1>0, <1>1, <1>3, <2>3, EndFacts
  <2>5. ~LeftSide(t)'
    BY <1>0, <1>3 DEF LeftSide, EndTask, TypeOK, Go
  <2> QED
    BY <1>1, <1>3, <2>2, <2>3, <2>4, <2>5 DEF Serving
<1> QED
  BY <1>2, <1>3

(* Whoever serves a side works for an event that is there.                 *)
LEMMA ServerKeeps ==
    ASSUME Inv, NEW s \in Slots, NEW d \in Sides
    PROVE  /\ \A u \in Threads : Posting(u, s, d) => s \notin free
           /\ \A q \in Queues, i \in Nat : Serving(q, i, s, d) => s \notin free
<1>0. TypeOK /\ ControlOK /\ HeadOK /\ NamesOK
  BY DEF Inv
<1>1. ASSUME NEW u \in Threads, Posting(u, s, d) PROVE s \notin free
  <2>1. pc[u] \in CheckedPCs /\ slot(u) = s
    BY <1>1 DEF Posting, CheckedPCs
  <2> QED
    BY <1>0, <2>1, CheckedIsNamed DEF Added
<1>2. ASSUME NEW q \in Queues, NEW i \in Nat, Serving(q, i, s, d) PROVE s \notin free
  <2>1. i \in Pos(q) /\ queue[q][i].slot = s /\ queue[q][i].kind = "side" /\ ~(i = 1 /\ LeftSide(q))
    BY <1>2 DEF Serving, Task
  <2>2. q \in Threads /\ ThreadOK(q)
    BY <1>0 DEF Threads, ControlOK
  <2>3. ~(i = 1 /\ pc[q] \in {"finish", "leave_work", "end"})
    BY <1>0, <2>1, <2>2 DEF ThreadOK, LeftSide, HeadOK
  <2>4. Added(s)
    BY <1>0, <2>1, <2>3 DEF Unfinished, NamesOK
  <2> QED
    BY <2>4 DEF Added
<1> QED
  BY <1>1, <1>2

LEMMA PushedServes ==
    ASSUME Inv, NEW t \in Dispatchers, StepOf(t), PushSide(t), NEW s \in Slots, NEW d \in Sides,
           Posting(t, s, d)
    PROVE  \E q \in Queues, i \in Nat : AboutToCall(q, i, s, d)'
<1>0. /\ TypeOK /\ ControlOK /\ NamesOK /\ OpenOK /\ RefsOK /\ HeadOK /\ t \in Threads
      /\ slot(t) = s /\ side[t] = d
  BY DEF Inv, Threads, Posting
<1>1. PICK p, k : Pushes(p, k) /\ k = Task("side", s, d)
  BY <1>0, PushSidePushes
<1>2. PICK n : n = Len(queue[p]) + 1
  OBVIOUS
<1>a. /\ p \in Queues /\ Len(queue[p]) \in Nat /\ queue'[p][Len(queue[p]) + 1] = k
      /\ Len(queue'[p]) = Len(queue[p]) + 1
  BY <1>0, <1>1, PushFacts DEF Pushes
<1>3. p \in Queues /\ n \in Nat /\ n # 0 /\ (n \in Pos(p))' /\ queue'[p][n] = k
  BY <1>a, <1>2 DEF Pos
<1>4. n = 1 => pc[p] = "idle"
  BY <1>0, <1>2, <1>3 DEF HeadOK, Pos
<1>5. pc'[p] = pc[p]
  BY <1>0, <1>3, EventThreads, OthersStill DEF Still, Threads
<1> QED
  BY <1>1, <1>3, <1>4, <1>5 DEF AboutToCall, Serving, LeftSide

LEMMA BusyStep ==
    ASSUME Inv, NEW t \in Threads, StepOf(t)
    PROVE  BusyOK'
<1> SUFFICES ASSUME NEW s \in Slots, NEW d \in Sides
             PROVE  /\ \A u \in Threads : Posting(u, s, d)' => d \in busy'[s]
                    /\ \A q \in Queues, i \in Nat : Serving(q, i, s, d)' => d \in busy'[s]
                    /\ \A u, v \in Threads : Posting(u, s, d)' /\ Posting(v, s, d)' => u = v
                    /\ \A u \in Threads, q \in Queues, i \in Nat :
                          ~(Posting(u, s, d)' /\ Serving(q, i, s, d)')
                    /\ \A q, p \in Queues, i, j \in Nat :
                          Serving(q, i, s, d)' /\ Serving(p, j, s, d)' => q = p /\ i = j
                    /\ s \notin free' /\ d \in busy'[s] =>
                          \/ \E u \in Threads : Posting(u, s, d)'
                          \/ \E q \in Queues, i \in Nat : Serving(q, i, s, d)'
  BY DEF BusyOK
<1>0. TypeOK /\ ControlOK /\ HeadOK /\ NamesOK
  BY DEF Inv
<1>1. /\ \A u \in Threads : Posting(u, s, d) => d \in busy[s]
      /\ \A q \in Queues, i \in Nat : Serving(q, i, s, d) => d \in busy[s]
      /\ \A u, v \in Threads : Posting(u, s, d) /\ Posting(v, s, d) => u = v
      /\ \A u \in Threads, q \in Queues, i \in Nat : ~(Posting(u, s, d) /\ Serving(q, i, s, d))
      /\ \A q, p \in Queues, i, j \in Nat :
            Serving(q, i, s, d) /\ Serving(p, j, s, d) => q = p /\ i = j
      /\ s \notin free /\ d \in busy[s] =>
            \/ \E u \in Threads : Posting(u, s, d)
            \/ \E q \in Queues, i \in Nat : Serving(q, i, s, d)
  BY DEF Inv, BusyOK
<1>2. \/ /\ d \in busy'[s] <=> d \in busy[s]
         /\ ~Opens(t, s) /\ ~Claims(t, s, d) /\ ~Leaves(t, s, d)
      \/ Opens(t, s) /\ d \notin busy'[s]
      \/ Claims(t, s, d) /\ d \in busy'[s] /\ d \notin busy[s]
      \/ Leaves(t, s, d) /\ d \notin busy'[s]
  BY BusySteps
<1>3. \A u \in Threads :
         /\ Posting(u, s, d)' =>
                 \/ Posting(u, s, d) /\ ~(u = t /\ t \in Dispatchers /\ PushSide(t))
                 \/ u = t /\ Claims(t, s, d)
         /\ Posting(u, s, d) =>
                 \/ Posting(u, s, d)'
                 \/ u = t /\ t \in Dispatchers /\ PushSide(t) /\ pc[t] = "push"
         /\ Claims(t, s, d) => Posting(t, s, d)'
  BY PostingSteps
<1> DEFINE A(q, i) == Serving(q, i, s, d) /\ ~(q = t /\ EndTask(t)) /\ ~(q = t /\ i = 1 /\ Leaves(t, s, d))
           B(q, i) == q = t /\ EndTask(t) /\ Serving(q, i + 1, s, d)
           C(q, i) == /\ t \in Dispatchers /\ PushSide(t) /\ Posting(t, s, d)
                      /\ i = Len(queue[q]) + 1 /\ Pushes(q, queue'[q][i])
<1>4. \A q \in Queues, i \in Nat : Serving(q, i, s, d)' => A(q, i) \/ B(q, i) \/ C(q, i)
  BY ServingBack
<1>5. Leaves(t, s, d) => Serving(t, 1, s, d) /\ t \in Queues
  <2> SUFFICES ASSUME Leaves(t, s, d) PROVE Serving(t, 1, s, d) /\ t \in Queues
    OBVIOUS
  <2>1. t \in Queues /\ pc[t] = "leave_side" /\ slot(t) = s /\ side[t] = d
    BY DEF Leaves, LeaveSide
  <2>2. 1 \in Pos(t) /\ queue[t][1].slot = s /\ queue[t][1].side = d /\ queue[t][1].kind = "side"
    BY <1>0, <2>1 DEF HeadOK
  <2>3. queue[t][1] = Task("side", s, d)
    BY <1>0, <2>1, <2>2, TasksTyped
  <2> QED
    BY <2>1, <2>2, <2>3 DEF Serving, LeftSide
<1>6. Opens(t, s) => s \in free
  BY <1>0, OpensEffect DEF Opens
<1>7. /\ \A u \in Threads : Posting(u, s, d) => s \notin free
      /\ \A q \in Queues, i \in Nat : Serving(q, i, s, d) => s \notin free
  BY ServerKeeps
<1>8. Claims(t, s, d) => /\ ~EndTask(t) /\ ~PushSide(t) /\ ~Leaves(t, s, d) /\ ~Opens(t, s)
                         /\ d \notin busy[s] /\ d \in busy'[s]
  <2>1. Claims(t, s, d) => pc[t] = "claim" /\ d \notin busy[s]
    BY DEF Claims, ClaimSide, Claimable
  <2>2. Opens(t, s) => pc[t] = "idle"
    BY <1>0, OpensEffect DEF Opens
  <2>3. pc[t] = "claim" => ~EndTask(t) /\ ~PushSide(t) /\ ~Leaves(t, s, d)
    BY DEF EndTask, PushSide, Leaves, LeaveSide
  <2> QED
    BY <1>2, <2>1, <2>2, <2>3
<1>9. ASSUME NEW u \in Threads, Posting(u, s, d)' PROVE d \in busy'[s]
  <2>1. CASE Claims(t, s, d)
    BY <1>8, <2>1
  <2>2. CASE Posting(u, s, d)
    <3>1. d \in busy[s] /\ s \notin free /\ ~Leaves(t, s, d)
      BY <1>1, <1>5, <1>7, <2>2
    <3> QED
      BY <1>2, <1>6, <3>1
  <2> QED
    BY <1>3, <1>9, <2>1, <2>2
<1>10. ASSUME NEW q \in Queues, NEW i \in Nat, Serving(q, i, s, d)' PROVE d \in busy'[s]
  <2>1. d \in busy[s] /\ s \notin free
    BY <1>1, <1>4, <1>7, <1>10
  <2>2. ~Leaves(t, s, d)
    <3> SUFFICES ASSUME Leaves(t, s, d) PROVE FALSE
      OBVIOUS
    <3>1. pc[t] = "leave_side" /\ Serving(t, 1, s, d) /\ t \in Queues
      BY <1>5 DEF Leaves, LeaveSide
    <3>2. ~EndTask(t) /\ ~PushSide(t)
      BY <3>1 DEF EndTask, PushSide
    <3>3. A(q, i)
      BY <1>4, <1>10, <3>2
    <3> QED
      BY <1>1, <3>1, <3>3
  <2> QED
    BY <1>2, <1>6, <2>1, <2>2
<1>11. \A u, v \in Threads : Posting(u, s, d)' /\ Posting(v, s, d)' => u = v
  BY <1>1, <1>3, <1>8
<1>12. ASSUME NEW u \in Threads, NEW q \in Queues, NEW i \in Nat, Posting(u, s, d)', Serving(q, i, s, d)'
       PROVE  FALSE
  <2>1. CASE Claims(t, s, d)
    BY <1>1, <1>4, <1>8, <1>12, <2>1
  <2>2. CASE Posting(u, s, d) /\ ~(u = t /\ t \in Dispatchers /\ PushSide(t))
    <3>1. CASE A(q, i) \/ B(q, i)
      BY <1>1, <2>2, <3>1
    <3>2. CASE C(q, i)
      BY <1>1, <2>2, <3>2
    <3> QED
      BY <1>4, <1>12, <3>1, <3>2
  <2> QED
    BY <1>3, <1>12, <2>1, <2>2
<1>13. ASSUME NEW q \in Queues, NEW p \in Queues, NEW i \in Nat, NEW j \in Nat,
              Serving(q, i, s, d)', Serving(p, j, s, d)'
       PROVE  q = p /\ i = j
  <2>1. (A(q, i) \/ B(q, i) \/ C(q, i)) /\ (A(p, j) \/ B(p, j) \/ C(p, j))
    BY <1>4, <1>13
  <2>2. CASE C(q, i) /\ C(p, j)
    <3>1. q = p
      BY <1>0, <2>2, OnePush
    <3> QED
      BY <2>2, <3>1
  <2>3. CASE (C(q, i) /\ ~C(p, j)) \/ (~C(q, i) /\ C(p, j))
    BY <1>1, <2>1, <2>3
  <2>4. CASE A(q, i) /\ A(p, j)
    BY <1>1, <2>4
  <2>5. CASE B(q, i) /\ B(p, j)
    <3>1. i + 1 = j + 1 /\ q = p
      BY <1>1, <2>5
    <3> QED
      BY <3>1
  <2>6. CASE (A(q, i) /\ B(p, j)) \/ (B(q, i) /\ A(p, j))
    BY <1>1, <2>6
  <2> QED
    BY <2>1, <2>2, <2>3, <2>4, <2>5, <2>6
<1>14. ASSUME s \notin free', d \in busy'[s]
       PROVE  \/ \E u \in Threads : Posting(u, s, d)'
              \/ \E q \in Queues, i \in Nat : Serving(q, i, s, d)'
  <2>1. CASE Claims(t, s, d)
    BY <1>3, <2>1
  <2>2. CASE ~Claims(t, s, d)
    <3>1. ~Opens(t, s) /\ ~Leaves(t, s, d) /\ d \in busy[s]
      BY <1>2, <1>14, <2>2
    <3>2. s \notin free
      BY <1>0, <1>14, <3>1, SlotSteps, OpensEffect, GivesEffect DEF Opens, Gives
    <3>3. CASE \E u \in Threads : Posting(u, s, d)
      <4>1. PICK u \in Threads : Posting(u, s, d)
        BY <3>3
      <4>2. CASE Posting(u, s, d)'
        BY <4>2
      <4>3. CASE u = t /\ t \in Dispatchers /\ PushSide(t)
        <5>1. \E q \in Queues, i \in Nat : AboutToCall(q, i, s, d)'
          BY <4>1, <4>3, PushedServes
        <5> QED
          BY <5>1 DEF AboutToCall
      <4> QED
        BY <1>3, <4>1, <4>2, <4>3
    <3>4. CASE \E q \in Queues, i \in Nat : Serving(q, i, s, d)
      <4>1. PICK q \in Queues, i \in Nat : Serving(q, i, s, d)
        BY <3>4
      <4> QED
        BY <3>1, <4>1, ServingOn
    <3> QED
      BY <1>1, <3>1, <3>2, <3>3, <3>4
  <2> QED
    BY <2>1, <2>2
<1> QED
  BY <1>9, <1>10, <1>11, <1>12, <1>13, <1>14

-----------------------------------------------------------------------------
LEMMA ReadySteps ==
    ASSUME Inv, NEW t \in Threads, StepOf(t), NEW s \in Slots, NEW d \in Sides
    PROVE  /\ d \in ready'[s] =>
                 \/ d \in ready[s]
                 \/ /\ t \in Dispatchers /\ Publish(t) /\ slot(t) = s /\ d \in todo'[t]
                    /\ pc'[t] = "claim" /\ hdl' = hdl
           /\ d \in ready[s] /\ d \notin ready'[s] =>
                 \/ Claims(t, s, d) \/ Opens(t, s)
                 \/ t \in Queues /\ LeaveSide(t) /\ slot(t) = s /\ side[t] = d
           /\ Claims(t, s, d) \/ Leaves(t, s, d) => d \notin ready'[s]
<1>0. TypeOK /\ slot(t) \in Slots
  BY SlotOfThread DEF Inv
<1>1. CASE \E r \in Slots, p \in Params : t \in Users /\ OpenEvent(t, r, p)
  <2>1. PICK r \in Slots : Opens(t, r) /\ t \in Users
    BY <1>1 DEF Opens
  <2>2. pc[t] = "idle" /\ ready'[r] = {} /\ \A x \in Slots : x # r => ready'[x] = ready[x]
    BY <1>0, <2>1, OpensEffect
  <2> QED
    BY <2>1, <2>2 DEF Claims, ClaimSide, Leaves, LeaveSide
<1> USE DEF TypeOK, state_vars
<1>2. CASE \E h \in Handles : \E events \in SUBSET (Sides \cup {"hangup"}) : Notify(t, h, events)
  BY <1>2 DEF Notify, Claims, ClaimSide, Leaves, LeaveSide
<1>3. CASE \E h \in Handles : Cancel(t, h)
  BY <1>3 DEF Cancel, Claims, ClaimSide, Leaves, LeaveSide
<1>4. CASE Call(t)
  BY <1>4 DEF Call, Resolve, CheckGeneration, Release, PostCancelled, Close, EpollDel, Wakeup, Claims, ClaimSide, Leaves, LeaveSide
<1>5. CASE Open(t)
  BY <1>5 DEF Open, StoreRefs, EpollAdd, Claims, ClaimSide, Leaves, LeaveSide
<1>6. CASE t \in Dispatchers /\ Dispatch(t)
  <2>0. t \notin Queues
    BY <1>6, EventThreads
  <2>1. CASE ClaimSide(t)
    <3>1. \/ ready' = ready /\ ~Claimable(slot(t), NextSide(t))
          \/ ready' = [ready EXCEPT ![slot(t)] = @ \ {NextSide(t)}] /\ Claimable(slot(t), NextSide(t))
      BY <2>1 DEF ClaimSide
    <3>2. Claims(t, s, d) <=> slot(t) = s /\ NextSide(t) = d /\ Claimable(slot(t), NextSide(t))
      BY <1>6, <2>1 DEF Claims
    <3> QED
      BY <1>0, <2>0, <3>1, <3>2 DEF Leaves
  <2>2. CASE Publish(t)
    BY <1>0, <1>6, <2>0, <2>2 DEF Publish, Claims, ClaimSide, Leaves, Go
  <2>3. CASE ~ClaimSide(t) /\ ~Publish(t)
    BY <1>6, <2>0, <2>3 DEF Dispatch, Delivered, PostSide, PushSide, ServedHere, Claims, Leaves
  <2> QED
    BY <2>1, <2>2, <2>3
<1>7. CASE t \in Queues /\ Serve(t)
  <2>0. t \notin Dispatchers
    BY <1>7, EventThreads
  <2>1. CASE LeaveSide(t)
    BY <1>0, <1>7, <2>0, <2>1 DEF LeaveSide, Leaves, Claims
  <2>2. CASE ~LeaveSide(t)
    BY <1>7, <2>0, <2>2 DEF Serve, BeginTask, CallHandler, HandlerReturns, ReportCancelled,
              GiveSlot, ReleaseHeld, FinishEvent, EndTask, Claims, Leaves
  <2> QED
    BY <2>1, <2>2
<1> QED
  BY <1>1, <1>2, <1>3, <1>4, <1>5, <1>6, <1>7 DEF StepOf

LEMMA OwedSteps ==
    ASSUME Inv, NEW t \in Threads, StepOf(t), NEW s \in Slots, NEW d \in Sides
    PROVE  /\ d \in owed'[s] => d \in owed[s] \/ d \in ready'[s]
           /\ t \in Queues /\ CallHandler(t) /\ slot(t) = s /\ side[t] = d => d \notin owed'[s]
           /\ Opens(t, s) => d \notin owed'[s] /\ d \notin ready'[s]
<1>0. TypeOK /\ slot(t) \in Slots
  BY SlotOfThread DEF Inv
<1>a. CallHandler(t) => pc[t] = "call" /\ owed' = [owed EXCEPT ![slot(t)] = @ \ {side[t]}]
  BY DEF CallHandler
<1>b. Opens(t, s) => d \notin owed'[s] /\ d \notin ready'[s]
  BY <1>0, OpensEffect DEF Opens
<1>c. t \in Queues /\ CallHandler(t) /\ slot(t) = s /\ side[t] = d => d \notin owed'[s]
  BY <1>0, <1>a DEF TypeOK
<1>d. d \in owed'[s] => d \in owed[s] \/ d \in ready'[s]
  <2> USE DEF TypeOK, ghost_vars
  <2>1. CASE \E r \in Slots, p \in Params : t \in Users /\ OpenEvent(t, r, p)
    BY <1>0, <2>1 DEF OpenEvent
  <2>2. CASE \E h \in Handles : \E events \in SUBSET (Sides \cup {"hangup"}) : Notify(t, h, events)
    BY <2>2 DEF Notify
  <2>3. CASE \E h \in Handles : Cancel(t, h)
    BY <2>3 DEF Cancel
  <2>4. CASE Call(t)
    BY <2>4 DEF Call, Resolve, CheckGeneration, Release, PostCancelled, Close, EpollDel, Wakeup
  <2>5. CASE Open(t)
    BY <2>5 DEF Open, StoreRefs, EpollAdd
  <2>6. CASE Dispatch(t)
    <3>1. CASE Publish(t)
      BY <1>0, <3>1 DEF Publish
    <3> QED
      BY <2>6, <3>1 DEF Dispatch, ClaimSide, Delivered, PostSide, PushSide, ServedHere
  <2>7. CASE Serve(t)
    <3>1. CASE BeginTask(t)
      BY <1>0, <1>a, <2>7, <3>1 DEF BeginTask
    <3>2. CASE HandlerReturns(t)
      BY <1>0, <1>a, <2>7, <3>2 DEF HandlerReturns
    <3>3. CASE LeaveSide(t)
      BY <1>0, <1>a, <2>7, <3>3 DEF LeaveSide
    <3>4. CASE ReportCancelled(t)
      BY <1>0, <1>a, <2>7, <3>4 DEF ReportCancelled
    <3>5. CASE GiveSlot(t)
      BY <1>0, <1>a, <2>7, <3>5 DEF GiveSlot
    <3>6. CASE FinishEvent(t)
      BY <1>0, <1>a, <2>7, <3>6 DEF FinishEvent
    <3>7. CASE EndTask(t)
      BY <1>0, <1>a, <2>7, <3>7 DEF EndTask
    <3>8. CASE CallHandler(t)
      BY <1>0, <1>a, <3>8
    <3>9. CASE ReleaseHeld(t)
      BY <1>0, <1>a, <2>7, <3>9 DEF ReleaseHeld
    <3> QED
      BY <2>7, <3>1, <3>2, <3>3, <3>4, <3>5, <3>6, <3>7, <3>8, <3>9 DEF Serve
  <2> QED
    BY <2>1, <2>2, <2>3, <2>4, <2>5, <2>6, <2>7 DEF StepOf
<1> QED
  BY <1>b, <1>c, <1>d

LEMMA DeliveringSteps ==
    ASSUME Inv, NEW t \in Threads, StepOf(t), NEW u \in Threads, NEW s \in Slots, NEW d \in Sides,
           Delivering(u, s, d)
    PROVE  \/ Delivering(u, s, d)'
           \/ u = t /\ t \in Dispatchers /\ ClaimSide(t) /\ NextSide(t) = d /\ slot(t) = s
<1>0. TypeOK
  BY DEF Inv
<1>1. CASE u # t
  BY <1>0, <1>1, OthersStill DEF Still, Delivering, slot
<1>2. CASE u = t
  <2>0. t \in Dispatchers /\ t \notin Users /\ t \notin Queues /\ pc[t] \in {"claim", "post", "push"}
    BY <1>2, EventThreads DEF Delivering
  <2>1. Dispatch(t)
    BY <2>0 DEF StepOf, Notify, Cancel, Call, Resolve, CheckGeneration, Release, PostCancelled, Close, EpollDel, Wakeup
  <2> USE DEF TypeOK, Go, thread_vars, Delivering, slot
  <2>2. CASE ClaimSide(t)
    BY <1>0, <1>2, <2>0, <2>2 DEF ClaimSide
  <2>3. CASE ~ClaimSide(t)
    BY <1>0, <1>2, <2>0, <2>1, <2>3 DEF Dispatch, Publish, Delivered, PostSide, PushSide, ServedHere
  <2> QED
    BY <2>2, <2>3
<1> QED
  BY <1>1, <1>2

(* A task that has still to call its handler.                              *)
LEMMA AboutSteps ==
    ASSUME Inv, NEW t \in Threads, StepOf(t), NEW q \in Queues, NEW i \in Nat,
           NEW s \in Slots, NEW d \in Sides, AboutToCall(q, i, s, d)
    PROVE  \/ \E p \in Queues, j \in Nat : AboutToCall(p, j, s, d)'
           \/ t \in Queues /\ CallHandler(t) /\ slot(t) = s /\ side[t] = d
<1>0. TypeOK /\ ControlOK /\ HeadOK /\ q \in Threads
  BY DEF Inv, Threads
<1>1. Serving(q, i, s, d) /\ (i # 1 \/ pc[q] \in {"idle", "call"})
  BY DEF AboutToCall
<1>2. CASE q = t /\ EndTask(t) /\ i - 1 \in Nat /\ Serving(q, i - 1, s, d)'
  <2>1. pc'[q] = "idle"
    BY <1>0, <1>2 DEF EndTask, TypeOK, Go
  <2> QED
    BY <1>2, <2>1 DEF AboutToCall
<1>3. CASE q = t /\ i = 1 /\ Leaves(t, s, d)
  BY <1>1, <1>3 DEF Leaves, LeaveSide
<1>4. CASE Serving(q, i, s, d)' /\ ~(q = t /\ EndTask(t))
  <2>1. CASE i # 1
    BY <1>4, <2>1 DEF AboutToCall
  <2>2. CASE i = 1 /\ q # t
    <3>1. pc'[q] = pc[q]
      BY <1>0, <2>2, OthersStill DEF Still
    <3> QED
      BY <1>1, <1>4, <2>2, <3>1 DEF AboutToCall
  <2>3. CASE i = 1 /\ q = t /\ pc[t] = "call"
    <3>1. t \notin Users /\ t \notin Dispatchers
      BY <2>3, EventThreads
    <3>2. CallHandler(t)
      BY <2>3, <3>1 DEF StepOf, Cancel, Call, Resolve, CheckGeneration, Release, PostCancelled, Close, EpollDel, Wakeup,
         Serve, BeginTask, HandlerReturns, LeaveSide, ReportCancelled, GiveSlot, ReleaseHeld, FinishEvent, EndTask
    <3>3. queue[t][1].slot = slot(t) /\ queue[t][1].side = side[t]
      BY <1>0, <2>3 DEF HeadOK
    <3> QED
      BY <1>1, <2>3, <3>2, <3>3 DEF Serving, Task
  <2>4. CASE i = 1 /\ q = t /\ pc[t] = "idle"
    <3>1. t \notin Users /\ t \notin Dispatchers
      BY <2>4, EventThreads
    <3>2. BeginTask(t)
      BY <2>4, <3>1 DEF StepOf, Cancel, Call, Resolve, CheckGeneration, Release, PostCancelled, Close, EpollDel, Wakeup,
         Serve, CallHandler, HandlerReturns, LeaveSide, ReportCancelled, GiveSlot, ReleaseHeld, FinishEvent, EndTask
    <3>3. queue[t] \in Seq(TaskSet) /\ queue[t] # <<>>
      BY <1>0, <2>4, <3>2 DEF TypeOK, BeginTask
    <3>4. Head(queue[t]) = Task("side", s, d)
      BY <1>1, <2>4, <3>3, TailFacts DEF Serving
    <3>5. Head(queue[t]).kind = "side"
      BY <3>4 DEF Task
    <3>6. pc'[t] = "call"
      BY <1>0, <2>4, <3>2, <3>5 DEF BeginTask, TypeOK, Go
    <3> QED
      BY <1>4, <2>4, <3>6 DEF AboutToCall
  <2> QED
    BY <1>1, <2>1, <2>2, <2>3, <2>4
<1> QED
  BY <1>1, <1>2, <1>3, <1>4, ServingOn

LEMMA OwedStep ==
    ASSUME Inv, NEW t \in Threads, StepOf(t)
    PROVE  OwedOK'
<1> SUFFICES ASSUME NEW s \in Slots, NEW d \in Sides, s \notin free', s \notin closed'
             PROVE  /\ d \in ready'[s] =>
                          d \in busy'[s] \/ \E u \in Threads : Delivering(u, s, d)'
                    /\ d \in owed'[s] =>
                          \/ d \in ready'[s]
                          \/ \E u \in Threads : Posting(u, s, d)'
                          \/ \E q \in Queues, i \in Nat : AboutToCall(q, i, s, d)'
  BY DEF OwedOK
<1>0. TypeOK /\ ControlOK /\ HeadOK
  BY DEF Inv
<1>1. CASE Opens(t, s)
  BY <1>1, OwedSteps
<1>2. CASE ~Opens(t, s)
  <2>1. s \notin free
    BY <1>0, <1>2, SlotSteps, OpensEffect, GivesEffect DEF Opens, Gives
  <2>2. s \notin closed
    BY <1>2, ClosedSteps
  <2>3. /\ d \in ready[s] =>
              d \in busy[s] \/ \E u \in Threads : Delivering(u, s, d)
        /\ d \in owed[s] =>
              \/ d \in ready[s]
              \/ \E u \in Threads : Posting(u, s, d)
              \/ \E q \in Queues, i \in Nat : AboutToCall(q, i, s, d)
    BY <2>1, <2>2 DEF Inv, OwedOK
  <2>4. ASSUME d \in ready'[s]
        PROVE  d \in busy'[s] \/ \E u \in Threads : Delivering(u, s, d)'
    <3>1. CASE /\ t \in Dispatchers /\ Publish(t) /\ slot(t) = s /\ d \in todo'[t]
               /\ pc'[t] = "claim" /\ hdl' = hdl
      BY <3>1 DEF Delivering, slot
    <3>2. CASE d \in busy[s]
      <4>1. ~Leaves(t, s, d)
        BY <2>4, ReadySteps
      <4> QED
        BY <1>2, <3>2, <4>1, BusySteps
    <3>3. CASE d \in ready[s] /\ d \notin busy[s]
      <4>1. PICK u \in Threads : Delivering(u, s, d)
        BY <2>3, <3>3
      <4>2. CASE t \in Dispatchers /\ ClaimSide(t) /\ NextSide(t) = d /\ slot(t) = s
        <5>1. Claims(t, s, d)
          BY <2>2, <3>3, <4>2 DEF Claims, Claimable
        <5> QED
          BY <2>4, <5>1, ReadySteps
      <4> QED
        BY <4>1, <4>2, DeliveringSteps
    <3> QED
      BY <2>4, <3>1, <3>2, <3>3, ReadySteps
  <2>5. ASSUME d \in owed'[s], d \notin ready'[s]
        PROVE  \/ \E u \in Threads : Posting(u, s, d)'
               \/ \E q \in Queues, i \in Nat : AboutToCall(q, i, s, d)'
    <3>1. d \in owed[s] /\ ~(t \in Queues /\ CallHandler(t) /\ slot(t) = s /\ side[t] = d)
      BY <2>5, OwedSteps
    <3>2. CASE d \in ready[s]
      <4>1. CASE Claims(t, s, d)
        BY <4>1, PostingSteps
      <4>2. CASE t \in Queues /\ LeaveSide(t) /\ slot(t) = s /\ side[t] = d
        <5>1. StaysBusy(s, d) /\ pc[t] = "leave_side"
          BY <2>2, <3>2, <4>2 DEF StaysBusy, LeaveSide
        <5>2. pc'[t] = "call" /\ queue' = queue
          BY <1>0, <4>2, <5>1 DEF LeaveSide, TypeOK, Go, queue_vars
        <5>3. 1 \in Pos(t) /\ queue[t][1].slot = s /\ queue[t][1].side = d /\ queue[t][1].kind = "side"
          BY <1>0, <4>2, <5>1 DEF HeadOK
        <5>4. queue[t][1] = Task("side", s, d)
          BY <1>0, <4>2, <5>3, TasksTyped
        <5>5. AboutToCall(t, 1, s, d)'
          BY <5>2, <5>3, <5>4 DEF AboutToCall, Serving, LeftSide, Pos
        <5> QED
          BY <4>2, <5>5
      <4> QED
        BY <1>2, <2>5, <3>2, <4>1, <4>2, ReadySteps
    <3>3. CASE \E u \in Threads : Posting(u, s, d)
      <4>1. PICK u \in Threads : Posting(u, s, d)
        BY <3>3
      <4>2. CASE u = t /\ t \in Dispatchers /\ PushSide(t)
        BY <4>1, <4>2, PushedServes
      <4> QED
        BY <4>1, <4>2, PostingSteps
    <3>4. CASE \E q \in Queues, i \in Nat : AboutToCall(q, i, s, d)
      <4>1. PICK q \in Queues, i \in Nat : AboutToCall(q, i, s, d)
        BY <3>4
      <4> QED
        BY <3>1, <4>1, AboutSteps
    <3> QED
      BY <2>3, <3>1, <3>2, <3>3, <3>4
  <2> QED
    BY <2>4, <2>5
<1> QED
  BY <1>1, <1>2

-----------------------------------------------------------------------------
(* Sets of pairs that differ at most in the two sides of one row.          *)
LEMMA RowCount ==
    ASSUME NEW S, NEW T, NEW x, NEW y, x # y, IsFiniteSet(S),
           \A z : z # x /\ z # y => (z \in S <=> z \in T)
    PROVE  /\ IsFiniteSet(T) /\ Cardinality(S) \in Nat /\ Cardinality(T) \in Nat
           /\ Cardinality(T) = Cardinality(S)
                 + (IF x \in T THEN 1 ELSE 0) - (IF x \in S THEN 1 ELSE 0)
                 + (IF y \in T THEN 1 ELSE 0) - (IF y \in S THEN 1 ELSE 0)
<1> DEFINE M == IF x \in T THEN S \cup {x} ELSE S \ {x}
<1>1. \A z : z # x => (z \in S <=> z \in M)
  OBVIOUS
<1>2. x \in M <=> x \in T
  OBVIOUS
<1>3. \A z : z # y => (z \in M <=> z \in T)
  OBVIOUS
<1>4. y \in M <=> y \in S
  OBVIOUS
<1> HIDE DEF M
<1>5. /\ IsFiniteSet(M) /\ Cardinality(S) \in Nat /\ Cardinality(M) \in Nat
      /\ Cardinality(M) = Cardinality(S) + (IF x \in T THEN 1 ELSE 0) - (IF x \in S THEN 1 ELSE 0)
  BY <1>1, <1>2, CountStep
<1>6. /\ IsFiniteSet(T) /\ Cardinality(T) \in Nat
      /\ Cardinality(T) = Cardinality(M) + (IF y \in T THEN 1 ELSE 0) - (IF y \in S THEN 1 ELSE 0)
  BY <1>3, <1>4, <1>5, CountStep
<1> QED
  BY <1>5, <1>6

LEMMA UsesCount ==
    ASSUME NEW qs, NEW q
    PROVE  /\ Uses(qs, q) = (IF qs["readable"] = q THEN 1 ELSE 0) + (IF qs["writable"] = q THEN 1 ELSE 0)
           /\ Uses(qs, q) \in Nat
<1> DEFINE D == {d \in Sides : qs[d] = q}
<1>1. /\ "readable" \in D <=> qs["readable"] = q
      /\ "writable" \in D <=> qs["writable"] = q
      /\ \A z : z # "readable" /\ z # "writable" => z \notin D
  BY DEF Sides
<1> HIDE DEF D
<1>2. PICK E : E = {}
  OBVIOUS
<1>3. /\ IsFiniteSet(E) /\ Cardinality(E) = 0
      /\ \A z : z # "readable" /\ z # "writable" => (z \in E <=> z \in D)
      /\ "readable" \notin E /\ "writable" \notin E /\ "readable" # "writable"
  BY <1>1, <1>2, FS_EmptySet
<1>4. PICK r, w : r = "readable" /\ w = "writable"
  OBVIOUS
<1>5. r # w /\ \A z : z # r /\ z # w => (z \in E <=> z \in D)
  BY <1>3, <1>4
<1>6. /\ Cardinality(D) \in Nat
      /\ Cardinality(D) = Cardinality(E)
            + (IF r \in D THEN 1 ELSE 0) - (IF r \in E THEN 1 ELSE 0)
            + (IF w \in D THEN 1 ELSE 0) - (IF w \in E THEN 1 ELSE 0)
  BY <1>3, <1>5, RowCount
<1> QED
  BY <1>1, <1>3, <1>4, <1>6 DEF Uses, D

LEMMA HeldSteps ==
    ASSUME Inv, NEW t \in Threads, StepOf(t)
    PROVE  \/ \E s \in Slots : Opens(t, s)
           \/ \E s \in Slots : Gives(t, s)
           \/ t \in Queues /\ ReleaseHeld(t)
           \/ UNCHANGED <<held, qrefs, free, params>>
<1> USE DEF queue_vars, thread_vars, slot_vars
<1>1. CASE \E s \in Slots, p \in Params : t \in Users /\ OpenEvent(t, s, p)
  BY <1>1 DEF Opens
<1>2. CASE \E h \in Handles : \E events \in SUBSET (Sides \cup {"hangup"}) : Notify(t, h, events)
  BY <1>2 DEF Notify
<1>3. CASE \E h \in Handles : Cancel(t, h)
  BY <1>3 DEF Cancel
<1>4. CASE Call(t)
  BY <1>4 DEF Call, Resolve, CheckGeneration, Release, PostCancelled, Close, EpollDel, Wakeup
<1>5. CASE t \in Users /\ Open(t)
  BY <1>5 DEF Open, StoreRefs, EpollAdd
<1>6. CASE t \in Dispatchers /\ Dispatch(t)
  BY <1>6 DEF Dispatch, Publish, ClaimSide, Delivered, PostSide, PushSide, ServedHere
<1>7. CASE t \in Queues /\ Serve(t)
  <2>1. CASE GiveSlot(t)
    BY <1>7, <2>1, SlotOfThread DEF Gives, Inv
  <2>2. CASE ~GiveSlot(t) /\ ~ReleaseHeld(t)
    BY <1>7, <2>2 DEF Serve, BeginTask, CallHandler, HandlerReturns, LeaveSide, ReportCancelled,
                      FinishEvent, EndTask
  <2> QED
    BY <1>7, <2>1, <2>2
<1> QED
  BY <1>1, <1>2, <1>3, <1>4, <1>5, <1>6, <1>7 DEF StepOf

HeldOf(q) == /\ IsFiniteSet(Uses1(q)) /\ IsFiniteSet(Uses2(q))
             /\ qrefs[q] = Cardinality(Uses1(q)) + Cardinality(Uses2(q))

LEMMA HeldOpens ==
    ASSUME Inv, NEW t \in Users, NEW s \in Slots, Opens(t, s), StepOf(t), NEW q \in Queues
    PROVE  HeldOf(q)' /\ qrefs' \in [Queues -> Int]
<1>0. TypeOK /\ t \in Threads /\ HeldOf(q) /\ q \in Threads
  BY DEF Inv, Threads, HeldOK, HeldOf
<1>1. PICK p \in Params : OpenEvent(t, s, p)
  BY DEF Opens
<1>2. /\ s \in free /\ free' = free \ {s} /\ held' = held
      /\ params' = [params EXCEPT ![s] = p]
      /\ qrefs' = [r \in Queues |-> qrefs[r] + Uses(p.queues, r)]
  BY <1>1 DEF OpenEvent
<1>3. /\ \A r \in Queues : Uses(p.queues, r) \in Nat
      /\ Uses(p.queues, q) = (IF p.queues["readable"] = q THEN 1 ELSE 0)
                               + (IF p.queues["writable"] = q THEN 1 ELSE 0)
  BY UsesCount
<1>4. qrefs' \in [Queues -> Int] /\ qrefs'[q] = qrefs[q] + Uses(p.queues, q)
  BY <1>0, <1>2, <1>3 DEF TypeOK
<1>5. params'[s] = p /\ \A r \in Slots : r # s => params'[r] = params[r]
  BY <1>0, <1>2 DEF TypeOK
<1>6. PICK x, y : x = <<s, "readable">> /\ y = <<s, "writable">>
  OBVIOUS
<1>7. /\ x # y /\ x \notin Uses1(q) /\ y \notin Uses1(q)
      /\ x \in Uses1(q)' <=> p.queues["readable"] = q
      /\ y \in Uses1(q)' <=> p.queues["writable"] = q
  BY <1>2, <1>5, <1>6 DEF Uses1, Sides
<1>8. \A z : z # x /\ z # y => (z \in Uses1(q) <=> z \in Uses1(q)')
  BY <1>2, <1>5, <1>6 DEF Uses1, Sides
<1>9. /\ IsFiniteSet(Uses1(q)') /\ Cardinality(Uses1(q)) \in Nat /\ Cardinality(Uses1(q)') \in Nat
      /\ Cardinality(Uses1(q)') = Cardinality(Uses1(q))
                 + (IF x \in Uses1(q)' THEN 1 ELSE 0) - (IF x \in Uses1(q) THEN 1 ELSE 0)
                 + (IF y \in Uses1(q)' THEN 1 ELSE 0) - (IF y \in Uses1(q) THEN 1 ELSE 0)
  BY <1>0, <1>7, <1>8, RowCount DEF HeldOf
<1>10. Uses2(q)' = Uses2(q)
  BY <1>2 DEF Uses2
<1>11. IsFiniteSet(Uses2(q)) /\ Cardinality(Uses2(q)) \in Nat
       /\ qrefs[q] = Cardinality(Uses1(q)) + Cardinality(Uses2(q))
  BY <1>0, FS_CardinalityType DEF HeldOf
<1>12. Cardinality(Uses1(q)') = Cardinality(Uses1(q)) + Uses(p.queues, q)
  BY <1>3, <1>7, <1>9
<1> QED
  BY <1>4, <1>9, <1>10, <1>11, <1>12, <1>3 DEF HeldOf

LEMMA HeldGives ==
    ASSUME Inv, NEW t \in Queues, NEW s \in Slots, Gives(t, s), StepOf(t), NEW q \in Queues
    PROVE  HeldOf(q)' /\ qrefs' \in [Queues -> Int]
<1>0. TypeOK /\ t \in Threads /\ HeldOf(q) /\ ControlOK
  BY DEF Inv, Threads, HeldOK, HeldOf
<1>1. /\ pc[t] = "give" /\ free' = free \cup {s} /\ params' = params /\ qrefs' = qrefs
      /\ held'[t] = params[s].queues /\ s \notin free
  BY <1>0, GivesEffect, NobodyLeft DEF Gone
<1>2. \A u \in Threads : u # t => held'[u] = held[u]
  BY <1>0, OthersStill DEF Still
<1>3. held[t] = NoQueues /\ NoQueue # q
  BY <1>0, <1>1, EventThreads DEF ControlOK, ThreadOK
<1>4. qrefs' \in [Queues -> Int] /\ qrefs'[q] = qrefs[q]
  BY <1>0, <1>1 DEF TypeOK
<1>6. PICK x, y, v, w : /\ x = <<s, "readable">> /\ y = <<s, "writable">>
                        /\ v = <<t, "readable">> /\ w = <<t, "writable">>
  OBVIOUS
<1>7. /\ x # y /\ x \notin Uses1(q)' /\ y \notin Uses1(q)'
      /\ x \in Uses1(q) <=> params[s].queues["readable"] = q
      /\ y \in Uses1(q) <=> params[s].queues["writable"] = q
  BY <1>1, <1>6 DEF Uses1, Sides
<1>8. \A z : z # x /\ z # y => (z \in Uses1(q) <=> z \in Uses1(q)')
  BY <1>1, <1>6 DEF Uses1, Sides
<1>9. /\ IsFiniteSet(Uses1(q)') /\ Cardinality(Uses1(q)) \in Nat /\ Cardinality(Uses1(q)') \in Nat
      /\ Cardinality(Uses1(q)') = Cardinality(Uses1(q))
                 + (IF x \in Uses1(q)' THEN 1 ELSE 0) - (IF x \in Uses1(q) THEN 1 ELSE 0)
                 + (IF y \in Uses1(q)' THEN 1 ELSE 0) - (IF y \in Uses1(q) THEN 1 ELSE 0)
  BY <1>0, <1>7, <1>8, RowCount DEF HeldOf
<1>10. /\ v # w /\ v \notin Uses2(q) /\ w \notin Uses2(q)
       /\ v \in Uses2(q)' <=> params[s].queues["readable"] = q
       /\ w \in Uses2(q)' <=> params[s].queues["writable"] = q
  BY <1>1, <1>3, <1>6 DEF Uses2, Sides, NoQueues
<1>11. \A z : z # v /\ z # w => (z \in Uses2(q) <=> z \in Uses2(q)')
  <2>1. \A r \in Queues, d \in Sides : r # t => (<<r, d>> \in Uses2(q) <=> <<r, d>> \in Uses2(q)')
    BY <1>2 DEF Uses2, Threads
  <2>2. \A d \in Sides : <<t, d>> = v \/ <<t, d>> = w
    BY <1>6 DEF Sides
  <2>3. \A z : z \in Uses2(q) \/ z \in Uses2(q)' =>
           \E r \in Queues, d \in Sides : z = <<r, d>>
    BY DEF Uses2
  <2> QED
    BY <2>1, <2>2, <2>3
<1>12. /\ IsFiniteSet(Uses2(q)') /\ Cardinality(Uses2(q)) \in Nat /\ Cardinality(Uses2(q)') \in Nat
       /\ Cardinality(Uses2(q)') = Cardinality(Uses2(q))
                 + (IF v \in Uses2(q)' THEN 1 ELSE 0) - (IF v \in Uses2(q) THEN 1 ELSE 0)
                 + (IF w \in Uses2(q)' THEN 1 ELSE 0) - (IF w \in Uses2(q) THEN 1 ELSE 0)
  BY <1>0, <1>10, <1>11, RowCount DEF HeldOf
<1>13. Cardinality(Uses1(q)') + Cardinality(Uses2(q)') = Cardinality(Uses1(q)) + Cardinality(Uses2(q))
  BY <1>7, <1>9, <1>10, <1>12
<1> QED
  BY <1>0, <1>4, <1>9, <1>12, <1>13 DEF HeldOf

LEMMA HeldRelease ==
    ASSUME Inv, NEW t \in Queues, ReleaseHeld(t), StepOf(t), NEW q \in Queues
    PROVE  HeldOf(q)' /\ qrefs' \in [Queues -> Int]
<1>0. TypeOK /\ t \in Threads /\ HeldOf(q) /\ HeldOK
  BY DEF Inv, Threads, HeldOK, HeldOf
<1>1. PICK d \in Sides : d = FirstHeld(held[t])
  BY <1>0, ReleaseEffect
<1>2. PICK r : r = held[t][d]
  OBVIOUS
<1>3. /\ pc[t] = "finish" /\ held'[t][d] = NoQueue
      /\ \A e \in Sides : e # d => held'[t][e] = held[t][e]
  BY <1>0, <1>1, ReleaseEffect
<1>4. r \in Queues
  <2>1. \E e \in Sides : held[t][e] # NoQueue
    BY <1>0, <1>3 DEF HeldOK
  <2>2. r # NoQueue
    BY <1>1, <1>2, <2>1 DEF FirstHeld, Sides
  <2> QED
    BY <1>0, <1>2, <2>2 DEF TypeOK
<1>5. /\ qrefs' \in [Queues -> Int]
      /\ qrefs'[q] = qrefs[q] - (IF r = q THEN 1 ELSE 0)
  BY <1>0, <1>1, <1>2, <1>4 DEF ReleaseHeld, TypeOK
<1>6. \A u \in Threads : u # t => held'[u] = held[u]
  BY <1>0, OthersStill DEF Still
<1>7. Uses1(q)' = Uses1(q)
  BY DEF Uses1, ReleaseHeld, slot_vars
<1>8. PICK v : v = <<t, d>>
  OBVIOUS
<1>9. v \notin Uses2(q)' /\ (v \in Uses2(q) <=> r = q)
  BY <1>2, <1>3, <1>8, EventThreads DEF Uses2
<1>10. \A z : z # v => (z \in Uses2(q) <=> z \in Uses2(q)')
  <2>1. \A p \in Queues, e \in Sides : p # t => (<<p, e>> \in Uses2(q) <=> <<p, e>> \in Uses2(q)')
    BY <1>6 DEF Uses2, Threads
  <2>2. \A e \in Sides : e # d => (<<t, e>> \in Uses2(q) <=> <<t, e>> \in Uses2(q)')
    BY <1>3 DEF Uses2
  <2>3. \A z : z \in Uses2(q) \/ z \in Uses2(q)' =>
           \E p \in Queues, e \in Sides : z = <<p, e>>
    BY DEF Uses2
  <2> QED
    BY <1>8, <2>1, <2>2, <2>3
<1>11. /\ IsFiniteSet(Uses2(q)') /\ Cardinality(Uses2(q)) \in Nat /\ Cardinality(Uses2(q)') \in Nat
       /\ Cardinality(Uses2(q)') = Cardinality(Uses2(q))
                 + (IF v \in Uses2(q)' THEN 1 ELSE 0) - (IF v \in Uses2(q) THEN 1 ELSE 0)
  BY <1>0, <1>10, CountStep DEF HeldOf
<1>12. Cardinality(Uses2(q)') = Cardinality(Uses2(q)) - (IF r = q THEN 1 ELSE 0)
  BY <1>9, <1>11
<1>13. IsFiniteSet(Uses1(q)) /\ Cardinality(Uses1(q)) \in Nat
       /\ qrefs[q] = Cardinality(Uses1(q)) + Cardinality(Uses2(q))
  BY <1>0, FS_CardinalityType DEF HeldOf
<1> QED
  BY <1>5, <1>7, <1>11, <1>12, <1>13 DEF HeldOf

LEMMA FinishSteps ==
    ASSUME Inv, NEW t \in Threads, StepOf(t)
    PROVE  /\ pc'[t] = "finish" => t \in Queues /\ (GiveSlot(t) \/ ReleaseHeld(t))
           /\ pc'[t] = "leave_work" => t \in Queues /\ ReleaseHeld(t)
           /\ pc[t] = "finish" => t \in Queues /\ ReleaseHeld(t)
           /\ pc[t] = "leave_work" => t \in Queues /\ FinishEvent(t)
           /\ t \in Queues /\ GiveSlot(t) => pc[t] = "give" /\ pc'[t] = "finish" /\ side' = side
           /\ t \in Queues /\ ReleaseHeld(t) =>
                 pc[t] = "finish" /\ pc'[t] \in {"finish", "leave_work"} /\ work' = work
           /\ t \in Queues /\ FinishEvent(t) => pc[t] = "leave_work" /\ pc'[t] = "end"
<1>0. TypeOK /\ ControlOK /\ ThreadOK(t)
  BY DEF Inv, ControlOK
<1> USE DEF TypeOK, Go, thread_vars
<1>1. CASE \E s \in Slots, p \in Params : OpenEvent(t, s, p)
  BY <1>0, <1>1 DEF OpenEvent, GiveSlot, ReleaseHeld, FinishEvent
<1>2. CASE \E h \in Handles : \E events \in SUBSET (Sides \cup {"hangup"}) : Notify(t, h, events)
  BY <1>0, <1>2 DEF Notify, GiveSlot, ReleaseHeld, FinishEvent
<1>3. CASE \E h \in Handles : Cancel(t, h)
  BY <1>0, <1>3 DEF Cancel, GiveSlot, ReleaseHeld, FinishEvent
<1>4. CASE Call(t)
  BY <1>0, <1>4 DEF Call, Resolve, CheckGeneration, Release, PostCancelled, Close, EpollDel, Wakeup, Returns, GiveSlot, ReleaseHeld, FinishEvent
<1>5. CASE Open(t)
  BY <1>0, <1>5 DEF Open, StoreRefs, EpollAdd, GiveSlot, ReleaseHeld, FinishEvent
<1>6. CASE Dispatch(t)
  BY <1>0, <1>6 DEF Dispatch, Publish, ClaimSide, Delivered, PostSide, PushSide, ServedHere, GiveSlot, ReleaseHeld, FinishEvent
<1>7. CASE t \in Queues /\ Serve(t)
  BY <1>0, <1>7 DEF Serve, BeginTask, CallHandler, HandlerReturns, LeaveSide, ReportCancelled,
              GiveSlot, ReleaseHeld, FinishEvent, EndTask
<1> QED
  BY <1>1, <1>2, <1>3, <1>4, <1>5, <1>6, <1>7 DEF StepOf

LEMMA WorkSteps ==
    ASSUME Inv, NEW t \in Threads, StepOf(t)
    PROVE  \/ t \in Users /\ StoreRefs(t)
           \/ t \in Queues /\ FinishEvent(t)
           \/ work' = work /\ ~(t \in Queues /\ FinishEvent(t))
                 /\ ~(t \in Users /\ StoreRefs(t))
<1> USE DEF queue_vars
<1>1. CASE \E s \in Slots, p \in Params : OpenEvent(t, s, p)
  BY <1>1 DEF OpenEvent
<1>2. CASE \E h \in Handles : \E events \in SUBSET (Sides \cup {"hangup"}) : Notify(t, h, events)
  BY <1>2 DEF Notify
<1>3. CASE \E h \in Handles : Cancel(t, h)
  BY <1>3 DEF Cancel
<1>4. CASE Call(t)
  BY <1>4 DEF Call, Resolve, CheckGeneration, Release, PostCancelled, Close, EpollDel, Wakeup
<1>5. CASE t \in Users /\ Open(t)
  BY <1>5 DEF Open, StoreRefs, EpollAdd
<1>6. CASE Dispatch(t)
  BY <1>6 DEF Dispatch, Publish, ClaimSide, Delivered, PostSide, PushSide, ServedHere
<1>7. CASE t \in Queues /\ Serve(t)
  BY <1>7 DEF Serve, BeginTask, CallHandler, HandlerReturns, LeaveSide, ReportCancelled,
              GiveSlot, ReleaseHeld, FinishEvent, EndTask
<1> QED
  BY <1>1, <1>2, <1>3, <1>4, <1>5, <1>6, <1>7 DEF StepOf

(* An event counts as work from the store of its reference until its slot  *)
(* is given back.                                                          *)
LEMMA WorkingSteps ==
    ASSUME Inv, NEW t \in Threads, StepOf(t), NEW s \in Slots
    PROVE  \/ (s \in Working' <=> s \in Working) /\ ~Gives(t, s)
                 /\ ~(t \in Users /\ StoreRefs(t) /\ slot(t) = s)
           \/ /\ t \in Users /\ StoreRefs(t) /\ slot(t) = s /\ s \notin Working
              /\ s \in Working' <=> ~Owned(s)
           \/ Gives(t, s) /\ s \in Working /\ s \notin Working'
<1>0. TypeOK /\ ControlOK /\ NamesOK /\ OpenOK
  BY DEF Inv
<1>1. \A u \in Threads : u # t => Still(u)
  BY <1>0, OthersStill
<1>2. CASE t \in Users /\ StoreRefs(t) /\ slot(t) = s
  <2>1. /\ pc[t] = "store" /\ pc'[t] = "add" /\ UNCHANGED <<free, params, hdl>>
    BY <1>0, <1>2 DEF StoreRefs, TypeOK, Go, slot_vars
  <2>2. s \notin free
    BY <1>2, <2>1, <1>0 DEF OpenOK
  <2>3. \A u \in Users : u # t => ~(pc[u] = "store" /\ slot(u) = s)
    BY <1>2, <2>1, <1>0 DEF OpenOK
  <2>4. \A u \in Users : ~(pc'[u] = "store" /\ slot(u)' = s)
    BY <2>1, <2>3, <1>1 DEF Still, slot, Threads
  <2> QED
    BY <1>2, <2>1, <2>2, <2>4 DEF Working, Owned
<1>3. CASE Gives(t, s)
  <2>0. t \in Queues
    BY <1>3 DEF Gives
  <2>1. Added(s) /\ s \in closed /\ s \in free'
    BY <1>0, <1>3, <2>0, NobodyLeft, GivesEffect DEF Gone
  <2>2. ~Owned(s) /\ s \notin free
    BY <1>0, <2>1 DEF NamesOK, Added
  <2> QED
    BY <1>3, <2>1, <2>2 DEF Working, Added, Opening
<1>4. CASE Opens(t, s)
  <2>0. t \in Users
    BY <1>4 DEF Opens
  <2>1. s \in free /\ pc'[t] = "store" /\ hdl'[t] = HandleOf(s) /\ pc[t] = "idle"
    BY <1>0, <1>4, <2>0, OpensEffect
  <2>2. s \notin Working /\ s \notin Working'
    BY <2>0, <2>1 DEF Working, slot, HandleOf
  <2> QED
    BY <2>1, <2>2 DEF StoreRefs, Gives, GiveSlot
<1>5. CASE ~(t \in Users /\ StoreRefs(t) /\ slot(t) = s) /\ ~Opens(t, s) /\ ~Gives(t, s)
  <2>1. (s \in free' <=> s \in free) /\ params'[s] = params[s]
    BY <1>0, <1>5, SlotSteps, OpensEffect, GivesEffect DEF Opens, Gives
  <2>3. \A u \in Users : (pc[u] = "store" /\ slot(u) = s) <=> (pc'[u] = "store" /\ slot(u)' = s)
    <3> SUFFICES ASSUME NEW u \in Users
                 PROVE  (pc[u] = "store" /\ slot(u) = s) <=> (pc'[u] = "store" /\ slot(u)' = s)
      OBVIOUS
    <3>1. CASE u # t
      BY <3>1, <1>1 DEF Still, slot, Threads
    <3>2. CASE u = t /\ \E r \in Slots : Opens(t, r)
      <4>1. PICK r \in Slots : Opens(t, r)
        BY <3>2
      <4>2. t \in Users /\ r # s
        BY <4>1, <1>5 DEF Opens
      <4>3. pc[t] = "idle" /\ hdl'[t] = HandleOf(r)
        BY <1>0, <4>1, <4>2, OpensEffect
      <4> QED
        BY <3>2, <4>2, <4>3 DEF slot, HandleOf
    <3>3. CASE u = t /\ ~\E r \in Slots : Opens(t, r)
      <4>1. CASE pc[t] = "store" \/ pc'[t] = "store"
        BY <1>0, <1>5, <3>3, <4>1, StoreSteps
      <4> QED
        BY <3>3, <4>1
    <3> QED
      BY <3>1, <3>2, <3>3
  <2> QED
    BY <1>5, <2>1, <2>3 DEF Working, Owned
<1> QED
  BY <1>2, <1>3, <1>4, <1>5

LEMMA WorkStep ==
    ASSUME Inv, NEW t \in Threads, StepOf(t)
    PROVE  /\ IsFiniteSet(Working') /\ IsFiniteSet(Finishing') /\ work' \in Nat
           /\ work' = Cardinality(Working') + Cardinality(Finishing')
<1>0. /\ TypeOK /\ slot(t) \in Slots /\ work \in Nat
      /\ IsFiniteSet(Working) /\ IsFiniteSet(Finishing)
      /\ work = Cardinality(Working) + Cardinality(Finishing)
  BY SlotOfThread DEF Inv, HeldOK, TypeOK
<1>1. PICK s \in Slots : s = slot(t)
  BY <1>0
<1>2. /\ s \in Working' <=> (IF t \in Users /\ StoreRefs(t) THEN ~Owned(s)
                             ELSE IF t \in Queues /\ GiveSlot(t) THEN FALSE
                             ELSE s \in Working)
      /\ t \in Users /\ StoreRefs(t) => s \notin Working
      /\ t \in Queues /\ GiveSlot(t) => s \in Working
  <2>1. Gives(t, s) <=> t \in Queues /\ GiveSlot(t)
    BY <1>1 DEF Gives
  <2>2. ~(GiveSlot(t) /\ StoreRefs(t))
    BY DEF GiveSlot, StoreRefs
  <2> QED
    BY <1>1, <2>1, <2>2, WorkingSteps
<1>3. \A z : z # s => (z \in Working <=> z \in Working')
  <2>1. ASSUME NEW z \in Slots, z # s PROVE z \in Working <=> z \in Working'
    BY <1>1, <2>1, WorkingSteps DEF Gives
  <2> QED
    BY <2>1 DEF Working
<1>4. /\ IsFiniteSet(Working') /\ Cardinality(Working) \in Nat /\ Cardinality(Working') \in Nat
      /\ Cardinality(Working') = Cardinality(Working)
            + (IF s \in Working' THEN 1 ELSE 0) - (IF s \in Working THEN 1 ELSE 0)
  BY <1>0, <1>3, CountStep
<1>5. \A z : z # t => (z \in Finishing <=> z \in Finishing')
  <2>1. \A u \in Threads : u # t => pc'[u] = pc[u]
    BY <1>0, OthersStill DEF Still
  <2> QED
    BY <2>1 DEF Finishing, Threads
<1>6. /\ t \in Finishing' <=> t \in Queues /\ (GiveSlot(t) \/ ReleaseHeld(t))
      /\ t \in Finishing <=> t \in Queues /\ (ReleaseHeld(t) \/ FinishEvent(t))
      /\ ReleaseHeld(t) /\ t \in Queues => ~GiveSlot(t) /\ ~FinishEvent(t)
  BY FinishSteps DEF Finishing
<1>7. /\ IsFiniteSet(Finishing') /\ Cardinality(Finishing) \in Nat /\ Cardinality(Finishing') \in Nat
      /\ Cardinality(Finishing') = Cardinality(Finishing)
            + (IF t \in Finishing' THEN 1 ELSE 0) - (IF t \in Finishing THEN 1 ELSE 0)
  BY <1>0, <1>5, CountStep
<1>8. CASE t \in Users /\ StoreRefs(t)
  <2>1. t \notin Queues /\ work' = IF Owned(s) THEN work ELSE work + 1
    BY <1>1, <1>8, EventThreads DEF StoreRefs
  <2> QED
    BY <1>0, <1>2, <1>4, <1>6, <1>7, <1>8, <2>1
<1>9. CASE t \in Queues /\ FinishEvent(t)
  <2>1. t \notin Users /\ work' = work - 1 /\ ~GiveSlot(t) /\ ~ReleaseHeld(t)
    BY <1>6, <1>9, EventThreads DEF FinishEvent, GiveSlot
  <2> QED
    BY <1>0, <1>2, <1>4, <1>6, <1>7, <1>9, <2>1
<1>10. CASE /\ work' = work /\ ~(t \in Queues /\ FinishEvent(t))
            /\ ~(t \in Users /\ StoreRefs(t))
  BY <1>0, <1>2, <1>4, <1>6, <1>7, <1>10
<1> QED
  BY <1>8, <1>9, <1>10, WorkSteps

LEMMA HeldStep ==
    ASSUME Inv, NEW t \in Threads, StepOf(t)
    PROVE  HeldOK' /\ qrefs' \in [Queues -> Nat] /\ work' \in Nat
<1>0. TypeOK /\ ControlOK /\ HeadOK /\ NamesOK /\ HeldOK
  BY DEF Inv
<1>1. \A q \in Queues : HeldOf(q)' /\ qrefs' \in [Queues -> Int]
  <2> SUFFICES ASSUME NEW q \in Queues PROVE HeldOf(q)' /\ qrefs' \in [Queues -> Int]
    OBVIOUS
  <2>1. CASE \E s \in Slots : Opens(t, s)
    BY <2>1, HeldOpens DEF Opens
  <2>2. CASE \E s \in Slots : Gives(t, s)
    BY <2>2, HeldGives DEF Gives
  <2>3. CASE t \in Queues /\ ReleaseHeld(t)
    BY <2>3, HeldRelease
  <2>4. CASE UNCHANGED <<held, qrefs, free, params>>
    <3>1. Uses1(q)' = Uses1(q) /\ Uses2(q)' = Uses2(q) /\ qrefs' = qrefs
      BY <2>4 DEF Uses1, Uses2
    <3>2. HeldOf(q) /\ qrefs \in [Queues -> Int]
      BY <1>0 DEF HeldOK, HeldOf, TypeOK
    <3> QED
      BY <3>1, <3>2 DEF HeldOf
  <2> QED
    BY <2>1, <2>2, <2>3, <2>4, HeldSteps
<1>2. qrefs' \in [Queues -> Nat]
  <2>1. \A q \in Queues : qrefs'[q] \in Nat
    <3> SUFFICES ASSUME NEW q \in Queues PROVE qrefs'[q] \in Nat
      OBVIOUS
    <3>1. IsFiniteSet(Uses1(q)') /\ IsFiniteSet(Uses2(q)')
          /\ qrefs'[q] = Cardinality(Uses1(q)') + Cardinality(Uses2(q)')
      BY <1>1 DEF HeldOf
    <3> QED
      BY <3>1, FS_CardinalityType
  <2>2. CASE Queues = {}
    <3>1. qrefs \in [Queues -> Nat]
      BY <1>0 DEF TypeOK
    <3>2. qrefs' = qrefs \/ \E f : qrefs' = [q \in Queues |-> f[q]]
      <4>1. CASE \E s \in Slots : Opens(t, s)
        BY <2>2, <4>1 DEF Opens, OpenEvent
      <4>2. CASE ~\E s \in Slots : Opens(t, s)
        BY <2>2, <4>2, HeldSteps, GivesEffect, <1>0 DEF Gives, Opens
      <4> QED
        BY <4>1, <4>2
    <3> QED
      BY <2>2, <3>1, <3>2
  <2>3. CASE Queues # {}
    <3>1. qrefs' \in [Queues -> Int]
      BY <1>1, <2>3
    <3> QED
      BY <2>1, <3>1
  <2> QED
    BY <2>2, <2>3
<1>3. ASSUME NEW q \in Queues, pc'[q] = "finish" PROVE \E d \in Sides : held'[q][d] # NoQueue
  <2>0. q \in Threads
    BY DEF Threads
  <2>1. CASE q # t
    BY <1>0, <1>3, <2>0, <2>1, OthersStill DEF Still, HeldOK
  <2>2. CASE q = t /\ GiveSlot(q)
    <3>1. pc[q] = "give" /\ side[q] \in Sides
      BY <1>0, <2>0, <2>2 DEF GiveSlot, TypeOK
    <3>2. held'[q] = params[slot(q)].queues
      BY <1>0, <2>0, <2>2 DEF GiveSlot, TypeOK
    <3>3. params[slot(q)].queues[side[q]] = q
      BY <1>0, <3>1, ServedIsNamed
    <3> QED
      BY <3>1, <3>2, <3>3, EventThreads
  <2>3. CASE q = t /\ ReleaseHeld(q)
    BY <1>0, <1>3, <2>3, ReleaseEffect DEF Sides
  <2> QED
    BY <1>3, <2>1, <2>2, <2>3, FinishSteps
<1>4. /\ IsFiniteSet(Working') /\ IsFiniteSet(Finishing') /\ work' \in Nat
      /\ work' = Cardinality(Working') + Cardinality(Finishing')
  BY WorkStep
<1> QED
  BY <1>1, <1>2, <1>3, <1>4 DEF HeldOK, HeldOf

-----------------------------------------------------------------------------
LEMMA StepKeepsInv ==
    ASSUME Inv, NEW t \in Threads, StepOf(t)
    PROVE  Inv'
<1>0. TypeOK /\ ControlOK
  BY DEF Inv
<1>1. /\ RefsOK' /\ refs' \in [Slots -> Nat]
      /\ HeldOK' /\ qrefs' \in [Queues -> Nat] /\ work' \in Nat
  BY RefsStep, HeldStep
<1>2. TypeOK'
  BY <1>1, TypeStep
<1>3. (queue \in [Queues -> Seq(TaskSet)])'
  BY QueueTypeStep
<1>4. NamesOK'
  BY <1>3, NamesStep
<1>5. ControlOK' /\ HeadOK' /\ OpenOK'
  BY <1>0, ControlStep, HeadStep, OpenStep
<1>6. LastOK' /\ KernelOK' /\ BusyOK' /\ OwedOK'
  BY <1>2, LastStep, KernelStep, BusyStep, OwedStep
<1> QED
  BY <1>1, <1>2, <1>4, <1>5, <1>6 DEF Inv

LEMMA StutterKeepsInv ==
    ASSUME Inv, UNCHANGED vars
    PROVE  Inv'
<1> USE DEF vars, slot_vars, state_vars, kernel_vars, queue_vars, thread_vars, ghost_vars
<1>1. TypeOK'
  BY DEF Inv, TypeOK
<1>2. ControlOK' /\ HeadOK'
  BY DEF Inv, ControlOK, ThreadOK, HeadOK, Pos, slot
<1>3. NamesOK'
  BY DEF Inv, NamesOK, Added, Opening, Named, NamedApp, Owned, Unfinished, Pos, slot
<1>4. OpenOK'
  BY DEF Inv, OpenOK, slot
<1>5. RefsOK'
  <2>1. \A s \in Slots : /\ Starts(s)' = Starts(s) /\ Closers(s)' = Closers(s)
                         /\ Callers(s)' = Callers(s) /\ Posters(s)' = Posters(s)
                         /\ Tasks(s)' = Tasks(s)
    BY DEF Starts, Started, Closers, Closing, Callers, Calling, Posters, Tasks, Holding, LeftEvent, Pos, slot
  <2> QED
    BY <2>1 DEF Inv, RefsOK
<1>6. LastOK'
  BY DEF Inv, LastOK, Gone, Telling, Unfinished, Pos, slot
<1>7. KernelOK'
  BY DEF Inv, KernelOK, Added, Opening, HandleOf, slot
<1>8. BusyOK'
  BY DEF Inv, BusyOK, Posting, Serving, LeftSide, Pos, slot
<1>9. OwedOK'
  BY DEF Inv, OwedOK, Posting, Delivering, AboutToCall, Serving, LeftSide, Pos, slot
<1>10. HeldOK'
  <2>1. \A q \in Queues : Uses1(q)' = Uses1(q) /\ Uses2(q)' = Uses2(q)
    BY DEF Uses1, Uses2
  <2>2. Working' = Working /\ Finishing' = Finishing
    BY DEF Working, Owned, Finishing, slot
  <2> QED
    BY <2>1, <2>2 DEF Inv, HeldOK
<1> QED
  BY <1>1, <1>2, <1>3, <1>4, <1>5, <1>6, <1>7, <1>8, <1>9, <1>10 DEF Inv

LEMMA AnyHandleIsOne == AnyHandle \in Handles /\ AnyHandle.gen = 1
<1>1. PICK s : s \in Slots
  BY EventBounds
<1>2. [slot |-> s, gen |-> 1] \in Handles
  BY <1>1, EventBounds DEF Handles
<1>3. \E h \in Handles : h.gen = 1
  BY <1>2
<1> QED
  BY <1>3 DEF AnyHandle

LEMMA InitInv == Init => Inv
<1> SUFFICES ASSUME Init PROVE Inv
  OBVIOUS
<1>1. TypeOK
  <2>1. /\ gen \in [Slots -> 1..(MaxOpens + 1)] /\ free \in SUBSET Slots /\ refs \in [Slots -> Nat]
        /\ closed \in SUBSET Slots /\ epoll \in SUBSET Handles
        /\ known \in SUBSET Handles /\ cancelled \in SUBSET Handles
        /\ opens \in 0..MaxOpens /\ notes \in 0..MaxNotify
        /\ qrefs \in [Queues -> Nat] /\ work \in Nat
    BY EventBounds DEF Init
  <2>2. /\ ready \in [Slots -> SUBSET Sides] /\ busy \in [Slots -> SUBSET Sides]
        /\ owed \in [Slots -> SUBSET Sides]
    BY DEF Init
  <2>3. params \in [Slots -> Params \cup {NoParams}]
    BY DEF Init
  <2>4. queue \in [Queues -> Seq(TaskSet)]
    BY DEF Init
  <2>5. reported \in [Slots -> Seq(Sides)]
    BY DEF Init
  <2>6. pc \in [Threads -> PCs]
    BY DEF Init, PCs
  <2>7. op \in [Threads -> {"dispatch", "cancel", "side"}]
    BY DEF Init
  <2>8. hdl \in [Threads -> Handles]
    BY AnyHandleIsOne DEF Init
  <2>9. side \in [Threads -> Sides]
    BY DEF Init, Sides
  <2>10. todo \in [Threads -> SUBSET (Sides \cup {"hangup"})]
    BY DEF Init
  <2>11. drops \in [Threads -> 0..2]
    BY DEF Init
  <2>12. held \in [Threads -> [Sides -> Queues \cup {NoQueue}]]
    BY DEF Init, NoQueues
  <2> QED
    BY <2>1, <2>2, <2>3, <2>4, <2>5, <2>6, <2>7, <2>8, <2>9, <2>10, <2>11, <2>12 DEF TypeOK
<1>2. ControlOK
  BY DEF Init, ControlOK, ThreadOK, UserPCs, DispatcherPCs, QueuePCs, Threads
<1>3. HeadOK
  BY DEF Init, HeadOK, Threads
<1>a. \A q \in Queues, i \in Nat : i \notin Pos(q)
  BY DEF Init, Pos
<1>b. \A t \in Threads : pc[t] = "idle" /\ op[t] = "side" /\ held[t] = NoQueues
  BY DEF Init
<1>c. \A u \in Users : u \in Threads
  BY DEF Threads
<1>d. \A q \in Queues : q \in Threads
  BY DEF Threads
<1>4. NamesOK
  <2>1. \A s \in Slots : gen[s] + (IF s \in free THEN 0 ELSE 1) <= opens + 1
    BY DEF Init
  <2> QED
    BY <2>1, <1>a, <1>b, <1>d DEF Init, NamesOK, CheckedPCs, Unfinished
<1>5. OpenOK
  BY <1>b, <1>c DEF Init, OpenOK
<1>6. RefsOK
  <2>1. \A s \in Slots : /\ Starts(s) = {} /\ Closers(s) = {} /\ Callers(s) = {}
                         /\ Posters(s) = {} /\ Tasks(s) = {}
    BY <1>a, <1>b DEF Init, Starts, Started, Closers, Closing, Callers, Calling, Posters, Tasks, Holding
  <2>2. IsFiniteSet({}) /\ Cardinality({}) = 0 /\ \A s \in Slots : refs[s] = 0
    BY FS_EmptySet DEF Init
  <2>3. ASSUME NEW s \in Slots
        PROVE  /\ IsFiniteSet(Closers(s)) /\ IsFiniteSet(Callers(s))
               /\ IsFiniteSet(Posters(s)) /\ IsFiniteSet(Tasks(s))
               /\ Cardinality(Starts(s)) = 0 /\ Cardinality(Closers(s)) = 0
               /\ Cardinality(Callers(s)) = 0 /\ Cardinality(Posters(s)) = 0
               /\ Cardinality(Tasks(s)) = 0 /\ refs[s] = 0
    BY <2>1, <2>2, Zenon
  <2> QED
    BY <2>3 DEF RefsOK
<1>7. LastOK
  BY <1>a, <1>b DEF LastOK, Telling, Unfinished
<1>8. KernelOK
  BY <1>b DEF Init, KernelOK, Added
<1>9. BusyOK
  <2>1. \A t \in Threads, s \in Slots, d \in Sides : ~Posting(t, s, d)
    BY <1>b DEF Posting
  <2>2. \A q \in Queues, i \in Nat, s \in Slots, d \in Sides : ~Serving(q, i, s, d)
    BY <1>a DEF Serving
  <2> QED
    BY <2>1, <2>2 DEF Init, BusyOK
<1>10. OwedOK
  BY DEF Init, OwedOK
<1>11. HeldOK
  <2>1. \A q \in Queues : Uses1(q) = {} /\ Uses2(q) = {}
    <3>1. \A q \in Queues : Uses1(q) = {}
      BY DEF Init, Uses1
    <3>2. ASSUME NEW q \in Queues, NEW x \in Queues \X Sides, held[x[1]][x[2]] = q PROVE FALSE
      BY <1>b, <1>d, <3>2, EventThreads DEF NoQueues
    <3> QED
      BY <3>1, <3>2 DEF Uses2
  <2>2. Working = {} /\ Finishing = {}
    BY <1>b, <1>d DEF Init, Working, Finishing
  <2>3. IsFiniteSet({}) /\ Cardinality({}) = 0 /\ work = 0 /\ \A q \in Queues : qrefs[q] = 0
    BY FS_EmptySet DEF Init
  <2>4. ASSUME NEW q \in Queues
        PROVE  /\ IsFiniteSet(Uses1(q)) /\ IsFiniteSet(Uses2(q)) /\ qrefs[q] = 0
               /\ Cardinality(Uses1(q)) = 0 /\ Cardinality(Uses2(q)) = 0
    BY <2>1, <2>3, Zenon
  <2>5. /\ IsFiniteSet(Working) /\ IsFiniteSet(Finishing)
        /\ Cardinality(Working) = 0 /\ Cardinality(Finishing) = 0
    BY <2>2, <2>3, Zenon
  <2> QED
    BY <1>b, <1>d, <2>3, <2>4, <2>5 DEF HeldOK
<1> QED
  BY <1>1, <1>2, <1>3, <1>4, <1>5, <1>6, <1>7, <1>8, <1>9, <1>10, <1>11 DEF Inv

(* The inductive invariant of Event: every step of ntt_event_start, of a   *)
(* dispatch, of ntt_event_cancel and of a served task keeps it.            *)
THEOREM EventInductive == Spec => []Inv
<1>1. Init => Inv
  BY InitInv
<1>2. Inv /\ [Next]_vars => Inv'
  BY NextIsAStep, StepKeepsInv, StutterKeepsInv
<1> QED
  BY <1>1, <1>2, PTL DEF Spec

-----------------------------------------------------------------------------
LEMMA InvStale == Inv => StaleHandleHarmless
<1> SUFFICES ASSUME Inv, NEW t \in Threads,
                    pc[t] \in {"here", "publish", "claim", "post", "push", "close", "del",
                               "call", "handler", "leave_side", "report", "give"}
             PROVE  slot(t) \notin free /\ gen[slot(t)] = hdl[t].gen
  BY DEF StaleHandleHarmless
<1>0. TypeOK /\ ControlOK /\ HeadOK /\ NamesOK
  BY DEF Inv
<1>1. CASE pc[t] \in CheckedPCs
  BY <1>0, <1>1, CheckedIsNamed DEF Added
<1>2. CASE pc[t] \in {"call", "handler", "leave_side", "report", "give"}
  <2>1. t \in Queues
    BY <1>0, <1>2 DEF ControlOK, ThreadOK, Threads, UserPCs, DispatcherPCs
  <2>2. Added(slot(t))
    BY <1>0, <1>2, <2>1, ServedIsNamed
  <2>3. hdl[t].gen = gen[slot(t)]
    BY <1>0, <1>2, <2>1 DEF NamesOK
  <2> QED
    BY <2>2, <2>3 DEF Added
<1> QED
  BY <1>1, <1>2 DEF CheckedPCs

(* A thread that works on an event, whether it dispatches, cancels, serves *)
(* a side or reports, works on the tenant its handle names: a stale handle *)
(* that meets a later tenant of the slot goes no further than the check of *)
(* the generation in ntt_event_live.                                       *)
THEOREM StaleHandlesAreHarmless == Spec => []StaleHandleHarmless
  BY EventInductive, InvStale, PTL

-----------------------------------------------------------------------------
LEMMA InvRegistered == Inv => RegisteredWhileLive
<1> SUFFICES ASSUME Inv PROVE RegisteredWhileLive
  OBVIOUS
<1>1. \A h \in epoll : gen[h.slot] = h.gen
  BY DEF Inv, NamesOK
<1>2. \A h \in epoll : refs[h.slot] > 0
  BY EpollLive
<1>3. \A t \in Threads : pc[t] = "del" => hdl[t] \in epoll
  BY DEF Inv, KernelOK
<1> QED
  BY <1>1, <1>2, <1>3 DEF RegisteredWhileLive

(* The queue of a task that has not let go of its event is held by it.     *)
LEMMA BusyQueueHeld ==
    ASSUME Inv, NEW q \in Queues, NEW i \in Nat, Unfinished(q, i)
    PROVE  qrefs[q] > 0
<1>0. TypeOK /\ NamesOK /\ HeldOK
  BY DEF Inv
<1>1. /\ IsFiniteSet(Uses1(q)) /\ IsFiniteSet(Uses2(q))
      /\ qrefs[q] = Cardinality(Uses1(q)) + Cardinality(Uses2(q))
  BY <1>0 DEF HeldOK
<1>2. Uses1(q) # {}
  <2>1. queue[q] \in Seq(TaskSet) /\ i \in Pos(q)
    BY <1>0 DEF TypeOK, Unfinished
  <2>2. queue[q][i] \in TaskSet
    BY <2>1 DEF Pos
  <2>3. queue[q][i].slot \in Slots /\ queue[q][i].side \in Sides
    BY <2>2 DEF TaskSet
  <2>4. Added(queue[q][i].slot) /\ params[queue[q][i].slot].queues[queue[q][i].side] = q
    BY <1>0 DEF NamesOK
  <2>5. <<queue[q][i].slot, queue[q][i].side>> \in Uses1(q)
    BY <2>3, <2>4 DEF Uses1, Added
  <2> QED
    BY <2>5
<1> QED
  BY <1>1, <1>2, SetIsEmpty

LEMMA InvHeld == Inv => QueuesHeldByEvents
<1> SUFFICES ASSUME Inv PROVE QueuesHeldByEvents
  OBVIOUS
<1>0. TypeOK /\ ControlOK /\ OpenOK /\ NamesOK /\ HeldOK
  BY DEF Inv
<1>1. \A q \in Queues : qrefs[q] = Cardinality(Uses1(q)) + Cardinality(Uses2(q))
  BY <1>0 DEF HeldOK
<1>2. ASSUME NEW q \in Queues, NEW i \in 1..Len(queue[q]),
             ~(i = 1 /\ pc[q] \in {"finish", "leave_work", "end"})
      PROVE  qrefs[q] > 0
  <2>1. i \in Nat /\ i \in Pos(q)
    BY <1>0 DEF Pos, TypeOK
  <2> QED
    BY <1>2, <2>1, BusyQueueHeld DEF Unfinished
<1>3. work = 0 => Working = {} /\ Finishing = {}
  <2>1. IsFiniteSet(Working) /\ IsFiniteSet(Finishing)
        /\ work = Cardinality(Working) + Cardinality(Finishing)
    BY <1>0 DEF HeldOK
  <2> QED
    BY <2>1, SetIsEmpty
<1>4. ASSUME work = 0, NEW t \in Threads PROVE held[t] = NoQueues
  <2>1. ThreadOK(t)
    BY <1>0 DEF ControlOK
  <2>2. pc[t] # "finish"
    BY <1>3, <1>4, <2>1 DEF Finishing, ThreadOK, Threads, UserPCs, DispatcherPCs
  <2> QED
    BY <2>1, <2>2 DEF ThreadOK
<1>5. ASSUME work = 0, NEW s \in Slots, refs[s] > 0 PROVE Owned(s)
  <2>1. s \notin free /\ \A u \in Users : ~(pc[u] = "store" /\ slot(u) = s)
    BY <1>0, <1>5 DEF OpenOK
  <2> QED
    BY <1>3, <1>5, <2>1 DEF Working
<1>6. work = 0 => \A h \in epoll : Owned(h.slot)
  BY <1>5, EpollLive
<1> QED
  BY <1>1, <1>2, <1>4, <1>5, <1>6 DEF QueuesHeldByEvents, Uses1, Uses2

(* The kernel reports only events that are alive, the canceller that owes  *)
(* the removal finds the registration, and queues and loop outlive what    *)
(* events have in them: epoll_ctl and the pushes of event.c never act on   *)
(* what is gone.                                                           *)
THEOREM EventIsConsistent == Spec => []EventConsistent
<1>1. Inv => EventConsistent
  BY InvRegistered, InvHeld DEF Inv, EventConsistent
<1> QED
  BY <1>1, EventInductive, PTL

-----------------------------------------------------------------------------
(* Places and servers, one by one.                                         *)
LEMMA PlaceIs ==
    ASSUME NEW k, NEW x
    PROVE  x \in Places(k) <=>
             \E q \in Queues, i \in Nat : /\ x = <<q, i>> /\ i \in Pos(q)
                                          /\ queue[q][i] = k
<1>1. ASSUME x \in Places(k)
      PROVE  \E q \in Queues, i \in Nat : x = <<q, i>> /\ i \in Pos(q) /\ queue[q][i] = k
  <2>1. PICK q \in Queues : x \in {q} \X (1..Len(queue[q]))
    BY <1>1 DEF Places
  <2>2. queue[x[1]][x[2]] = k
    BY <1>1 DEF Places
  <2>3. PICK i \in 1..Len(queue[q]) : x = <<q, i>>
    BY <2>1
  <2>4. i \in Nat
    BY <2>3
  <2> QED
    BY <2>2, <2>3, <2>4 DEF Pos
<1>2. ASSUME NEW q \in Queues, NEW i \in Nat, x = <<q, i>>, i \in Pos(q), queue[q][i] = k
      PROVE  x \in Places(k)
  <2>1. x \in {q} \X (1..Len(queue[q]))
    BY <1>2 DEF Pos
  <2>2. queue[x[1]][x[2]] = k
    BY <1>2
  <2> QED
    BY <2>1, <2>2 DEF Places
<1> QED
  BY <1>1, <1>2

LEMMA ServerIs ==
    ASSUME NEW s, NEW d, NEW x
    PROVE  x \in Servers(s, d) <=>
             \/ \E t \in Threads : x = <<"post", t>> /\ Posting(t, s, d)
             \/ \E q \in Queues, i \in Nat : x = <<"task", q, i>> /\ Serving(q, i, s, d)
<1> DEFINE P == {u \in Dispatchers : pc[u] \in {"post", "push"} /\ slot(u) = s /\ side[u] = d}
           K == {y \in Places(Task("side", s, d)) : ~(y[2] = 1 /\ LeftSide(y[1]))}
<1>1. x \in Servers(s, d) <=> \/ \E t \in P : x = <<"post", t>>
                              \/ \E y \in K : x = <<"task", y[1], y[2]>>
  BY DEF Servers
<1>2. (\E t \in P : x = <<"post", t>>) <=> (\E t \in Threads : x = <<"post", t>> /\ Posting(t, s, d))
  BY DEF Posting, Threads
<1>3. ASSUME NEW y \in K, x = <<"task", y[1], y[2]>>
      PROVE  \E q \in Queues, i \in Nat : x = <<"task", q, i>> /\ Serving(q, i, s, d)
  <2>1. PICK q \in Queues, i \in Nat : y = <<q, i>> /\ i \in Pos(q) /\ queue[q][i] = Task("side", s, d)
    BY PlaceIs
  <2> QED
    BY <1>3, <2>1 DEF Serving
<1>4. ASSUME NEW q \in Queues, NEW i \in Nat, x = <<"task", q, i>>, Serving(q, i, s, d)
      PROVE  \E y \in K : x = <<"task", y[1], y[2]>>
  <2>1. <<q, i>> \in Places(Task("side", s, d))
    BY <1>4, PlaceIs DEF Serving
  <2>2. <<q, i>> \in K
    BY <1>4, <2>1 DEF Serving
  <2> QED
    BY <1>4, <2>2
<1> QED
  BY <1>1, <1>2, <1>3, <1>4

LEMMA InvOneServer == Inv => OneServerPerSide
<1> SUFFICES ASSUME Inv, NEW s \in Slots \ free, NEW d \in Sides
             PROVE  IF d \in busy[s] THEN \E x \in Servers(s, d) : Servers(s, d) = {x}
                                     ELSE Servers(s, d) = {}
  BY DEF OneServerPerSide
<1>0. BusyOK
  BY DEF Inv
<1>1. /\ \A t \in Threads : Posting(t, s, d) => d \in busy[s]
      /\ \A q \in Queues, i \in Nat : Serving(q, i, s, d) => d \in busy[s]
      /\ \A t, u \in Threads : Posting(t, s, d) /\ Posting(u, s, d) => t = u
      /\ \A t \in Threads, q \in Queues, i \in Nat :
            ~(Posting(t, s, d) /\ Serving(q, i, s, d))
      /\ \A q, p \in Queues, i, j \in Nat :
            Serving(q, i, s, d) /\ Serving(p, j, s, d) => q = p /\ i = j
      /\ d \in busy[s] => \/ \E t \in Threads : Posting(t, s, d)
                          \/ \E q \in Queues, i \in Nat : Serving(q, i, s, d)
  BY <1>0 DEF BusyOK
<1>2. CASE d \notin busy[s]
  <2>1. \A x : x \notin Servers(s, d)
    BY <1>1, <1>2, ServerIs
  <2> QED
    BY <1>2, <2>1
<1>3. CASE d \in busy[s]
  <2>1. \E x : x \in Servers(s, d)
    <3>1. CASE \E t \in Threads : Posting(t, s, d)
      <4>1. PICK t \in Threads : Posting(t, s, d)
        BY <3>1
      <4>2. <<"post", t>> \in Servers(s, d)
        BY <4>1, ServerIs
      <4> QED
        BY <4>2
    <3>2. CASE \E q \in Queues, i \in Nat : Serving(q, i, s, d)
      <4>1. PICK q \in Queues, i \in Nat : Serving(q, i, s, d)
        BY <3>2
      <4>2. <<"task", q, i>> \in Servers(s, d)
        BY <4>1, ServerIs
      <4> QED
        BY <4>2
    <3> QED
      BY <1>1, <1>3, <3>1, <3>2
  <2>2. ASSUME NEW x \in Servers(s, d), NEW y \in Servers(s, d) PROVE x = y
    <3>1. \/ \E t \in Threads : x = <<"post", t>> /\ Posting(t, s, d)
          \/ \E q \in Queues, i \in Nat : x = <<"task", q, i>> /\ Serving(q, i, s, d)
      BY ServerIs
    <3>2. \/ \E t \in Threads : y = <<"post", t>> /\ Posting(t, s, d)
          \/ \E q \in Queues, i \in Nat : y = <<"task", q, i>> /\ Serving(q, i, s, d)
      BY ServerIs
    <3> QED
      BY <1>1, <3>1, <3>2
  <2> QED
    BY <1>3, <2>1, <2>2
<1> QED
  BY <1>2, <1>3

LEMMA InvNotified == Inv => NotificationKept
<1> SUFFICES ASSUME Inv, NEW s \in Slots \ (free \cup closed), NEW d \in owed[s]
             PROVE  \/ \E t \in Dispatchers :
                          pc[t] \in {"claim", "post", "push"} /\ slot(t) = s /\ d \in todo[t]
                    \/ \E x \in Servers(s, d) :
                          x[1] = "task" => x[3] # 1 \/ pc[x[2]] \in {"idle", "call"}
                    \/ d \in ready[s] /\ d \in busy[s]
  BY DEF NotificationKept
<1>0. OwedOK /\ d \in Sides
  BY DEF Inv, TypeOK
<1>1. /\ d \in ready[s] => d \in busy[s] \/ \E t \in Threads : Delivering(t, s, d)
      /\ \/ d \in ready[s]
         \/ \E t \in Threads : Posting(t, s, d)
         \/ \E q \in Queues, i \in Nat : AboutToCall(q, i, s, d)
  BY <1>0 DEF OwedOK
<1>2. CASE d \in ready[s]
  BY <1>1, <1>2 DEF Delivering
<1>3. CASE \E t \in Threads : Posting(t, s, d)
  <2>1. PICK t \in Threads : Posting(t, s, d)
    BY <1>3
  <2>2. <<"post", t>> \in Servers(s, d)
    BY <2>1, ServerIs
  <2>3. <<"post", t>>[1] # "task"
    OBVIOUS
  <2> QED
    BY <2>2, <2>3
<1>4. CASE \E q \in Queues, i \in Nat : AboutToCall(q, i, s, d)
  <2>1. PICK q \in Queues, i \in Nat : AboutToCall(q, i, s, d)
    BY <1>4
  <2>2. PICK x : x = <<"task", q, i>>
    OBVIOUS
  <2>3. x \in Servers(s, d)
    BY <2>1, <2>2, ServerIs DEF AboutToCall
  <2>4. x[2] = q /\ x[3] = i
    BY <2>2
  <2> QED
    BY <2>1, <2>3, <2>4 DEF AboutToCall
<1> QED
  BY <1>1, <1>2, <1>3, <1>4

(* However many workers dispatch, serve and leave at once, a side has one  *)
(* server at a time, and a published notification of an open event always  *)
(* has somebody who will call the handler for it: the hand-over between    *)
(* ntt_event_claim_side and ntt_event_leave_side loses nothing.            *)
THEOREM SidesAreServed == Spec => []SidesServed
<1>1. Inv => SidesServed
  BY InvOneServer, InvNotified DEF SidesServed
<1> QED
  BY <1>1, EventInductive, PTL

-----------------------------------------------------------------------------
(* A set counted through a one-to-one relabelling of its elements.         *)
LEMMA Relabelled ==
    ASSUME NEW S, NEW T, NEW f, f = [x \in S |-> f[x]], IsFiniteSet(S),
           \A x, y \in S : f[x] = f[y] => x = y,
           \A z : z \in T <=> \E x \in S : z = f[x]
    PROVE  IsFiniteSet(T) /\ Cardinality(T) = Cardinality(S)
<1>1. f \in [S -> T]
  OBVIOUS
<1>2. f \in Bijection(S, T)
  BY <1>1 DEF Bijection, Injection, Surjection, IsInjective
<1> QED
  BY <1>2, FS_Bijection DEF ExistsBijection

LEMMA Tagged ==
    ASSUME NEW S, IsFiniteSet(S), NEW tag
    PROVE  /\ IsFiniteSet({<<tag, x>> : x \in S})
           /\ Cardinality({<<tag, x>> : x \in S}) = Cardinality(S)
<1>1. PICK f : f = [x \in S |-> <<tag, x>>]
  OBVIOUS
<1>2. f = [x \in S |-> f[x]] /\ \A x \in S : f[x] = <<tag, x>>
  BY <1>1
<1>3. \A x, y \in S : f[x] = f[y] => x = y
  BY <1>2
<1>4. \A z : z \in {<<tag, x>> : x \in S} <=> \E x \in S : z = f[x]
  BY <1>2
<1> QED
  BY <1>2, <1>3, <1>4, Relabelled

(* The count of a union of sets that have nothing in common.               *)
LEMMA Apart ==
    ASSUME NEW S, NEW T, IsFiniteSet(S), IsFiniteSet(T), \A x \in S : x \notin T
    PROVE  /\ IsFiniteSet(S \cup T)
           /\ Cardinality(S \cup T) = Cardinality(S) + Cardinality(T)
           /\ Cardinality(S) \in Nat /\ Cardinality(T) \in Nat
<1>1. S \cap T = {}
  OBVIOUS
<1>2. Cardinality(S \cap T) = 0
  BY <1>1, FS_EmptySet, Zenon
<1>3. Cardinality(S) \in Nat /\ Cardinality(T) \in Nat
  BY FS_CardinalityType
<1>4. /\ IsFiniteSet(S \cup T)
      /\ Cardinality(S \cup T) = Cardinality(S) + Cardinality(T) - Cardinality(S \cap T)
  BY FS_Union, Zenon
<1> QED
  BY <1>2, <1>3, <1>4

TaskHolders(s) == UNION {{<<"task", x[1], x[2]>> : x \in
                             {y \in Places(Task("side", s, d)) :
                                 ~(y[2] = 1 /\ LeftEvent(y[1]))}} : d \in Sides}

LEMMA TaskHolderIs ==
    ASSUME TypeOK, NEW s \in Slots, NEW z
    PROVE  z \in TaskHolders(s) <=> \E x \in Tasks(s) : z = <<"task", x[1], x[2]>>
<1>1. ASSUME z \in TaskHolders(s) PROVE \E x \in Tasks(s) : z = <<"task", x[1], x[2]>>
  <2>0. PICK d \in Sides : z \in {<<"task", x[1], x[2]>> : x \in
                             {y \in Places(Task("side", s, d)) :
                                 ~(y[2] = 1 /\ LeftEvent(y[1]))}}
    BY <1>1 DEF TaskHolders
  <2>1. PICK y \in Places(Task("side", s, d)) :
           ~(y[2] = 1 /\ LeftEvent(y[1])) /\ z = <<"task", y[1], y[2]>>
    BY <2>0
  <2>2. PICK q \in Queues, i \in Nat : y = <<q, i>> /\ i \in Pos(q) /\ queue[q][i] = Task("side", s, d)
    BY PlaceIs
  <2>3. Holding(q, i, s)
    BY <2>1, <2>2 DEF Holding, Task
  <2>4. y \in Tasks(s)
    BY <2>2, <2>3 DEF Tasks
  <2> QED
    BY <2>1, <2>4
<1>2. ASSUME NEW x \in Tasks(s), z = <<"task", x[1], x[2]>> PROVE z \in TaskHolders(s)
  <2>1. PICK q \in Queues, i \in Nat : x = <<q, i>> /\ Holding(q, i, s)
    BY DEF Tasks
  <2>2. queue[q] \in Seq(TaskSet) /\ i \in Pos(q)
    BY <2>1 DEF TypeOK, Holding
  <2>3. queue[q][i] \in TaskSet
    BY <2>2 DEF Pos
  <2>4. PICK d \in Sides : d = queue[q][i].side
    BY <2>3 DEF TaskSet
  <2>5. queue[q][i] = Task("side", s, d)
    BY <2>1, <2>3, <2>4 DEF TaskSet, Task, Holding
  <2>6. x \in Places(Task("side", s, d))
    BY <2>1, <2>2, <2>5, PlaceIs
  <2>7. ~(x[2] = 1 /\ LeftEvent(x[1]))
    BY <2>1 DEF Holding
  <2> QED
    BY <1>2, <2>6, <2>7 DEF TaskHolders
<1> QED
  BY <1>1, <1>2

LEMMA TaskHolderCount ==
    ASSUME TypeOK, NEW s \in Slots, IsFiniteSet(Tasks(s))
    PROVE  IsFiniteSet(TaskHolders(s)) /\ Cardinality(TaskHolders(s)) = Cardinality(Tasks(s))
<1>1. PICK f : f = [x \in Tasks(s) |-> <<"task", x[1], x[2]>>]
  OBVIOUS
<1>2. f = [x \in Tasks(s) |-> f[x]] /\ \A x \in Tasks(s) : f[x] = <<"task", x[1], x[2]>>
  BY <1>1
<1>3. ASSUME NEW x \in Tasks(s), NEW y \in Tasks(s), f[x] = f[y] PROVE x = y
  <2>1. x[1] = y[1] /\ x[2] = y[2]
    BY <1>2, <1>3
  <2>2. x \in Queues \X Nat /\ y \in Queues \X Nat
    BY DEF Tasks
  <2> QED
    BY <2>1, <2>2
<1>4. ASSUME NEW z PROVE z \in TaskHolders(s) <=> \E x \in Tasks(s) : z = f[x]
  <2>1. z \in TaskHolders(s) <=> \E x \in Tasks(s) : z = <<"task", x[1], x[2]>>
    BY TaskHolderIs, Zenon
  <2> QED
    BY <1>2, <2>1
<1> HIDE DEF Tasks, TaskHolders
<1> QED
  BY <1>2, <1>3, <1>4, Relabelled

LEMMA HoldersSplit ==
    ASSUME NEW s \in Slots
    PROVE  Holders(s) = (((({<<"start", x>> : x \in Starts(s)}
                              \cup {<<"close", t>> : t \in Closers(s)})
                              \cup {<<"call", t>> : t \in Callers(s)})
                              \cup {<<"post", t>> : t \in Posters(s)})
                              \cup TaskHolders(s))
<1>1. {<<"start", s>> : x \in {y \in {s} \ (free \cup closed) :
          \A u \in Users : ~(pc[u] = "store" /\ slot(u) = s)}}
        = {<<"start", x>> : x \in Starts(s)}
  BY DEF Starts, Started
<1>2. {u \in Threads : slot(u) = s /\ (pc[u] = "del" \/ (pc[u] = "release" /\ drops[u] = 2))}
        = Closers(s)
  BY DEF Closers, Closing
<1>3. {u \in Threads : slot(u) = s /\ op[u] # "side" /\
        pc[u] \in {"check", "here", "publish", "claim", "post", "push", "close",
                   "del", "release"}} = Callers(s)
  BY DEF Callers, Calling, CallPCs, CheckedPCs
<1> QED
  BY <1>1, <1>2, <1>3, Zenon DEF Holders, Posters, TaskHolders

LEMMA InvHolders == Inv => RefsCountHolders
<1> SUFFICES ASSUME Inv, NEW s \in Slots PROVE refs[s] = Cardinality(Holders(s))
  BY DEF RefsCountHolders
<1>0. TypeOK /\ RefsOK
  BY DEF Inv
<1> DEFINE A == {<<"start", x>> : x \in Starts(s)}
           B == {<<"close", t>> : t \in Closers(s)}
           C == {<<"call", t>> : t \in Callers(s)}
           D == {<<"post", t>> : t \in Posters(s)}
           E == TaskHolders(s)
<1>1. /\ IsFiniteSet(Closers(s)) /\ IsFiniteSet(Callers(s))
      /\ IsFiniteSet(Posters(s)) /\ IsFiniteSet(Tasks(s))
      /\ refs[s] = Cardinality(Starts(s)) + Cardinality(Closers(s))
                     + Cardinality(Callers(s)) + Cardinality(Posters(s))
                     + Cardinality(Tasks(s))
  BY <1>0 DEF RefsOK
<1>2. IsFiniteSet(Starts(s))
  <2>1. IsFiniteSet({s}) /\ Starts(s) \subseteq {s}
    BY FS_Singleton DEF Starts
  <2> QED
    BY <2>1, FS_Subset
<1>3. IsFiniteSet(A) /\ Cardinality(A) = Cardinality(Starts(s))
  BY <1>2, Tagged, Zenon
<1>4. IsFiniteSet(B) /\ Cardinality(B) = Cardinality(Closers(s))
  BY <1>1, Tagged, Zenon
<1>5. IsFiniteSet(C) /\ Cardinality(C) = Cardinality(Callers(s))
  BY <1>1, Tagged, Zenon
<1>6. IsFiniteSet(D) /\ Cardinality(D) = Cardinality(Posters(s))
  BY <1>1, Tagged, Zenon
<1>7. IsFiniteSet(E) /\ Cardinality(E) = Cardinality(Tasks(s))
  BY <1>0, <1>1, TaskHolderCount, Zenon
<1>8. /\ \A x \in A : x[1] = "start"
      /\ \A x \in B : x[1] = "close"
      /\ \A x \in C : x[1] = "call"
      /\ \A x \in D : x[1] = "post"
  OBVIOUS
<1>9. \A x \in E : x[1] = "task"
  <2>1. \A x \in E : \E y \in Tasks(s) : x = <<"task", y[1], y[2]>>
    BY <1>0, TaskHolderIs, Zenon
  <2> QED
    BY <2>1
<1>10. Holders(s) = ((((A \cup B) \cup C) \cup D) \cup E)
  BY HoldersSplit, Zenon
<1> HIDE DEF A, B, C, D, E
<1>11. /\ IsFiniteSet(A \cup B) /\ Cardinality(A \cup B) = Cardinality(A) + Cardinality(B)
       /\ Cardinality(A) \in Nat /\ Cardinality(B) \in Nat
  BY <1>3, <1>4, <1>8, Apart
<1>12. \A x \in A \cup B : x[1] \in {"start", "close"}
  BY <1>8
<1>13. PICK F : F = A \cup B
  OBVIOUS
<1>14. /\ IsFiniteSet(F \cup C) /\ Cardinality(F \cup C) = Cardinality(F) + Cardinality(C)
       /\ Cardinality(C) \in Nat
  BY <1>5, <1>8, <1>11, <1>12, <1>13, Apart
<1>15. PICK G : G = F \cup C
  OBVIOUS
<1>16. \A x \in G : x[1] \in {"start", "close", "call"}
  BY <1>8, <1>12, <1>13, <1>15
<1>17. /\ IsFiniteSet(G \cup D) /\ Cardinality(G \cup D) = Cardinality(G) + Cardinality(D)
       /\ Cardinality(D) \in Nat
  BY <1>6, <1>8, <1>14, <1>15, <1>16, Apart
<1>18. PICK H : H = G \cup D
  OBVIOUS
<1>19. \A x \in H : x[1] \in {"start", "close", "call", "post"}
  BY <1>8, <1>16, <1>18
<1>20. Cardinality(H \cup E) = Cardinality(H) + Cardinality(E) /\ Cardinality(E) \in Nat
  BY <1>7, <1>9, <1>17, <1>18, <1>19, Apart
<1>21. Holders(s) = H \cup E
  BY <1>10, <1>13, <1>15, <1>18, Zenon
<1>22. Cardinality(Holders(s)) =
          Cardinality(A) + Cardinality(B) + Cardinality(C) + Cardinality(D) + Cardinality(E)
  <2>1. Cardinality(F) = Cardinality(A) + Cardinality(B)
    BY <1>11, <1>13
  <2>2. Cardinality(G) = Cardinality(F) + Cardinality(C)
    BY <1>14, <1>15
  <2>3. Cardinality(H) = Cardinality(G) + Cardinality(D)
    BY <1>17, <1>18
  <2>4. Cardinality(Holders(s)) = Cardinality(H) + Cardinality(E)
    BY <1>20, <1>21
  <2> QED
    BY <2>1, <2>2, <2>3, <2>4
<1> QED
  BY <1>1, <1>3, <1>4, <1>5, <1>6, <1>7, <1>22

(* The reference count of an event is the number of those entitled to one, *)
(* whatever the order of starts, dispatches, cancels, posts and releases:  *)
(* ntt_event_release reaches zero when nobody uses the event any more, and *)
(* never before.                                                           *)
THEOREM RefsAreHolders == Spec => []RefsCountHolders
  BY InvHolders, EventInductive, PTL

-----------------------------------------------------------------------------
(* Who has been told of the cancellation.                                  *)
LEMMA ReportedSteps ==
    ASSUME Inv, NEW t \in Threads, StepOf(t), NEW s \in Slots
    PROVE  \/ Opens(t, s) /\ reported'[s] = <<>>
           \/ /\ t \in Queues /\ ReportCancelled(t) /\ slot(t) = s
              /\ Telling(t, 1, s) /\ queue[t][1].side = side[t]
              /\ reported'[s] = Append(reported[s], side[t])
           \/ ~Opens(t, s) /\ ~(t \in Queues /\ ReportCancelled(t) /\ slot(t) = s)
                /\ reported'[s] = reported[s]
<1>0. TypeOK /\ HeadOK
  BY DEF Inv
<1>1. CASE \E r \in Slots : Opens(t, r)
  <2>1. PICK r \in Slots : Opens(t, r)
    BY <1>1
  <2>2. /\ pc[t] = "idle" /\ t \in Users /\ reported'[r] = <<>>
        /\ \A x \in Slots : x # r => reported'[x] = reported[x]
    BY <1>0, <2>1, OpensEffect DEF Opens
  <2>3. ~(t \in Queues /\ ReportCancelled(t))
    BY <2>2 DEF ReportCancelled
  <2>4. CASE r = s
    BY <2>1, <2>2, <2>4
  <2>5. CASE r # s
    <3>1. pc'[t] = "store" /\ hdl'[t] = HandleOf(r)
      BY <1>0, <2>1, <2>2, OpensEffect
    <3>2. ~Opens(t, s)
      <4>1. SUFFICES ASSUME Opens(t, s) PROVE FALSE
        OBVIOUS
      <4>2. hdl'[t] = HandleOf(s)
        BY <1>0, <2>2, <4>1, OpensEffect
      <4> QED
        BY <2>5, <3>1, <4>2 DEF HandleOf
    <3> QED
      BY <2>2, <2>3, <2>5, <3>2
  <2> QED
    BY <2>4, <2>5
<1>2. CASE t \in Queues /\ ReportCancelled(t)
  <2>1. /\ pc[t] = "report" /\ reported' = [reported EXCEPT ![slot(t)] = Append(@, side[t])]
    BY <1>2 DEF ReportCancelled
  <2>2. Unfinished(t, 1) /\ queue[t][1].slot = slot(t) /\ queue[t][1].side = side[t]
        /\ queue[t][1].kind = "cancelled"
    BY <1>0, <1>2, <2>1 DEF HeadOK, Unfinished
  <2>3. ~Opens(t, s)
    BY <1>2, EventThreads DEF Opens
  <2>4. reported \in [Slots -> Seq(Sides)]
    BY <1>0 DEF TypeOK
  <2> QED
    BY <1>2, <2>1, <2>2, <2>3, <2>4 DEF Telling
<1>3. CASE ~(\E r \in Slots : Opens(t, r)) /\ ~(t \in Queues /\ ReportCancelled(t))
  <2>1. UNCHANGED reported
    BY <1>3 DEF StepOf, Opens, Notify, Cancel, Call, Resolve, CheckGeneration, Release, PostCancelled,
       Close, EpollDel, Wakeup, Open, StoreRefs, EpollAdd, Dispatch, Publish, ClaimSide, Delivered,
       PostSide, PushSide, ServedHere, Serve, BeginTask, CallHandler, HandlerReturns, LeaveSide,
       GiveSlot, ReleaseHeld, FinishEvent, EndTask, ghost_vars
  <2> QED
    BY <1>3, <2>1
<1> QED
  BY <1>1, <1>2, <1>3

LEMMA ToldStepA ==
    ASSUME Inv, ToldOK, NEW t \in Threads, StepOf(t), NEW s \in Slots
    PROVE  /\ s \notin free' /\ refs'[s] > 0 => reported'[s] = <<>>
           /\ \A u \in Users : pc'[u] = "store" /\ slot(u)' = s => reported'[s] = <<>>
           /\ \A u \in Threads : pc'[u] = "report_last" /\ slot(u)' = s => reported'[s] = <<>>
<1>0. TypeOK /\ HeadOK /\ OpenOK /\ LastOK /\ refs[s] \in Nat
  BY DEF Inv, TypeOK
<1>1. CASE Opens(t, s)
  BY <1>1, ReportedSteps, EventThreads DEF Opens
<1>2. CASE t \in Queues /\ ReportCancelled(t) /\ slot(t) = s
  <2>1. Telling(t, 1, s) /\ Gone(s)
    BY <1>0, <1>2, ReportedSteps, EventThreads DEF Opens, LastOK
  <2>2. UNCHANGED <<refs, free>> /\ pc[t] = "report" /\ pc'[t] \in {"end", "give"}
    BY <1>0, <1>2 DEF ReportCancelled, TypeOK, Go, slot_vars
  <2>3. \A u \in Threads : u # t => Still(u)
    BY <1>0, OthersStill
  <2>4. ASSUME NEW u \in Users, pc'[u] = "store", slot(u)' = s PROVE FALSE
    <3>1. u # t /\ u \in Threads
      BY <2>2, <2>4 DEF Threads
    <3>2. pc[u] = "store" /\ slot(u) = s
      BY <2>3, <2>4, <3>1 DEF Still, slot
    <3> QED
      BY <1>0, <2>1, <3>2 DEF OpenOK, Gone
  <2>5. ASSUME NEW u \in Threads, pc'[u] = "report_last", slot(u)' = s PROVE FALSE
    <3>1. u # t
      BY <2>2, <2>5
    <3>2. pc[u] = "report_last" /\ slot(u) = s
      BY <2>3, <2>5, <3>1 DEF Still, slot
    <3> QED
      BY <1>0, <1>2, <2>1, <3>2 DEF LastOK
  <2> QED
    BY <2>1, <2>2, <2>4, <2>5 DEF Gone
<1>3. CASE ~Opens(t, s) /\ ~(t \in Queues /\ ReportCancelled(t) /\ slot(t) = s)
  <2>1. reported'[s] = reported[s]
    BY <1>3, ReportedSteps
  <2>2. ASSUME s \notin free', refs'[s] > 0 PROVE reported[s] = <<>>
    <3>1. s \notin free
      <4>1. CASE \E r \in Slots : Opens(t, r)
        <5>1. PICK r \in Slots : Opens(t, r)
          BY <4>1
        <5>2. r # s /\ free' = free \ {r}
          BY <1>0, <1>3, <5>1, OpensEffect DEF Opens
        <5> QED
          BY <2>2, <5>2
      <4>2. CASE \E r \in Slots : Gives(t, r)
        <5>1. PICK r \in Slots : Gives(t, r)
          BY <4>2
        <5>2. free' = free \cup {r}
          BY <1>0, <5>1, GivesEffect DEF Gives
        <5> QED
          BY <2>2, <5>2
      <4> QED
        BY <2>2, <4>1, <4>2, SlotSteps
    <3>2. CASE refs[s] > 0
      BY <3>1, <3>2 DEF ToldOK
    <3>3. CASE refs[s] = 0
      <4>1. t \in Users /\ StoreRefs(t) /\ slot(t) = s
        BY <2>2, <3>3, ZeroStays
      <4>2. pc[t] = "store"
        BY <4>1 DEF StoreRefs
      <4> QED
        BY <4>1, <4>2 DEF ToldOK
    <3> QED
      BY <1>0, <3>2, <3>3
  <2>3. ASSUME NEW u \in Users, pc'[u] = "store", slot(u)' = s PROVE reported[s] = <<>>
    <3>1. pc[u] = "store" /\ slot(u) = s
      <4>1. u \in Threads
        BY DEF Threads
      <4>2. CASE u # t
        <5>1. Still(u)
          BY <1>0, <4>1, <4>2, OthersStill
        <5> QED
          BY <2>3, <5>1 DEF Still, slot
      <4>3. CASE u = t
        <5>1. pc'[t] # "add"
          BY <2>3, <4>3
        <5>2. PICK r \in Slots : Opens(t, r)
          BY <1>0, <2>3, <4>3, <5>1, StoreSteps
        <5>3. hdl'[t] = HandleOf(r)
          BY <1>0, <5>2, OpensEffect DEF Opens
        <5>4. r = s
          BY <2>3, <4>3, <5>3 DEF slot, HandleOf
        <5> QED
          BY <1>3, <5>2, <5>4
      <4> QED
        BY <4>2, <4>3
    <3> QED
      BY <3>1 DEF ToldOK
  <2>4. ASSUME NEW u \in Threads, pc'[u] = "report_last", slot(u)' = s PROVE reported[s] = <<>>
    <3>1. CASE pc[u] = "report_last" /\ slot(u) = s
      BY <3>1 DEF ToldOK
    <3>2. CASE Release(t) /\ refs[slot(t)] = 1 /\ slot(t) = s
      BY <1>0, <3>2, LastIsClosed DEF ToldOK
    <3> QED
      BY <2>4, <3>1, <3>2, LastSteps
  <2> QED
    BY <2>1, <2>2, <2>3, <2>4
<1> QED
  BY <1>1, <1>2, <1>3

LEMMA GiveSteps ==
    ASSUME TypeOK, NEW t \in Threads, StepOf(t)
    PROVE  /\ pc'[t] = "give" => t \in Queues /\ ReportCancelled(t)
           /\ pc[t] = "give" => t \in Queues /\ GiveSlot(t)
<1> USE DEF TypeOK, Go, thread_vars
<1>1. CASE \E s \in Slots, p \in Params : t \in Users /\ OpenEvent(t, s, p)
  BY <1>1 DEF OpenEvent
<1>2. CASE \E h \in Handles : \E events \in SUBSET (Sides \cup {"hangup"}) : Notify(t, h, events)
  BY <1>2 DEF Notify
<1>3. CASE \E h \in Handles : Cancel(t, h)
  BY <1>3 DEF Cancel
<1>4. CASE Call(t)
  BY <1>4 DEF Call, Resolve, CheckGeneration, Release, PostCancelled, Close, EpollDel, Wakeup, Returns
<1>5. CASE t \in Users /\ Open(t)
  BY <1>5 DEF Open, StoreRefs, EpollAdd
<1>6. CASE t \in Dispatchers /\ Dispatch(t)
  BY <1>6 DEF Dispatch, Publish, ClaimSide, Delivered, PostSide, PushSide, ServedHere
<1>7. CASE t \in Queues /\ Serve(t)
  BY <1>7 DEF Serve, BeginTask, CallHandler, HandlerReturns, LeaveSide, ReportCancelled,
              GiveSlot, ReleaseHeld, FinishEvent, EndTask
<1> QED
  BY <1>1, <1>2, <1>3, <1>4, <1>5, <1>6, <1>7 DEF StepOf

LEMMA TwoWords ==
    ASSUME NEW x \in Sides, NEW y \in Sides
    PROVE  Append(<<x>>, y) = <<x, y>>
<1>1. <<x>> \in Seq(Sides) /\ <<x, y>> \in Seq(Sides) /\ Len(<<x>>) = 1 /\ <<x>>[1] = x
  OBVIOUS
<1>2. /\ Append(<<x>>, y) \in Seq(Sides) /\ Len(Append(<<x>>, y)) = 2
      /\ Append(<<x>>, y)[1] = x /\ Append(<<x>>, y)[2] = y
  BY <1>1, AppendProperties
<1>3. Len(<<x, y>>) = 2 /\ <<x, y>>[1] = x /\ <<x, y>>[2] = y
  OBVIOUS
<1>4. PICK a \in Seq(Sides), b \in Seq(Sides) : a = Append(<<x>>, y) /\ b = <<x, y>>
  BY <1>1, <1>2
<1>5. Len(a) = 2 /\ Len(b) = 2 /\ \A i \in 1..2 : a[i] = b[i]
  BY <1>2, <1>3, <1>4
<1>6. a = b
  BY <1>5, SeqEqual
<1> QED
  BY <1>4, <1>6

(* The word a report adds.                                                 *)
LEMMA ReportTells ==
    ASSUME Inv, ToldOK, NEW t \in Queues, ReportCancelled(t), StepOf(t),
           NEW s \in Slots, s = slot(t)
    PROVE  /\ Telling(t, 1, s) /\ pc[t] = "report"
           /\ reported[s] = ToldBefore(s, side[t])
           /\ IF side[t] = "writable" /\ params[s].queues["readable"] # NoQueue
              THEN /\ reported[s] = <<>> /\ FirstReport(s) = "writable"
                   /\ ReportOrder(s) = <<"writable", "readable">>
                   /\ reported'[s] = <<"writable">>
              ELSE reported'[s] = ReportOrder(s)
<1>0. TypeOK /\ HeadOK /\ NamesOK /\ t \in Threads /\ pc[t] = "report" /\ t # NoQueue
  BY EventThreads DEF Inv, Threads, ReportCancelled
<1>1. /\ Telling(t, 1, s) /\ queue[t][1].side = side[t]
      /\ reported'[s] = Append(reported[s], side[t])
  BY <1>0, ReportedSteps, EventThreads DEF Opens
<1>2. side[t] \in Sides /\ params[s].queues[side[t]] = t
  BY <1>0, SlotOfThread, ServedIsNamed
<1>3. reported[s] = ToldBefore(s, side[t])
  <2>1. reported[s] = IF 1 = 1 /\ pc[t] = "give" THEN ReportOrder(s)
                      ELSE ToldBefore(s, queue[t][1].side)
    BY <1>1 DEF ToldOK
  <2> QED
    BY <1>0, <1>1, <2>1
<1>4. CASE side[t] = "writable"
  <2>1. FirstReport(s) = "writable" /\ reported[s] = <<>>
    BY <1>0, <1>2, <1>3, <1>4 DEF FirstReport, ToldBefore
  <2>2. reported'[s] = <<"writable">>
    BY <1>1, <1>4, <2>1
  <2>3. ReportOrder(s) = IF params[s].queues["readable"] # NoQueue
                         THEN <<"writable", "readable">> ELSE <<"writable">>
    BY <1>0, <1>2, <1>4 DEF ReportOrder, Sides
  <2> QED
    BY <1>0, <1>1, <1>3, <1>4, <2>1, <2>2, <2>3
<1>5. CASE side[t] = "readable"
  <2>1. CASE params[s].queues["writable"] # NoQueue
    <3>1. reported[s] = <<"writable">>
      BY <1>3, <1>5, <2>1 DEF FirstReport, ToldBefore
    <3>2. reported'[s] = <<"writable", "readable">>
      <4>1. reported'[s] = Append(<<"writable">>, "readable")
        BY <1>1, <1>5, <3>1
      <4>2. Append(<<"writable">>, "readable") = <<"writable", "readable">>
        BY TwoWords DEF Sides
      <4> QED
        BY <4>1, <4>2
    <3>3. ReportOrder(s) = <<"writable", "readable">>
      BY <1>0, <1>2, <1>5, <2>1 DEF ReportOrder, Sides
    <3> QED
      BY <1>0, <1>1, <1>3, <1>5, <3>2, <3>3
  <2>2. CASE params[s].queues["writable"] = NoQueue
    <3>1. reported[s] = <<>>
      BY <1>3, <1>5, <2>2 DEF FirstReport, ToldBefore
    <3>2. reported'[s] = <<"readable">>
      BY <1>1, <1>5, <3>1
    <3>3. ReportOrder(s) = <<"readable">>
      BY <1>0, <1>2, <1>5, <2>2 DEF ReportOrder, Sides
    <3> QED
      BY <1>0, <1>1, <1>3, <1>5, <3>2, <3>3
  <2> QED
    BY <2>1, <2>2
<1> QED
  BY <1>2, <1>4, <1>5 DEF Sides

LEMMA SameOrder ==
    ASSUME NEW s, params'[s] = params[s]
    PROVE  /\ FirstReport(s)' = FirstReport(s) /\ ReportOrder(s)' = ReportOrder(s)
           /\ \A d : ToldBefore(s, d)' = ToldBefore(s, d)
  BY DEF FirstReport, ReportOrder, ToldBefore

LEMMA ToldStepB ==
    ASSUME Inv, ToldOK, NEW t \in Threads, StepOf(t), NEW s \in Slots,
           NEW q \in Queues, NEW i \in Nat, Telling(q, i, s)'
    PROVE  reported'[s] = IF i = 1 /\ pc'[q] = "give" THEN ReportOrder(s)'
                          ELSE ToldBefore(s, queue[q][i].side)'
<1>0. TypeOK /\ HeadOK /\ NamesOK /\ LastOK /\ q \in Threads
  BY DEF Inv, Threads
<1>1. Gone(s)' /\ s \notin free' /\ i \in Pos(q)'
  BY TokenSteps DEF Gone, Telling, Unfinished
<1>2. CASE Telling(q, i, s) /\ ~(q = t /\ EndTask(t))
  <2>1. Gone(s) /\ s \notin free /\ i \in Pos(q) /\ queue[q][i].slot = s
    BY <1>0, <1>2 DEF LastOK, Gone, Telling, Unfinished
  <2>2. ~Gives(t, s)
    <3>1. SUFFICES ASSUME Gives(t, s) PROVE FALSE
      OBVIOUS
    <3>2. free' = free \cup {s}
      BY <1>0, <3>1, GivesEffect DEF Gives
    <3> QED
      BY <1>1, <3>2
  <2>3. params'[s] = params[s]
    BY <2>1, <2>2, AddedKept
  <2>4. queue'[q][i] = queue[q][i]
    BY <1>2, <2>1, PlaceStays
  <2>5. PICK d : d = queue[q][i].side
    OBVIOUS
  <2>6. ToldBefore(s, queue[q][i].side)' = ToldBefore(s, d) /\ ReportOrder(s)' = ReportOrder(s)
    BY <2>3, <2>4, <2>5, SameOrder DEF ToldBefore
  <2>7. reported[s] = IF i = 1 /\ pc[q] = "give" THEN ReportOrder(s) ELSE ToldBefore(s, d)
    BY <1>2, <2>5 DEF ToldOK
  <2>8. CASE t \in Queues /\ ReportCancelled(t) /\ slot(t) = s
    <3>1. /\ Telling(t, 1, s)
          /\ IF side[t] = "writable" /\ params[s].queues["readable"] # NoQueue
             THEN TRUE ELSE reported'[s] = ReportOrder(s)
      BY <2>8, ReportTells
    <3>2. q = t /\ i = 1
      BY <1>0, <1>2, <2>8, <3>1 DEF LastOK
    <3>3. pc'[t] # "end"
      BY <3>2 DEF Telling, Unfinished
    <3>4. ~(side[t] = "writable" /\ params[s].queues["readable"] # NoQueue) /\ pc'[t] = "give"
      <4>1. pc \in [Threads -> PCs]
        BY <1>0 DEF TypeOK
      <4> QED
        BY <2>8, <3>3, <4>1 DEF ReportCancelled, Go
    <3> QED
      BY <2>6, <3>1, <3>2, <3>4
  <2>9. CASE ~(t \in Queues /\ ReportCancelled(t) /\ slot(t) = s)
    <3>1. ~Opens(t, s)
      BY <1>0, <2>1, OpensEffect DEF Opens
    <3>2. reported'[s] = reported[s]
      BY <2>9, <3>1, ReportedSteps
    <3>3. i = 1 => (pc'[q] = "give" <=> pc[q] = "give")
      <4>1. CASE q # t
        BY <1>0, <4>1, OthersStill DEF Still
      <4>2. CASE q = t
        <5>1. i = 1 /\ pc[q] # "idle" => slot(q) = s
          BY <1>0, <2>1 DEF HeadOK
        <5>2. i = 1 => pc[q] # "give"
          BY <1>0, <2>2, <4>2, <5>1, GiveSteps DEF Gives
        <5>3. pc'[q] = "give" => ReportCancelled(t) /\ pc[q] = "report"
          BY <1>0, <4>2, GiveSteps DEF ReportCancelled
        <5> QED
          BY <2>9, <4>2, <5>1, <5>2, <5>3
      <4> QED
        BY <4>1, <4>2
    <3> QED
      BY <2>6, <2>7, <3>2, <3>3
  <2> QED
    BY <2>8, <2>9
<1>3. CASE q = t /\ EndTask(t) /\ Telling(q, i + 1, s)
  <2>1. queue'[q][i] = queue[q][i + 1] /\ i # 0
    BY <1>0, <1>1, <1>3, EndFacts
  <2>2. UNCHANGED <<reported, params>> /\ pc'[q] = "idle"
    BY <1>0, <1>3 DEF EndTask, Go, TypeOK, slot_vars, ghost_vars
  <2>3. PICK d : d = queue[q][i + 1].side
    OBVIOUS
  <2>4. ToldBefore(s, queue[q][i].side)' = ToldBefore(s, d)
    BY <2>1, <2>2, <2>3 DEF ToldBefore, FirstReport
  <2>5. PICK j \in Nat : j = i + 1 /\ j # 1
    BY <2>1
  <2>6. reported[s] = IF j = 1 /\ pc[q] = "give" THEN ReportOrder(s) ELSE ToldBefore(s, queue[q][j].side)
    BY <1>3, <2>5 DEF ToldOK
  <2> QED
    BY <2>2, <2>3, <2>4, <2>5, <2>6
<1>4. CASE /\ i = Len(queue[q]) + 1 /\ Pushes(q, queue'[q][i]) /\ slot(t) = s
           /\ \/ PostCancelled(t)
              \/ t \in Queues /\ ReportCancelled(t) /\ pc'[t] = "end"
  <2>1. pc[t] \in {"report", "report_last"}
    BY <1>4 DEF PostCancelled, ReportCancelled
  <2>2. ~(i = 1 /\ pc'[q] = "give")
    <3>1. SUFFICES ASSUME i = 1, pc'[q] = "give" PROVE FALSE
      OBVIOUS
    <3>2. Len(queue[q]) \in Nat
      BY <1>0, <1>4, PushFacts
    <3>3. pc[q] = "idle"
      BY <1>0, <1>4, <3>1, <3>2 DEF HeadOK, Pos
    <3>4. q # t
      BY <2>1, <3>3
    <3> QED
      BY <1>0, <3>1, <3>3, <3>4, OthersStill DEF Still
  <2>3. ASSUME NEW p, NEW k, Pushes(p, k) PROVE queue'[q][i] = k
    <3>1. p = q
      BY <1>0, <1>4, <2>3, OnePush
    <3> QED
      BY <1>0, <1>4, <2>3, <3>1, PushFacts
  <2>4. CASE PostCancelled(t)
    <3>1. Pushes(params[s].queues[FirstReport(s)], Task("cancelled", s, FirstReport(s)))
      BY <1>0, <1>4, <2>4, PostCancelledPushes
    <3>2. queue'[q][i].side = FirstReport(s)
      BY <2>3, <3>1 DEF Task
    <3>3. UNCHANGED <<reported, params>> /\ pc[t] = "report_last"
      BY <2>4 DEF PostCancelled, slot_vars
    <3>4. reported[s] = <<>>
      BY <1>4, <3>3 DEF ToldOK
    <3>5. ToldBefore(s, queue[q][i].side)' = <<>>
      BY <3>2, <3>3 DEF ToldBefore, FirstReport
    <3> QED
      BY <2>2, <3>3, <3>4, <3>5
  <2>5. CASE t \in Queues /\ ReportCancelled(t) /\ pc'[t] = "end"
    <3>1. side[t] = "writable" /\ params[s].queues["readable"] # NoQueue
      <4>1. pc \in [Threads -> PCs]
        BY <1>0 DEF TypeOK
      <4> QED
        BY <1>4, <2>5, <4>1 DEF ReportCancelled, Go
    <3>2. Pushes(params[s].queues["readable"], Task("cancelled", s, "readable"))
      BY <1>0, <1>4, <2>5, <3>1, ReportPushes
    <3>3. queue'[q][i].side = "readable"
      BY <2>3, <3>2 DEF Task
    <3>4. FirstReport(s) = "writable" /\ reported'[s] = <<"writable">>
      BY <1>4, <2>5, <3>1, ReportTells
    <3>5. UNCHANGED params
      BY <2>5 DEF ReportCancelled, slot_vars
    <3>6. ToldBefore(s, queue[q][i].side)' = <<"writable">>
      BY <3>3, <3>4, <3>5 DEF ToldBefore, FirstReport
    <3> QED
      BY <2>2, <3>4, <3>6
  <2> QED
    BY <1>4, <2>4, <2>5
<1> QED
  BY <1>2, <1>3, <1>4, TellingSteps

LEMMA ToldStep ==
    ASSUME Inv, ToldOK, NEW t \in Threads, StepOf(t)
    PROVE  ToldOK'
<1>1. TypeOK'
  BY StepKeepsInv DEF Inv
<1>2. \A u \in Threads : slot(u)' \in Slots
  BY <1>1 DEF TypeOK, Handles, slot
<1>3. \A s \in Slots : s \notin free' /\ refs'[s] > 0 => reported'[s] = <<>>
  BY ToldStepA
<1>4. \A u \in Users : pc'[u] = "store" => reported'[slot(u)'] = <<>>
  BY <1>2, ToldStepA DEF Threads
<1>5. \A u \in Threads : pc'[u] = "report_last" => reported'[slot(u)'] = <<>>
  BY <1>2, ToldStepA
<1>6. \A s \in Slots, q \in Queues, i \in Nat : Telling(q, i, s)' =>
          reported'[s] = IF i = 1 /\ pc'[q] = "give" THEN ReportOrder(s)'
                         ELSE ToldBefore(s, queue[q][i].side)'
  BY ToldStepB
<1> QED
  BY <1>3, <1>4, <1>5, <1>6 DEF ToldOK

-----------------------------------------------------------------------------
(* The slot as Watch sees it.                                              *)
Phase(s) == Blank(s, IF s \in closed THEN "closed" ELSE "open", "none")
Interest(s) == Blank(s, params[s].interest, {})
Order(s) == Blank(s, ReportOrder(s), <<>>)
Notified(s) == Blank(s, ready[s], {})
Taken(s) == Blank(s, busy[s], {})
Runs(q, s, d) == /\ slot(q) = s /\ side[q] = d
                 /\ op[q] = "cancel" \/ pc[q] \in {"handler", "leave_side"}
Running(s) == {d \in Sides : \E q \in Queues : Runs(q, s, d)}
Told(s) == Blank(s, reported[s], <<>>)

(* A handler that runs serves its side.                                    *)
LEMMA RunsServes ==
    ASSUME Inv, NEW q \in Queues, NEW s \in Slots, NEW d \in Sides, Runs(q, s, d)
    PROVE  /\ Serving(q, 1, s, d) /\ Holding(q, 1, s)
           /\ Added(s) /\ s \notin free /\ ~Owned(s) /\ d \in busy[s] /\ refs[s] # 0
           /\ pc[q] \notin {"idle", "call", "finish", "leave_work", "end"}
<1>0. TypeOK /\ ControlOK /\ HeadOK /\ NamesOK /\ RefsOK /\ BusyOK /\ q \in Threads
  BY DEF Inv, Threads
<1>1. pc[q] \in {"handler", "leave_side", "resolve", "check", "close", "del", "release", "report_last"}
      /\ (pc[q] \in {"release", "report_last"} => op[q] # "side")
      /\ op[q] \in {"cancel", "side"}
  BY <1>0 DEF ControlOK, ThreadOK, Runs, TypeOK
<1>2. Holding(q, 1, s) /\ queue[q][1].side = d /\ queue[q][1].kind = "side"
      /\ queue[q][1].slot = s /\ 1 \in Pos(q)
  BY <1>0, <1>1, HeadHolds DEF HeadOK, Runs
<1>3. queue[q][1] = Task("side", s, d)
  <2>1. queue[q] \in Seq(TaskSet)
    BY <1>0 DEF TypeOK
  <2>2. queue[q][1] \in TaskSet
    BY <1>2, <2>1 DEF Pos
  <2> QED
    BY <1>2, <2>2 DEF Task, TaskSet
<1>4. Serving(q, 1, s, d)
  BY <1>1, <1>2, <1>3 DEF Serving, LeftSide
<1>5. Added(s) /\ ~Owned(s)
  BY <1>0, <1>1, ServedIsNamed DEF Runs
<1> QED
  BY <1>0, <1>1, <1>2, <1>4, <1>5, NoRefs DEF BusyOK, Added

LEMMA NothingRuns ==
    ASSUME Inv, NEW s \in Slots, s \in free \/ Owned(s) \/ refs[s] = 0
    PROVE  Running(s) = {}
  BY RunsServes DEF Running

(* A handler begins and ends with the steps of its queue.                  *)
LEMMA RunSteps ==
    ASSUME Inv, NEW t \in Threads, StepOf(t), NEW q \in Queues, NEW s \in Slots, NEW d \in Sides,
           ~(q = t /\ (CallHandler(t) \/ LeaveSide(t)))
    PROVE  Runs(q, s, d)' <=> Runs(q, s, d)
<1>0. TypeOK /\ ControlOK /\ q \in Threads
  BY DEF Inv, Threads
<1>1. CASE q # t
  <2>1. Still(q)
    BY <1>0, <1>1, OthersStill
  <2> QED
    BY <2>1 DEF Runs, Still, slot
<1>2. CASE q = t
  <2>0. ThreadOK(t) /\ t \notin Users /\ t \notin Dispatchers
    BY <1>0, <1>2, EventThreads DEF ControlOK
  <2> USE DEF Runs, TypeOK, Go, thread_vars, slot
  <2>1. CASE \E h \in Handles : Cancel(t, h)
    BY <1>0, <1>2, <2>0, <2>1 DEF Cancel, ThreadOK
  <2>2. CASE Call(t)
    <3>1. CASE Resolve(t)
      BY <1>0, <1>2, <2>0, <3>1 DEF Resolve, Returns, ThreadOK
    <3>2. CASE CheckGeneration(t)
      BY <1>0, <1>2, <2>0, <3>2 DEF CheckGeneration, ThreadOK
    <3>3. CASE Release(t)
      BY <1>0, <1>2, <2>0, <3>3 DEF Release, Returns, ThreadOK
    <3>4. CASE PostCancelled(t)
      BY <1>0, <1>2, <2>0, <3>4 DEF PostCancelled, Returns, ThreadOK
    <3>5. CASE Close(t)
      BY <1>0, <1>2, <2>0, <3>5 DEF Close, ThreadOK
    <3>6. CASE EpollDel(t)
      BY <1>0, <1>2, <2>0, <3>6 DEF EpollDel, ThreadOK
    <3>7. CASE Wakeup(t)
      BY <1>0, <1>2, <2>0, <3>7 DEF Wakeup, ThreadOK, QueuePCs
    <3> QED
      BY <2>2, <3>1, <3>2, <3>3, <3>4, <3>5, <3>6, <3>7 DEF Call
  <2>3. CASE Serve(t)
    <3>1. (op[t] = "side" /\ pc[t] \notin {"handler", "leave_side"}) \/ HandlerReturns(t)
      BY <1>2, <2>0, <2>3 DEF ThreadOK, Serve, BeginTask, HandlerReturns, ReportCancelled,
                              GiveSlot, ReleaseHeld, FinishEvent, EndTask
    <3>2. CASE HandlerReturns(t)
      BY <1>0, <1>2, <2>0, <3>2 DEF HandlerReturns, ThreadOK
    <3>3. CASE ~HandlerReturns(t)
      <4>1. op'[t] = "side" /\ pc'[t] \notin {"handler", "leave_side"}
        <5>1. CASE BeginTask(t)
          BY <1>0, <1>2, <2>0, <2>3, <3>1, <3>3, <5>1 DEF BeginTask
        <5>2. CASE ReportCancelled(t)
          BY <1>0, <1>2, <2>0, <2>3, <3>1, <3>3, <5>2 DEF ReportCancelled
        <5>3. CASE GiveSlot(t)
          BY <1>0, <1>2, <2>0, <2>3, <3>1, <3>3, <5>3 DEF GiveSlot
        <5>4. CASE FinishEvent(t)
          BY <1>0, <1>2, <2>0, <2>3, <3>1, <3>3, <5>4 DEF FinishEvent
        <5>5. CASE EndTask(t)
          BY <1>0, <1>2, <2>0, <2>3, <3>1, <3>3, <5>5 DEF EndTask
        <5>6. CASE ReleaseHeld(t)
          BY <1>0, <1>2, <2>0, <2>3, <3>1, <3>3, <5>6 DEF ReleaseHeld
        <5> QED
          BY <1>0, <1>2, <2>0, <2>3, <3>1, <3>3, <5>1, <5>2, <5>3, <5>4, <5>5, <5>6 DEF Serve
      <4> QED
        BY <1>2, <3>1, <3>3, <4>1
    <3> QED
      BY <3>2, <3>3
  <2> QED
    BY <1>2, <2>0, <2>1, <2>2, <2>3 DEF StepOf
<1> QED
  BY <1>1, <1>2

(* Steps that leave an event as the application sees it alone.             *)
Visible(t, s) ==
    \/ Opens(t, s) \/ Gives(t, s)
    \/ Close(t) /\ slot(t) = s
    \/ t \in Dispatchers /\ slot(t) = s /\ (Publish(t) \/ ClaimSide(t))
    \/ t \in Queues /\ slot(t) = s /\ (CallHandler(t) \/ LeaveSide(t) \/ ReportCancelled(t))

FieldsStay(s) ==
    /\ s \in free' <=> s \in free
    /\ s \in closed' <=> s \in closed
    /\ params'[s] = params[s] /\ ready'[s] = ready[s] /\ busy'[s] = busy[s]
    /\ reported'[s] = reported[s]

LEMMA QuietFields ==
    ASSUME Inv, NEW t \in Threads, StepOf(t), NEW s \in Slots, ~Visible(t, s)
    PROVE  FieldsStay(s)
<1>0. TypeOK /\ slot(t) \in Slots
  BY SlotOfThread DEF Inv
<1>1. CASE \E r \in Slots, p \in Params : t \in Users /\ OpenEvent(t, r, p)
  <2>1. PICK r \in Slots : Opens(t, r)
    BY <1>1 DEF Opens
  <2>2. t \in Users /\ r # s
    BY <2>1 DEF Opens, Visible
  <2>3. /\ free' = free \ {r} /\ closed' = closed \ {r}
        /\ params'[s] = params[s] /\ ready'[s] = ready[s] /\ busy'[s] = busy[s]
        /\ reported'[s] = reported[s]
    BY <1>0, <2>1, <2>2, OpensEffect
  <2> QED
    BY <2>2, <2>3 DEF FieldsStay
<1> USE DEF TypeOK, FieldsStay, Visible, slot_vars, state_vars, ghost_vars
<1>2. CASE \E h \in Handles : \E events \in SUBSET (Sides \cup {"hangup"}) : Notify(t, h, events)
  BY <1>2 DEF Notify
<1>3. CASE \E h \in Handles : Cancel(t, h)
  BY <1>3 DEF Cancel
<1>4. CASE Call(t)
  <2>1. CASE Close(t)
    BY <1>0, <2>1 DEF Close
  <2> QED
    BY <1>4, <2>1 DEF Call, Resolve, CheckGeneration, Release, PostCancelled, EpollDel, Wakeup
<1>5. CASE Open(t)
  BY <1>5 DEF Open, StoreRefs, EpollAdd
<1>6. CASE t \in Dispatchers /\ Dispatch(t)
  <2>1. CASE ClaimSide(t)
    <3>1. /\ \/ UNCHANGED <<busy, ready>>
             \/ /\ busy' = [busy EXCEPT ![slot(t)] = @ \cup {NextSide(t)}]
                /\ ready' = [ready EXCEPT ![slot(t)] = @ \ {NextSide(t)}]
          /\ UNCHANGED <<free, closed, params, reported>>
      BY <2>1 DEF ClaimSide
    <3>2. slot(t) # s
      BY <1>6, <2>1
    <3> QED
      BY <1>0, <3>1, <3>2
  <2>2. CASE Publish(t)
    BY <1>0, <1>6, <2>2 DEF Publish
  <2> QED
    BY <1>6, <2>1, <2>2 DEF Dispatch, Delivered, PostSide, PushSide, ServedHere
<1>7. CASE t \in Queues /\ Serve(t)
  <2>1. CASE LeaveSide(t)
    BY <1>0, <1>7, <2>1 DEF LeaveSide
  <2>2. CASE GiveSlot(t)
    BY <1>0, <1>7, <2>2 DEF GiveSlot, Gives
  <2>3. CASE ReportCancelled(t)
    BY <1>0, <1>7, <2>3 DEF ReportCancelled
  <2> QED
    BY <1>7, <2>1, <2>2, <2>3 DEF Serve, BeginTask, CallHandler, HandlerReturns, ReleaseHeld, FinishEvent, EndTask
<1> QED
  BY <1>1, <1>2, <1>3, <1>4, <1>5, <1>6, <1>7 DEF StepOf

LEMMA FieldsSeen ==
    ASSUME NEW s \in Slots, FieldsStay(s)
    PROVE  UNCHANGED <<Phase(s), Interest(s), Order(s), Notified(s), Taken(s), Told(s)>>
<1>1. Owned(s)' <=> Owned(s)
  BY DEF FieldsStay, Owned
<1>2. ReportOrder(s)' = ReportOrder(s)
  BY SameOrder DEF FieldsStay
<1> QED
  BY <1>1, <1>2 DEF FieldsStay, Phase, Interest, Order, Notified, Taken, Told, Blank

LEMMA RunningStays ==
    ASSUME Inv, NEW t \in Threads, StepOf(t), NEW s \in Slots,
           ~(t \in Queues /\ slot(t) = s /\ (CallHandler(t) \/ LeaveSide(t)))
    PROVE  UNCHANGED Running(s)
<1>1. ASSUME NEW q \in Queues, NEW d \in Sides PROVE Runs(q, s, d)' <=> Runs(q, s, d)
  <2>1. CASE ~(q = t /\ (CallHandler(t) \/ LeaveSide(t)))
    BY <2>1, RunSteps
  <2>2. CASE q = t /\ (CallHandler(t) \/ LeaveSide(t))
    <3>1. slot(t) # s /\ slot(t)' = slot(t)
      BY <2>2 DEF CallHandler, LeaveSide, slot
    <3> QED
      BY <2>2, <3>1 DEF Runs
  <2> QED
    BY <2>1, <2>2
<1> QED
  BY <1>1 DEF Running

(* Steps that Watch does not see.                                          *)
LEMMA UnseenStep ==
    ASSUME NEW s \in Slots,
           UNCHANGED <<Phase(s), Interest(s), Order(s), Notified(s), Taken(s), Running(s), Told(s)>>
    PROVE  [Promise(s)!Next]_(Promise(s)!vars)
  BY DEF Promise!vars, Phase, Interest, Order, Notified, Taken, Running, Runs, Told

LEMMA QuietStep ==
    ASSUME Inv, NEW t \in Threads, StepOf(t), NEW s \in Slots, ~Visible(t, s)
    PROVE  [Promise(s)!Next]_(Promise(s)!vars)
<1>1. UNCHANGED <<Phase(s), Interest(s), Order(s), Notified(s), Taken(s), Told(s)>>
  BY QuietFields, FieldsSeen
<1>2. UNCHANGED Running(s)
  BY RunningStays DEF Visible
<1> QED
  BY <1>1, <1>2, UnseenStep

(* What Watch sees of an event of the application.                         *)
LEMMA AppSeen ==
    ASSUME NEW s \in Slots, s \notin free, ~Owned(s)
    PROVE  /\ Phase(s) = IF s \in closed THEN "closed" ELSE "open"
           /\ Interest(s) = params[s].interest /\ Order(s) = ReportOrder(s)
           /\ Notified(s) = ready[s] /\ Taken(s) = busy[s] /\ Told(s) = reported[s]
  BY DEF Phase, Interest, Order, Notified, Taken, Told, Blank

LEMMA NothingSeen ==
    ASSUME NEW s \in Slots, s \in free \/ Owned(s)
    PROVE  /\ Phase(s) = "none" /\ Interest(s) = {} /\ Order(s) = <<>>
           /\ Notified(s) = {} /\ Taken(s) = {} /\ Told(s) = <<>>
  BY DEF Phase, Interest, Order, Notified, Taken, Told, Blank

(* Publish is a notification.                                              *)
LEMMA PublishSeen ==
    ASSUME Inv, ToldOK, NEW t \in Dispatchers, StepOf(t), Publish(t), NEW s \in Slots, slot(t) = s
    PROVE  Promise(s)!Next
<1>0. TypeOK /\ ControlOK /\ NamesOK /\ OpenOK /\ RefsOK /\ t \in Threads /\ pc[t] = "publish"
  BY DEF Inv, Threads, Publish
<1>1. s \notin free /\ ~Owned(s) /\ Calling(t) /\ params[s] \in AcceptedOrOwn
  BY <1>0, CheckedIsNamed DEF CheckedPCs, Added, NamesOK
<1>2. refs[s] \in Nat /\ refs[s] # 0
  BY <1>0, <1>1, NoRefs DEF TypeOK
<1>3. reported[s] = <<>>
  BY <1>1, <1>2 DEF ToldOK
<1>4. PICK ds : ds = SidesOf(todo[t], params[s].interest)
  OBVIOUS
<1>5. ds \subseteq params[s].interest /\ ds \in SUBSET Sides
  BY <1>0, <1>1, <1>4, AppQueues DEF SidesOf
<1>6. /\ ready'[s] = ready[s] \cup ds
      /\ UNCHANGED <<free, params, closed, busy, reported>>
  BY <1>0, <1>4 DEF Publish, slot_vars, TypeOK
<1>7. ~Owned(s)' /\ s \notin free' /\ ReportOrder(s)' = ReportOrder(s)
  BY <1>1, <1>6 DEF Owned, ReportOrder
<1>8. UNCHANGED Running(s)
  BY <1>0, RunningStays, EventThreads
<1>9. /\ Phase(s) # "none" /\ Told(s) = <<>> /\ ds \subseteq Interest(s)
      /\ Notified(s)' = Notified(s) \cup ds
      /\ UNCHANGED <<Phase(s), Interest(s), Order(s), Taken(s), Told(s)>>
  <2>1. /\ Phase(s) = IF s \in closed THEN "closed" ELSE "open"
        /\ Interest(s) = params[s].interest /\ Order(s) = ReportOrder(s)
        /\ Notified(s) = ready[s] /\ Taken(s) = busy[s] /\ Told(s) = reported[s]
    BY <1>1, AppSeen
  <2>2. /\ Phase(s)' = IF s \in closed' THEN "closed" ELSE "open"
        /\ Interest(s)' = params'[s].interest /\ Order(s)' = ReportOrder(s)'
        /\ Notified(s)' = ready'[s] /\ Taken(s)' = busy'[s] /\ Told(s)' = reported'[s]
    BY <1>7 DEF Phase, Interest, Order, Notified, Taken, Told, Blank
  <2> QED
    BY <1>3, <1>5, <1>6, <1>7, <2>1, <2>2
<1>10. Promise(s)!Notify(ds)
  BY <1>8, <1>9 DEF Promise!Notify, Phase, Interest, Order, Notified, Taken, Running, Runs, Told
<1> QED
  BY <1>5, <1>10 DEF Promise!Next, Promise!Sides, Sides

(* A claim takes the side.                                                 *)
LEMMA ClaimSeen ==
    ASSUME Inv, NEW t \in Dispatchers, StepOf(t), ClaimSide(t), NEW s \in Slots, slot(t) = s
    PROVE  [Promise(s)!Next]_(Promise(s)!vars)
<1>0. TypeOK /\ ControlOK /\ NamesOK /\ t \in Threads /\ pc[t] = "claim"
  BY DEF Inv, Threads, ClaimSide
<1>1. s \notin free /\ ~Owned(s)
  BY <1>0, CheckedIsNamed DEF CheckedPCs, Added, NamesOK
<1>2. UNCHANGED <<free, params, closed, reported>>
  BY DEF ClaimSide, slot_vars, ghost_vars
<1>3. ~Owned(s)' /\ s \notin free' /\ ReportOrder(s)' = ReportOrder(s)
  BY <1>1, <1>2 DEF Owned, ReportOrder
<1>4. UNCHANGED Running(s)
  BY <1>0, RunningStays, EventThreads
<1>5. PICK d \in Sides : d = NextSide(t)
  BY DEF NextSide, Sides
<1>6. CASE ~Claimable(s, d)
  <2>1. FieldsStay(s)
    BY <1>2, <1>5, <1>6 DEF ClaimSide, FieldsStay
  <2> QED
    BY <1>4, <2>1, FieldsSeen, UnseenStep
<1>7. CASE Claimable(s, d)
  <2>1. ready'[s] = ready[s] \ {d} /\ busy'[s] = busy[s] \cup {d}
    BY <1>0, <1>5, <1>7 DEF ClaimSide, TypeOK
  <2>2. d \in ready[s] /\ d \notin busy[s] /\ s \notin closed
    BY <1>7 DEF Claimable
  <2>3. /\ Phase(s) = "open" /\ d \in Notified(s) \ Taken(s)
        /\ Notified(s)' = Notified(s) \ {d} /\ Taken(s)' = Taken(s) \cup {d}
        /\ UNCHANGED <<Phase(s), Interest(s), Order(s), Told(s)>>
    BY <1>1, <1>2, <1>3, <2>1, <2>2 DEF Phase, Interest, Order, Notified, Taken, Told, Blank
  <2>4. Promise(s)!Take(d)
    BY <1>4, <2>3 DEF Promise!Take, Phase, Interest, Order, Notified, Taken, Running, Runs, Told
  <2> QED
    BY <2>4 DEF Promise!Next, Promise!Sides, Sides
<1> QED
  BY <1>6, <1>7

(* A call of the handler begins a turn.                                    *)
LEMMA CallSeen ==
    ASSUME Inv, NEW t \in Queues, StepOf(t), CallHandler(t), NEW s \in Slots, slot(t) = s
    PROVE  Promise(s)!Next
<1>0. TypeOK /\ ControlOK /\ HeadOK /\ NamesOK /\ BusyOK /\ t \in Threads /\ pc[t] = "call"
  BY DEF Inv, Threads, CallHandler
<1>1. s \notin free /\ ~Owned(s)
  BY <1>0, ServedIsNamed DEF Added
<1>2. FieldsStay(s)
  BY DEF CallHandler, FieldsStay, slot_vars, state_vars
<1>3. PICK d \in Sides : d = side[t]
  BY <1>0, SlotOfThread
<1>4. Serving(t, 1, s, d)
  <2>1. 1 \in Pos(t) /\ queue[t][1].slot = s /\ queue[t][1].side = d /\ queue[t][1].kind = "side"
    BY <1>0, <1>3 DEF HeadOK
  <2>2. queue[t] \in Seq(TaskSet)
    BY <1>0 DEF TypeOK
  <2>3. queue[t][1] \in TaskSet
    BY <2>1, <2>2 DEF Pos
  <2>4. queue[t][1] = Task("side", s, d)
    BY <2>1, <2>3 DEF Task, TaskSet
  <2> QED
    BY <1>0, <2>1, <2>4 DEF Serving, LeftSide
<1>5. d \in busy[s] /\ \A q \in Queues : ~Runs(q, s, d)
  <2>1. ASSUME NEW q \in Queues, Runs(q, s, d) PROVE FALSE
    <3>1. Serving(q, 1, s, d) /\ pc[q] # "call"
      BY <2>1, RunsServes
    <3>2. q = t
      BY <1>0, <1>4, <3>1 DEF BusyOK
    <3> QED
      BY <1>0, <3>1, <3>2
  <2> QED
    BY <1>0, <1>4, <2>1 DEF BusyOK
<1>6. Running(s)' = Running(s) \cup {d} /\ d \notin Running(s)
  <2>1. Runs(t, s, d)'
    BY <1>0, <1>3 DEF CallHandler, Runs, Go, TypeOK, slot
  <2>2. ASSUME NEW e \in Sides, NEW q \in Queues, q # t \/ e # d PROVE Runs(q, s, e)' <=> Runs(q, s, e)
    <3>1. CASE q # t
      BY <1>0, <3>1, RunSteps
    <3>2. CASE q = t /\ e # d
      <4>1. side'[t] = d
        BY <1>3 DEF CallHandler
      <4> QED
        BY <1>3, <3>2, <4>1 DEF Runs
    <3> QED
      BY <2>2, <3>1, <3>2
  <2>3. \A e \in Sides : e \in Running(s)' <=> \E q \in Queues : Runs(q, s, e)'
    BY DEF Running
  <2>4. \A e \in Sides : e \in Running(s) <=> \E q \in Queues : Runs(q, s, e)
    BY DEF Running
  <2>5. Running(s) \subseteq Sides /\ Running(s)' \subseteq Sides
    BY DEF Running
  <2>6. \A e \in Sides : e # d => (e \in Running(s)' <=> e \in Running(s))
    BY <2>2, <2>3, <2>4
  <2>7. d \in Running(s)' /\ d \notin Running(s)
    BY <1>5, <2>1, <2>3, <2>4
  <2> QED
    BY <2>5, <2>6, <2>7
<1>7. UNCHANGED <<Phase(s), Interest(s), Order(s), Notified(s), Taken(s), Told(s)>> /\ d \in Taken(s)
  BY <1>1, <1>2, <1>5, FieldsSeen, AppSeen
<1>8. Promise(s)!Begin(d)
  BY <1>6, <1>7 DEF Promise!Begin, Phase, Interest, Order, Notified, Taken, Running, Runs, Told
<1> QED
  BY <1>8 DEF Promise!Next, Promise!Sides, Sides

(* ntt_event_leave_side ends it.                                           *)
LEMMA LeaveSeen ==
    ASSUME Inv, NEW t \in Queues, StepOf(t), LeaveSide(t), NEW s \in Slots, slot(t) = s
    PROVE  Promise(s)!Next
<1>0. TypeOK /\ ControlOK /\ HeadOK /\ NamesOK /\ BusyOK /\ t \in Threads /\ pc[t] = "leave_side"
  BY DEF Inv, Threads, LeaveSide
<1>1. s \notin free /\ ~Owned(s)
  BY <1>0, ServedIsNamed DEF Added
<1>2. UNCHANGED <<free, params, closed, reported, side, hdl, op>>
  BY DEF LeaveSide, slot_vars, ghost_vars
<1>3. ~Owned(s)' /\ s \notin free' /\ ReportOrder(s)' = ReportOrder(s)
  BY <1>1, <1>2 DEF Owned, ReportOrder
<1>4. PICK d \in Sides : d = side[t]
  BY <1>0, SlotOfThread
<1>5. Runs(t, s, d) /\ op[t] = "side"
  BY <1>0, <1>4 DEF Runs, ControlOK, ThreadOK
<1>6. \A q \in Queues : Runs(q, s, d) => q = t
  <2>1. ASSUME NEW q \in Queues, Runs(q, s, d) PROVE q = t
    <3>1. Serving(q, 1, s, d) /\ Serving(t, 1, s, d)
      BY <1>5, <2>1, RunsServes
    <3> QED
      BY <1>0, <3>1 DEF BusyOK
  <2> QED
    BY <2>1
<1>7. Running(s)' = Running(s) \ {d} /\ d \in Running(s)
  <2>1. ~Runs(t, s, d)'
    BY <1>0, <1>2, <1>5 DEF LeaveSide, Runs, Go, TypeOK
  <2>2. ASSUME NEW e \in Sides, NEW q \in Queues, q # t \/ e # d PROVE Runs(q, s, e)' <=> Runs(q, s, e)
    <3>1. CASE q # t
      BY <1>0, <3>1, RunSteps
    <3>2. CASE q = t /\ e # d
      BY <1>2, <1>4, <3>2 DEF Runs
    <3> QED
      BY <2>2, <3>1, <3>2
  <2>3. \A e \in Sides : e \in Running(s)' <=> \E q \in Queues : Runs(q, s, e)'
    BY DEF Running
  <2>4. \A e \in Sides : e \in Running(s) <=> \E q \in Queues : Runs(q, s, e)
    BY DEF Running
  <2>5. Running(s) \subseteq Sides /\ Running(s)' \subseteq Sides
    BY DEF Running
  <2>6. \A e \in Sides : e # d => (e \in Running(s)' <=> e \in Running(s))
    BY <2>2, <2>3, <2>4
  <2>7. d \notin Running(s)' /\ d \in Running(s)
    BY <1>5, <1>6, <2>1, <2>2, <2>3, <2>4
  <2> QED
    BY <2>5, <2>6, <2>7
<1>8. /\ ready'[s] = ready[s] \ {d}
      /\ busy'[s] = IF d \in ready[s] /\ s \notin closed THEN busy[s] ELSE busy[s] \ {d}
  BY <1>0, <1>4 DEF LeaveSide, StaysBusy, TypeOK
<1>9. /\ Notified(s)' = Notified(s) \ {d}
      /\ Taken(s)' = IF d \in Notified(s) /\ Phase(s) = "open" THEN Taken(s) ELSE Taken(s) \ {d}
      /\ UNCHANGED <<Phase(s), Interest(s), Order(s), Told(s)>>
  BY <1>1, <1>2, <1>3, <1>8 DEF Phase, Interest, Order, Notified, Taken, Told, Blank
<1>10. Promise(s)!End(d)
  BY <1>7, <1>9 DEF Promise!End, Phase, Interest, Order, Notified, Taken, Running, Runs, Told
<1> QED
  BY <1>10 DEF Promise!Next, Promise!Sides, Sides

(* The first ntt_event_cancel closes the event.                            *)
LEMMA CloseSeen ==
    ASSUME Inv, NEW t \in Threads, StepOf(t), Close(t), NEW s \in Slots, slot(t) = s
    PROVE  [Promise(s)!Next]_(Promise(s)!vars)
<1>0. TypeOK /\ ControlOK /\ NamesOK /\ pc[t] = "close"
  BY DEF Inv, Close
<1>1. s \notin free /\ ~Owned(s)
  BY <1>0, CheckedIsNamed DEF CheckedPCs, Added
<1>2. UNCHANGED <<free, params, ready, busy, reported>> /\ closed' = closed \cup {s}
  BY DEF Close, slot_vars, ghost_vars
<1>3. ~Owned(s)' /\ s \notin free' /\ ReportOrder(s)' = ReportOrder(s)
  BY <1>1, <1>2 DEF Owned, ReportOrder
<1>4. UNCHANGED Running(s)
  BY <1>0, RunningStays DEF CallHandler, LeaveSide
<1>5. CASE s \in closed
  BY <1>2, <1>4, <1>5, FieldsSeen, UnseenStep DEF FieldsStay
<1>6. CASE s \notin closed
  <2>1. /\ Phase(s) = "open" /\ Phase(s)' = "closed"
        /\ UNCHANGED <<Interest(s), Order(s), Notified(s), Taken(s), Told(s)>>
    BY <1>1, <1>2, <1>3, <1>6 DEF Phase, Interest, Order, Notified, Taken, Told, Blank
  <2>2. Promise(s)!Cancel
    BY <1>4, <2>1 DEF Promise!Cancel, Phase, Interest, Order, Notified, Taken, Running, Runs, Told
  <2> QED
    BY <2>2 DEF Promise!Next
<1> QED
  BY <1>5, <1>6

(* Nothing is in flight once the last reference is gone.                   *)
LEMMA GoneIsQuiet ==
    ASSUME Inv, NEW s \in Slots, Gone(s)
    PROVE  busy[s] = {} /\ Running(s) = {}
<1>0. TypeOK /\ ControlOK /\ HeadOK /\ NamesOK /\ RefsOK /\ BusyOK /\ refs[s] = 0 /\ s \notin free
  BY DEF Inv, Gone
<1>1. ASSUME NEW d \in Sides, d \in busy[s] PROVE FALSE
  <2>1. CASE \E t \in Threads : Posting(t, s, d)
    <3>1. PICK t \in Threads : Posting(t, s, d)
      BY <2>1
    <3>2. Calling(t) /\ slot(t) = s
      BY <1>0, <3>1, CheckedIsNamed DEF Posting, CheckedPCs
    <3> QED
      BY <1>0, <3>2, NoRefs
  <2>2. CASE \E q \in Queues, i \in Nat : Serving(q, i, s, d)
    <3>1. PICK q \in Queues, i \in Nat : Serving(q, i, s, d)
      BY <2>2
    <3>2. Holding(q, i, s)
      BY <3>1 DEF Serving, Holding, Task, LeftSide, LeftEvent
    <3> QED
      BY <1>0, <3>2, NoRefs
  <2> QED
    BY <1>0, <1>1, <2>1, <2>2 DEF BusyOK
<1>2. busy[s] \subseteq Sides
  BY <1>0 DEF TypeOK
<1> QED
  BY <1>0, <1>1, <1>2, NothingRuns

(* A report tells the next side.                                           *)
LEMMA ReportSeen ==
    ASSUME Inv, ToldOK, NEW t \in Queues, StepOf(t), ReportCancelled(t), NEW s \in Slots, slot(t) = s
    PROVE  Promise(s)!Next
<1>0. TypeOK /\ HeadOK /\ NamesOK /\ LastOK /\ t \in Threads /\ pc[t] = "report" /\ t # NoQueue
  BY EventThreads DEF Inv, Threads, ReportCancelled
<1>1. s \notin free /\ ~Owned(s) /\ params[s].queues[side[t]] = t /\ side[t] \in Sides
  BY <1>0, ServedIsNamed, SlotOfThread DEF Added
<1>2. Telling(t, 1, s) /\ reported[s] = ToldBefore(s, side[t])
  BY ReportTells
<1>3. Gone(s) /\ s \in closed /\ busy[s] = {}
  BY <1>0, <1>2, GoneIsQuiet DEF LastOK, Gone
<1>4. /\ UNCHANGED <<free, params, closed, ready, busy>>
      /\ reported'[s] = Append(reported[s], side[t])
  BY <1>0 DEF ReportCancelled, slot_vars, state_vars, TypeOK
<1>5. ~Owned(s)' /\ s \notin free' /\ ReportOrder(s)' = ReportOrder(s)
  BY <1>1, <1>4 DEF Owned, ReportOrder
<1>6. UNCHANGED Running(s)
  BY <1>0, RunningStays DEF CallHandler, LeaveSide
<1>7. Len(reported[s]) < Len(ReportOrder(s)) /\ ReportOrder(s)[Len(reported[s]) + 1] = side[t]
  <2>1. CASE side[t] = "writable"
    <3>1. reported[s] = <<>> /\ ReportOrder(s) \in {<<"writable", "readable">>, <<"writable">>}
      BY <1>0, <1>1, <1>2, <2>1 DEF ToldBefore, FirstReport, ReportOrder, Sides
    <3> QED
      BY <2>1, <3>1
  <2>2. CASE side[t] = "readable"
    <3>1. CASE params[s].queues["writable"] # NoQueue
      <4>1. reported[s] = <<"writable">> /\ ReportOrder(s) = <<"writable", "readable">>
        BY <1>0, <1>1, <1>2, <2>2, <3>1 DEF ToldBefore, FirstReport, ReportOrder, Sides
      <4> QED
        BY <2>2, <4>1
    <3>2. CASE params[s].queues["writable"] = NoQueue
      <4>1. reported[s] = <<>> /\ ReportOrder(s) = <<"readable">>
        BY <1>0, <1>1, <1>2, <2>2, <3>2 DEF ToldBefore, FirstReport, ReportOrder, Sides
      <4> QED
        BY <2>2, <4>1
    <3> QED
      BY <3>1, <3>2
  <2> QED
    BY <1>1, <2>1, <2>2 DEF Sides
<1>8. /\ Phase(s) = "closed" /\ Taken(s) = {} /\ Order(s) = ReportOrder(s) /\ Told(s) = reported[s]
      /\ Told(s)' = Append(reported[s], side[t])
      /\ UNCHANGED <<Phase(s), Interest(s), Order(s), Notified(s), Taken(s)>>
  BY <1>1, <1>3, <1>4, <1>5 DEF Phase, Interest, Order, Notified, Taken, Told, Blank
<1>9. Len(Told(s)) < Len(Order(s)) /\ Told(s)' = Append(Told(s), Order(s)[Len(Told(s)) + 1])
  BY <1>7, <1>8
<1>10. Promise(s)!Tell
  BY <1>6, <1>8, <1>9 DEF Promise!Tell, Phase, Interest, Order, Notified, Taken, Running, Runs, Told
<1> QED
  BY <1>10 DEF Promise!Next

(* The slot goes back when all sides have been told.                       *)
LEMMA GiveSeen ==
    ASSUME Inv, ToldOK, NEW t \in Threads, StepOf(t), NEW s \in Slots, Gives(t, s)
    PROVE  Promise(s)!Next
<1>0. TypeOK /\ ControlOK /\ HeadOK /\ NamesOK /\ LastOK /\ t \in Queues /\ pc[t] = "give" /\ slot(t) = s
  BY DEF Inv, Gives, GiveSlot
<1>1. s \notin free /\ ~Owned(s)
  BY <1>0, ServedIsNamed DEF Added
<1>2. Telling(t, 1, s) /\ Gone(s) /\ s \in closed
  BY <1>0, NobodyLeft DEF Gone
<1>3. reported[s] = ReportOrder(s)
  <2>1. reported[s] = IF 1 = 1 /\ pc[t] = "give" THEN ReportOrder(s)
                      ELSE ToldBefore(s, queue[t][1].side)
    BY <1>0, <1>2 DEF ToldOK
  <2> QED
    BY <1>0, <2>1
<1>4. s \in free'
  BY <1>0, GivesEffect
<1>5. Running(s)' = {}
  <2>1. UNCHANGED Running(s)
    BY <1>0, RunningStays DEF CallHandler, LeaveSide
  <2>2. Running(s) = {}
    BY <1>2, GoneIsQuiet
  <2> QED
    BY <2>1, <2>2
<1>6. /\ Phase(s) = "closed" /\ Told(s) = Order(s)
      /\ Phase(s)' = "none" /\ Interest(s)' = {} /\ Order(s)' = <<>>
      /\ Notified(s)' = {} /\ Taken(s)' = {} /\ Told(s)' = <<>>
  BY <1>1, <1>2, <1>3, <1>4 DEF Phase, Interest, Order, Notified, Taken, Told, Blank
<1>7. Promise(s)!Finish
  BY <1>5, <1>6 DEF Promise!Finish, Phase, Interest, Order, Notified, Taken, Running, Runs, Told
<1> QED
  BY <1>7 DEF Promise!Next

(* A slot that is taken is a new event, or one of the loop itself.         *)
LEMMA OpenSeen ==
    ASSUME Inv, NEW t \in Threads, StepOf(t), NEW s \in Slots, Opens(t, s)
    PROVE  [Promise(s)!Next]_(Promise(s)!vars)
<1>0. TypeOK /\ TypeOK' /\ t \in Users
  BY StepKeepsInv DEF Inv, Opens
<1>1. /\ s \in free /\ s \notin free' /\ s \notin closed'
      /\ params'[s] \in AcceptedOrOwn /\ ready'[s] = {} /\ busy'[s] = {} /\ reported'[s] = <<>>
  BY <1>0, OpensEffect, EventParams
<1>2. Running(s) = {} /\ Running(s)' = {}
  <2>1. UNCHANGED Running(s)
    BY <1>0, RunningStays, EventThreads
  <2>2. Running(s) = {}
    BY <1>1, NothingRuns
  <2> QED
    BY <2>1, <2>2
<1>3. /\ Phase(s) = "none" /\ Interest(s) = {} /\ Order(s) = <<>>
      /\ Notified(s) = {} /\ Taken(s) = {} /\ Told(s) = <<>>
  BY <1>1, NothingSeen
<1>4. CASE Owned(s)'
  <2>1. /\ Phase(s)' = "none" /\ Interest(s)' = {} /\ Order(s)' = <<>>
        /\ Notified(s)' = {} /\ Taken(s)' = {} /\ Told(s)' = <<>>
    BY <1>4 DEF Phase, Interest, Order, Notified, Taken, Told, Blank
  <2> QED
    BY <1>2, <1>3, <2>1, UnseenStep
<1>5. CASE ~Owned(s)'
  <2>1. /\ Phase(s)' = "open" /\ Interest(s)' = params'[s].interest /\ Order(s)' = ReportOrder(s)'
        /\ Notified(s)' = {} /\ Taken(s)' = {} /\ Told(s)' = <<>>
    BY <1>1, <1>5 DEF Phase, Interest, Order, Notified, Taken, Told, Blank
  <2>2. PICK i, qs : i = params'[s].interest /\ qs = params'[s].queues
    OBVIOUS
  <2>3. /\ i \subseteq Sides /\ i # {} /\ \A d \in i : qs[d] # NoQueue
    <3>1. params'[s] \in Accepted
      BY <1>1, <1>5 DEF AcceptedOrOwn, Own, Owned
    <3> QED
      BY <2>2, <3>1 DEF Accepted
  <2>4. PICK o : o = ReportOrder(s)'
    OBVIOUS
  <2>5. o = IF {d \in Sides : qs[d] # NoQueue} = Sides THEN <<"writable", "readable">>
            ELSE IF "writable" \in {d \in Sides : qs[d] # NoQueue} THEN <<"writable">> ELSE <<"readable">>
    BY <2>2, <2>4 DEF ReportOrder
  <2>6. o \in {<<"writable", "readable">>, <<"writable">>, <<"readable">>}
    BY <2>5
  <2>7. \A d \in i : \E n \in 1..Len(o) : o[n] = d
    <3>1. CASE qs["readable"] # NoQueue /\ qs["writable"] # NoQueue
      <4>1. o = <<"writable", "readable">>
        BY <2>5, <3>1 DEF Sides
      <4>2. Len(o) = 2 /\ o[1] = "writable" /\ o[2] = "readable"
        BY <4>1
      <4> QED
        BY <2>3, <4>2 DEF Sides
    <3>2. CASE qs["readable"] = NoQueue
      <4>1. i = {"writable"}
        BY <2>3, <3>2 DEF Sides
      <4>2. o = <<"writable">>
        BY <2>3, <2>5, <3>2, <4>1 DEF Sides
      <4>3. Len(o) = 1 /\ o[1] = "writable"
        BY <4>2
      <4> QED
        BY <4>1, <4>3
    <3>3. CASE qs["readable"] # NoQueue /\ qs["writable"] = NoQueue
      <4>1. i = {"readable"}
        BY <2>3, <3>3 DEF Sides
      <4>2. o = <<"readable">>
        BY <2>5, <3>3 DEF Sides
      <4>3. Len(o) = 1 /\ o[1] = "readable"
        BY <4>2
      <4> QED
        BY <4>1, <4>3
    <3> QED
      BY <3>1, <3>2, <3>3
  <2>8. /\ Interest(s)' = i /\ Order(s)' = o
    BY <2>1, <2>2, <2>4
  <2>9. Promise(s)!Start(i, o)
    BY <1>2, <1>3, <2>1, <2>3, <2>6, <2>7, <2>8
       DEF Promise!Start, Promise!Orders, Phase, Interest, Order, Notified, Taken, Running, Runs, Told
  <2>10. i \in SUBSET Sides
    BY <2>3
  <2> QED
    BY <2>6, <2>9, <2>10 DEF Promise!Next, Promise!Orders, Promise!Sides, Sides
<1> QED
  BY <1>4, <1>5

LEMMA WatchStep ==
    ASSUME Inv, ToldOK, NEW t \in Threads, StepOf(t), NEW s \in Slots
    PROVE  [Promise(s)!Next]_(Promise(s)!vars)
<1>1. CASE ~Visible(t, s)
  BY <1>1, QuietStep
<1>2. CASE Opens(t, s)
  BY <1>2, OpenSeen
<1>3. CASE Gives(t, s)
  BY <1>3, GiveSeen
<1>4. CASE Close(t) /\ slot(t) = s
  BY <1>4, CloseSeen
<1>5. CASE t \in Dispatchers /\ slot(t) = s /\ Publish(t)
  BY <1>5, PublishSeen
<1>6. CASE t \in Dispatchers /\ slot(t) = s /\ ClaimSide(t)
  BY <1>6, ClaimSeen
<1>7. CASE t \in Queues /\ slot(t) = s /\ CallHandler(t)
  BY <1>7, CallSeen
<1>8. CASE t \in Queues /\ slot(t) = s /\ LeaveSide(t)
  BY <1>8, LeaveSeen
<1>9. CASE t \in Queues /\ slot(t) = s /\ ReportCancelled(t)
  BY <1>9, ReportSeen
<1> QED
  BY <1>1, <1>2, <1>3, <1>4, <1>5, <1>6, <1>7, <1>8, <1>9 DEF Visible

LEMMA InitTold == Init => ToldOK
<1> SUFFICES ASSUME Init PROVE ToldOK
  OBVIOUS
<1>1. \A s \in Slots : reported[s] = <<>>
  BY DEF Init
<1>2. \A t \in Threads : pc[t] = "idle" /\ hdl[t] = AnyHandle
  BY DEF Init
<1>3. \A q \in Queues : queue[q] = <<>>
  BY DEF Init
<1>4. \A q \in Queues, i \in Nat : i \notin Pos(q)
  BY <1>3 DEF Pos
<1> QED
  BY <1>1, <1>2, <1>4 DEF ToldOK, Threads, Telling, Unfinished

LEMMA StutterKeepsTold == ToldOK /\ UNCHANGED vars => ToldOK'
<1> SUFFICES ASSUME ToldOK, UNCHANGED vars PROVE ToldOK'
  OBVIOUS
<1>1. UNCHANGED <<free, refs, reported, params, queue, pc, hdl>>
  BY DEF vars, slot_vars, thread_vars, queue_vars, ghost_vars
<1> QED
  BY <1>1 DEF ToldOK, Telling, Unfinished, Pos, ReportOrder, ToldBefore, FirstReport, slot

LEMMA ToldInductive == Spec => [](Inv /\ ToldOK)
<1>1. Init => Inv /\ ToldOK
  BY InitInv, InitTold
<1>2. Inv /\ ToldOK /\ [Next]_vars => (Inv /\ ToldOK)'
  BY NextIsAStep, StepKeepsInv, StutterKeepsInv, ToldStep, StutterKeepsTold
<1> QED
  BY <1>1, <1>2, PTL DEF Spec

LEMMA InitWatch == Init => \A s \in Slots : Promise(s)!Init
<1> SUFFICES ASSUME Init, NEW s \in Slots PROVE Promise(s)!Init
  OBVIOUS
<1>1. s \in free
  BY DEF Init
<1>2. Inv
  BY InitInv
<1>3. Running(s) = {}
  BY <1>1, <1>2, NothingRuns
<1>4. /\ Phase(s) = "none" /\ Interest(s) = {} /\ Order(s) = <<>>
      /\ Notified(s) = {} /\ Taken(s) = {} /\ Told(s) = <<>>
  BY <1>1, NothingSeen
<1> QED
  BY <1>3, <1>4 DEF Promise!Init, Phase, Interest, Order, Notified, Taken, Running, Runs, Told

(* event.c keeps the promise of event.h: whatever the interleaving of      *)
(* dispatchers, cancels, handlers and reuses of a slot, every step is, for *)
(* every slot, a step of Watch or invisible to it.                         *)
THEOREM EventImplementsWatch == Spec => ImplementsWatch
<1>1. Init => \A s \in Slots : Promise(s)!Init
  BY InitWatch
<1>2. Inv /\ ToldOK /\ [Next]_vars => [\A s \in Slots : [Promise(s)!Next]_(Promise(s)!vars)]_vars
  BY NextIsAStep, WatchStep
<1> QED
  BY <1>1, <1>2, ToldInductive, PTL DEF Spec, ImplementsWatch
=============================================================================
