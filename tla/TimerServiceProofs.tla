------------------------- MODULE TimerServiceProofs -------------------------
(***************************************************************************)
(* Theorems about TimerService, for every set of queues and workers, every *)
(* batch and every bound: references are exact, no queue is destroyed with *)
(* timers, no armed timer is forgotten and the timerfd covers the heap,    *)
(* which stays a heap.                                                     *)
(***************************************************************************)
EXTENDS TimerService, FiniteSetTheorems, SequenceTheorems, TLAPS

(* The heap's theorems for this array; the list's play no part here.       *)
P == INSTANCE ContainerProofs
       WITH Less <- RegistrationLess, Nodes <- {}, Sentinel <- 0, NULL <- 0

(* The lock is with the handler that is between lock and unlock.           *)
Locked(d) == dpc[d] \in {"take", "acquire", "check", "release", "retire", "arm"}

LockOK == \A d \in Dispatchers : Locked(d) <=> lock = d

(* The batch and the entry in hand, by where the handler is.               *)
BatchOK ==
    \A d \in Dispatchers :
        /\ Len(batch[d]) <= Batch
        /\ dpc[d] \in {"idle", "read", "clock", "lock"} => batch[d] = <<>>
        /\ dpc[d] \notin {"wake", "unref"} => woke[d] = 0
        /\ dpc[d] \in {"wake", "unref"} => woke[d] < Len(batch[d])
        /\ dpc[d] \in {"acquire", "check", "release", "retire"} =>
              elem[d] \in Entries /\ Len(batch[d]) < Batch

(* The queue is in ntt_queue_sync_timers, called from a task of the        *)
(* application or from a timers task.                                      *)
Syncing(s) == qpc[s] \in {"sync", "drop", "let_go", "keep", "retire", "register"}
InAppTask(s) == qpc[s] = "app" \/ (Syncing(s) /\ qret[s] = "app")
InTimersTask(s) == qpc[s] \in {"pass", "fired", "unref"} \/ (Syncing(s) /\ qret[s] # "app")

(* What the steps of ntt_queue_sync_timers rely on between each other, and *)
(* what keeps a queue alive.                                               *)
QueueOK ==
    \A s \in Slots :
        /\ InTimersTask(s) => tasks[s] > 0
        /\ qpc[s] \in {"drop", "let_go"} => timers[s] = {}
        /\ qpc[s] \in {"keep", "retire", "register"} => timers[s] # {}
        /\ qpc[s] = "register" => reg_deadline[s] = Min(timers[s])
        /\ timers[s] # {} => s \in self_ref \/ qpc[s] \in {"sync", "keep"}
        /\ s \in free => refs[s] = 0

(* Generations only grow, and registrations do not run ahead of them; in a *)
(* slot given back all are dead.                                           *)
GenerationOK ==
    /\ \A s \in Slots : gen[s] >= 1 /\ reg_gen[s] <= gen[s]
    /\ \A p \in 1..Len(elems) :
          /\ elems[p].gen <= gen[elems[p].slot]
          /\ elems[p].slot \in free => elems[p].gen < gen[elems[p].slot]

(* A queue whose registration stands has its entry in the heap or in the   *)
(* hand of a handler that has not retired it yet.                          *)
Registration(s) == [deadline |-> reg_deadline[s], slot |-> s, gen |-> reg_gen[s]]
InHand(s) == \E d \in Dispatchers :
                dpc[d] \in {"acquire", "check", "retire"} /\ elem[d] = Registration(s)
RegistrationOK ==
    \A s \in Slots :
        refs[s] # 0 /\ gen[s] = reg_gen[s] /\ qpc[s] # "register" =>
            InHand(s) \/ \E p \in 1..Len(elems) : elems[p] = Registration(s)

(* A timers task beyond the one that runs is in the queue, or a handler is *)
(* committed to push one.                                                  *)
Woken(s) ==
    \/ tasks[s] > (IF InTimersTask(s) THEN 1 ELSE 0)
    \/ \E d \in Dispatchers :
          \/ dpc[d] = "retire" /\ elem[d].slot = s
          \/ \E i \in (woke[d] + 1)..Len(batch[d]) :
                batch[d][i] = s /\ (i > woke[d] + 1 \/ dpc[d] # "unref")

(* Outside a sync, and once its registration is retired, a queue with      *)
(* timers is woken or has a registration in time.                          *)
CoverOK ==
    \A s \in Slots :
        /\ timers[s] # {}
        /\ \/ qpc[s] \in {"idle", "app", "unref", "register"}
           \/ qpc[s] = "keep" /\ registered[s] /\ Covers(s)
        =>
            Woken(s) \/ (gen[s] = reg_gen[s] /\ reg_deadline[s] <= Min(timers[s]))

(* The timerfd fires in time for what the service believes it is armed at, *)
(* or it has fired and a handler will arm it again.                        *)
TimerfdOK ==
    /\ now >= 1
    /\ lock = NoOne /\ elems # <<>> => armed <= elems[1].deadline
    /\ \/ fd_at <= TimerValue(armed) \/ fd_at <= now
       \/ fd_ticks /\ fd_ready
       \/ lock # NoOne
       \/ \E d \in Dispatchers : dpc[d] \in {"read", "clock", "lock"}

HoldersOK == RefsCountHolders /\ \A s \in Slots : IsFiniteSet(Ticks(s))

Inv == /\ TypeOK /\ LockOK /\ BatchOK /\ QueueOK /\ GenerationOK /\ HoldersOK
       /\ RegistrationOK /\ CoverOK /\ TimerfdOK /\ H!IsHeap(elems)

-----------------------------------------------------------------------------
(* The heap of registrations, in terms of the entries it has.              *)
Has(h, x) == \E p \in 1..Len(h) : h[p] = x

LEMMA EntriesOrdered == P!Ordered(Entries)
<1>1. Deadlines \subseteq Int
  BY ServiceBounds
<1>2. \A x \in Entries : x.deadline \in Int
  BY <1>1 DEF Entries
<1> QED
  BY <1>2 DEF P!Ordered, RegistrationLess

LEMMA RearrangedHas ==
    ASSUME NEW g, NEW h, P!Rearranges(g, h), NEW x
    PROVE  Has(g, x) <=> Has(h, x)
  BY P!RearrangesEntries DEF Has

(* ntt_queue_heap_push.                                                    *)
LEMMA InsertHas ==
    ASSUME NEW h \in Seq(Entries), NEW e \in Entries
    PROVE  /\ H!Insert(h, e) \in Seq(Entries) /\ H!Insert(h, e) # <<>>
           /\ H!IsHeap(h) => H!IsHeap(H!Insert(h, e))
           /\ \A x : Has(H!Insert(h, e), x) <=> Has(h, x) \/ x = e
<1> DEFINE g == H!Insert(h, e)
           a == Append(h, e)
<1>0. P!Insert(h, e) = g /\ (P!IsHeap(h) <=> H!IsHeap(h)) /\ (P!IsHeap(g) <=> H!IsHeap(g))
  BY DEF P!Insert, H!Insert, P!SiftUp, H!SiftUp, P!IsHeap, H!IsHeap
<1>1. /\ P!Insert(h, e) \in Seq(Entries) /\ P!Rearranges(P!Insert(h, e), Append(h, e))
      /\ P!IsHeap(h) => P!IsHeap(P!Insert(h, e))
  BY EntriesOrdered, P!InsertAdds
<1> HIDE DEF g
<1>2. g \in Seq(Entries) /\ P!Rearranges(g, a) /\ (H!IsHeap(h) => H!IsHeap(g))
  BY <1>0, <1>1
<1>3. /\ a \in Seq(Entries) /\ Len(a) = Len(h) + 1 /\ Len(h) \in Nat
      /\ \A i \in 1..Len(h) : a[i] = h[i]
      /\ a[Len(h) + 1] = e
  BY AppendProperties, LenProperties
<1> HIDE DEF a
<1>4. ASSUME NEW x PROVE Has(a, x) <=> Has(h, x) \/ x = e
  <2>1. \A i \in 1..Len(a) : i \in 1..Len(h) \/ i = Len(h) + 1
    BY <1>3
  <2>2. \A i \in 1..Len(h) : i \in 1..Len(a)
    BY <1>3
  <2>3. Len(h) + 1 \in 1..Len(a)
    BY <1>3
  <2> QED
    BY <1>3, <2>1, <2>2, <2>3 DEF Has
<1>5. \A x : Has(g, x) <=> Has(a, x)
  BY <1>2, RearrangedHas
<1>6. g # <<>>
  <2>1. Len(g) = Len(h) + 1
    BY <1>2, <1>3 DEF P!Rearranges
  <2> QED
    BY <1>3, <2>1, EmptySeq
<1> QED
  BY <1>2, <1>4, <1>5, <1>6 DEF g

(* ntt_queue_heap_pop_root.                                                *)
LEMMA WithoutRootHas ==
    ASSUME NEW h \in Seq(Entries), h # <<>>
    PROVE  /\ H!WithoutRoot(h) \in Seq(Entries) /\ Len(H!WithoutRoot(h)) = Len(h) - 1
           /\ H!IsHeap(h) => H!IsHeap(H!WithoutRoot(h))
           /\ \A x : Has(H!WithoutRoot(h), x) => Has(h, x)
           /\ \A x : Has(h, x) => Has(H!WithoutRoot(h), x) \/ x = h[1]
<1> DEFINE g == H!WithoutRoot(h)
           a == Tail(h)
<1>0. P!WithoutRoot(h) = g /\ (P!IsHeap(h) <=> H!IsHeap(h)) /\ (P!IsHeap(g) <=> H!IsHeap(g))
  BY DEF P!WithoutRoot, H!WithoutRoot, P!SiftDown, H!SiftDown, P!SmallerChild, H!SmallerChild,
         P!IsHeap, H!IsHeap
<1>1. /\ P!WithoutRoot(h) \in Seq(Entries) /\ P!Rearranges(P!WithoutRoot(h), Tail(h))
      /\ P!IsHeap(h) => P!IsHeap(P!WithoutRoot(h))
  BY EntriesOrdered, P!WithoutRootTakes
<1> HIDE DEF g
<1>2. g \in Seq(Entries) /\ P!Rearranges(g, a) /\ (H!IsHeap(h) => H!IsHeap(g))
  BY <1>0, <1>1
<1>3. /\ a \in Seq(Entries) /\ Len(a) = Len(h) - 1 /\ Len(h) \in Nat /\ Len(h) > 0
      /\ \A i \in 1..Len(a) : a[i] = h[i + 1]
  BY HeadTailProperties, LenProperties, EmptySeq
<1> HIDE DEF a
<1>4. ASSUME NEW x PROVE (Has(a, x) => Has(h, x)) /\ (Has(h, x) => Has(a, x) \/ x = h[1])
  <2>1. \A i \in 1..Len(a) : i + 1 \in 1..Len(h)
    BY <1>3
  <2>2. \A i \in 1..Len(h) : i = 1 \/ (i - 1 \in 1..Len(a) /\ a[i - 1] = h[i])
    BY <1>3
  <2> QED
    BY <1>3, <2>1, <2>2 DEF Has
<1>5. \A x : Has(g, x) <=> Has(a, x)
  BY <1>2, RearrangedHas
<1>6. Len(g) = Len(h) - 1
  BY <1>2, <1>3 DEF P!Rearranges
<1> QED
  BY <1>2, <1>4, <1>5, <1>6 DEF g

(* ntt_queue_heap_compact.                                                 *)
LEMMA CompactedHas ==
    ASSUME NEW h \in Seq(Entries), NEW n \in Nat
    PROVE  /\ Compacted(h, n).elems \in Seq(Entries) /\ Compacted(h, n).hint \in Nat
           /\ H!IsHeap(h) => H!IsHeap(Compacted(h, n).elems)
           /\ \A x : Has(Compacted(h, n).elems, x) => Has(h, x)
           /\ \A x : Has(h, x) /\ Live(x) => Has(Compacted(h, n).elems, x)
<1>0. Len(h) \in Nat
  OBVIOUS
<1>1. Counted(h, n) \in Nat
  <2>1. {n, Len(h)} \subseteq Nat /\ {n, Len(h)} # {}
    BY <1>0
  <2>2. \E x \in {n, Len(h)} : \A y \in {n, Len(h)} : x <= y
    BY <2>1, P!Least
  <2> QED
    BY <2>1, <2>2 DEF Counted, Min
<1>2. CASE Counted(h, n) * 2 <= Len(h)
  <2>1. Compacted(h, n) = [elems |-> h, hint |-> Counted(h, n)]
    BY <1>2 DEF Compacted
  <2> QED
    BY <1>1, <2>1
<1>3. CASE ~(Counted(h, n) * 2 <= Len(h))
  <2> DEFINE k == H!Kept(h, LiveIn(h))
             g == H!Heapify(k)
  <2>1. Compacted(h, n) = [elems |-> g, hint |-> 0]
    BY <1>3 DEF Compacted
  <2>2. P!Kept(h, LiveIn(h)) = k
    BY DEF P!Kept, H!Kept
  <2>3. P!Kept(h, LiveIn(h)) \in Seq(Entries) /\ P!Selects(P!Kept(h, LiveIn(h)), h, LiveIn(h))
    <3>1. LiveIn(h) \in SUBSET (1..Len(h))
      BY DEF LiveIn
    <3> QED
      BY <3>1, P!KeptSelects
  <2> HIDE DEF k
  <2>4. P!Heapify(k) = g /\ (P!IsHeap(g) <=> H!IsHeap(g))
    BY DEF P!Heapify, H!Heapify, P!SiftDown, H!SiftDown, P!SmallerChild, H!SmallerChild,
           P!IsHeap, H!IsHeap
  <2>5. k \in Seq(Entries) /\ P!Selects(k, h, LiveIn(h))
    BY <2>2, <2>3
  <2>6. P!Heapify(k) \in Seq(Entries) /\ P!Rearranges(P!Heapify(k), k) /\ P!IsHeap(P!Heapify(k))
    BY <2>5, EntriesOrdered, P!HeapifyBuilds
  <2> HIDE DEF g
  <2>7. g \in Seq(Entries) /\ P!Rearranges(g, k) /\ H!IsHeap(g)
    BY <2>4, <2>6
  <2>8. \A x : Has(g, x) <=> Has(k, x)
    BY <2>7, RearrangedHas
  <2>9. PICK f \in [1..Len(k) -> LiveIn(h)] :
           /\ \A q \in LiveIn(h) : \E i \in 1..Len(k) : f[i] = q
           /\ \A i \in 1..Len(k) : k[i] = h[f[i]]
    BY <2>5 DEF P!Selects
  <2>10. ASSUME NEW x PROVE Has(k, x) <=> Has(h, x) /\ Live(x)
    <3>1. ASSUME Has(k, x) PROVE Has(h, x) /\ Live(x)
      <4>1. PICK i \in 1..Len(k) : k[i] = x
        BY <3>1 DEF Has
      <4>2. f[i] \in 1..Len(h) /\ Live(h[f[i]]) /\ h[f[i]] = x
        BY <2>9, <4>1 DEF LiveIn
      <4> QED
        BY <4>2 DEF Has
    <3>2. ASSUME Has(h, x), Live(x) PROVE Has(k, x)
      <4>1. PICK q \in 1..Len(h) : h[q] = x
        BY <3>2 DEF Has
      <4>2. q \in LiveIn(h)
        BY <3>2, <4>1 DEF LiveIn
      <4> QED
        BY <2>9, <4>1, <4>2 DEF Has
    <3> QED
      BY <3>1, <3>2
  <2> QED
    BY <2>1, <2>7, <2>8, <2>10
<1> QED
  BY <1>2, <1>3

(* ntt_queue_heap_drop_dead_root, one root after the other: the arrays it  *)
(* goes through exist.                                                     *)
Popping(h) == CHOOSE s : s = [n \in 0..Len(h) |-> IF n = 0 THEN h ELSE H!WithoutRoot(s[n - 1])]

LEMMA PoppedIsPopping ==
    ASSUME NEW h
    PROVE  Popped(h) = Popping(h)
  BY DEF Popped, Popping

LEMMA PoppingExists ==
    ASSUME NEW h \in Seq(Entries)
    PROVE  Popping(h) = [n \in 0..Len(h) |-> IF n = 0 THEN h ELSE H!WithoutRoot(Popping(h)[n - 1])]
<1> DEFINE m == Len(h)
           X == Seq(Entries)
           D == 0..m
           C == 1..m
           rank == [n \in D |-> n]
           next == [n \in C |-> n - 1]
           step(v) == IF v = <<>> THEN <<>> ELSE H!WithoutRoot(v)
           G == [n \in C |-> [v \in X |-> step(v)]]
           base == [n \in D |-> h]
<1>0. m \in Nat /\ <<>> \in X
  BY LenProperties, EmptySeq
<1>1. \A n \in C : n \in D /\ n - 1 \in D /\ n # 0
  BY <1>0
<1>2. next \in [C -> D] /\ rank \in [D -> 0..m] /\ C \in SUBSET D
  BY <1>0, <1>1
<1>3. \A n \in C : rank[next[n]] < rank[n]
  BY <1>0, <1>1
<1>4. ASSUME NEW v \in X PROVE step(v) \in X
  BY <1>0, WithoutRootHas
<1>5. G \in [C -> [X -> X]]
  BY <1>4
<1>6. base \in [D -> X]
  OBVIOUS
<1>7. PICK f \in [D -> X] : \A n \in D : f[n] = IF n \in C THEN G[n][f[next[n]]] ELSE base[n]
  <2>1. P!Descends(D, X, m, rank, C, next, G, base)
    <3> HIDE DEF m, G, X, base
    <3> QED
      BY <1>0, <1>2, <1>3, <1>5, <1>6 DEF P!Descends
  <2>2. P!Solved(D, X, C, next, G, base)
    <3> HIDE DEF D, X, C, next, G, base, rank, m
    <3> QED
      BY <2>1, P!Recursion
  <2> QED
    BY <2>2 DEF P!Solved
<1>8. ASSUME NEW n \in C PROVE f[n - 1] \in X /\ f[n] = step(f[n - 1])
  <2>1. next[n] = n - 1 /\ f[n - 1] \in X
    BY <1>1
  <2>2. G[n][f[n - 1]] = step(f[n - 1])
    BY <2>1
  <2> QED
    BY <1>1, <1>7, <2>1, <2>2
<1>9. f[0] = h
  <2>1. 0 \in D /\ 0 \notin C
    BY <1>0
  <2>2. f[0] = base[0]
    BY <1>7, <2>1, Zenon
  <2> QED
    BY <2>1, <2>2
<1> DEFINE S == {n \in D : Len(f[n]) = m - n}
<1>10. \A n \in 0..m : n \in S
  <2>1. 0 \in S
    BY <1>0, <1>9
  <2>2. ASSUME NEW n \in 0..m, n \in S, n < m PROVE n + 1 \in S
    <3>1. n + 1 \in C /\ (n + 1) - 1 = n /\ n + 1 \in D
      BY <1>0, <2>2
    <3>2. f[n] \in X /\ f[n + 1] = step(f[n]) /\ Len(f[n]) = m - n
      BY <1>8, <2>2, <3>1
    <3>3. f[n] # <<>>
      BY <1>0, <2>2, <3>2, EmptySeq
    <3>4. Len(f[n + 1]) = Len(f[n]) - 1
      BY <3>2, <3>3, WithoutRootHas
    <3>5. Len(f[n + 1]) = m - (n + 1)
      BY <1>0, <3>2, <3>4
    <3> QED
      BY <3>1, <3>5
  <2> HIDE DEF S, m
  <2> QED
    BY <1>0, <2>1, <2>2, P!UpTo
<1>11. ASSUME NEW n \in D PROVE f[n] = IF n = 0 THEN h ELSE H!WithoutRoot(f[n - 1])
  <2>1. CASE n = 0
    BY <1>9, <2>1
  <2>2. CASE n # 0
    <3>1. n \in C /\ n - 1 \in D
      BY <1>0, <2>2
    <3>2. Len(f[n - 1]) = m - (n - 1)
      BY <1>10, <3>1
    <3>3. f[n - 1] # <<>>
      BY <1>0, <3>1, <3>2, EmptySeq
    <3> QED
      BY <1>8, <2>2, <3>1, <3>3
  <2> QED
    BY <2>1, <2>2
<1>12. f = [n \in 0..Len(h) |-> IF n = 0 THEN h ELSE H!WithoutRoot(f[n - 1])]
  BY <1>11
<1> QED
  BY <1>12, Zenon DEF Popping

(* Each is a heap of entries of the one before.                            *)
LEMMA PoppedHas ==
    ASSUME NEW h \in Seq(Entries), NEW n \in 0..Len(h)
    PROVE  /\ Popped(h)[n] \in Seq(Entries) /\ Len(Popped(h)[n]) = Len(h) - n
           /\ H!IsHeap(h) => H!IsHeap(Popped(h)[n])
           /\ \A x : Has(Popped(h)[n], x) => Has(h, x)
           /\ \A x : Has(h, x) /\ (\A m \in 0..(n - 1) : Popped(h)[m][1] # x) =>
                 Has(Popped(h)[n], x)
<1> DEFINE u == Popped(h)
           w == Len(h)
           Good(k) == /\ u[k] \in Seq(Entries) /\ Len(u[k]) = w - k
                      /\ H!IsHeap(h) => H!IsHeap(u[k])
                      /\ \A x : Has(u[k], x) => Has(h, x)
                      /\ \A x : Has(h, x) /\ (\A m \in 0..(k - 1) : u[m][1] # x) => Has(u[k], x)
           S == {k \in 0..w : Good(k)}
<1>0. w \in Nat
  BY LenProperties
<1>1. \A k \in 0..w : u[k] = IF k = 0 THEN h ELSE H!WithoutRoot(u[k - 1])
  <2>1. u = [k \in 0..w |-> IF k = 0 THEN h ELSE H!WithoutRoot(u[k - 1])]
    BY PoppedIsPopping, PoppingExists
  <2> HIDE DEF u
  <2> QED
    BY <2>1
<1> HIDE DEF u
<1>2. 0 \in S
  BY <1>0, <1>1
<1>3. ASSUME NEW k \in 0..w, k \in S, k < w PROVE k + 1 \in S
  <2>1. k + 1 \in 0..w /\ (k + 1) - 1 = k /\ k + 1 # 0 /\ k \in 0..k
    BY <1>0, <1>3
  <2>2. u[k + 1] = H!WithoutRoot(u[k])
    BY <1>1, <2>1
  <2>3. Good(k) /\ u[k] # <<>>
    BY <1>0, <1>3, EmptySeq
  <2>4. Good(k + 1)
    <3>1. /\ u[k + 1] \in Seq(Entries) /\ Len(u[k + 1]) = w - (k + 1)
          /\ H!IsHeap(h) => H!IsHeap(u[k + 1])
      BY <1>0, <2>2, <2>3, WithoutRootHas
    <3>2. \A x : Has(u[k + 1], x) => Has(h, x)
      BY <2>2, <2>3, WithoutRootHas
    <3>3. ASSUME NEW x, Has(h, x), \A m \in 0..k : u[m][1] # x PROVE Has(u[k + 1], x)
      <4>1. \A m \in 0..(k - 1) : m \in 0..k
        OBVIOUS
      <4>2. Has(u[k], x) /\ u[k][1] # x
        BY <2>1, <2>3, <3>3, <4>1
      <4> QED
        BY <2>2, <2>3, <4>2, WithoutRootHas
    <3> QED
      BY <2>1, <3>1, <3>2, <3>3
  <2> QED
    BY <2>1, <2>4
<1>4. \A k \in 0..w : k \in S
  <2> HIDE DEF S, w
  <2> QED
    BY <1>0, <1>2, <1>3, P!UpTo
<1>5. Good(n)
  BY <1>4
<1> QED
  BY <1>5 DEF u

(* It goes on to the first live root, so it drops no live entry.           *)
LEMMA DeadRootsDead ==
    ASSUME NEW h \in Seq(Entries)
    PROVE  /\ DeadRoots(h) \in 0..Len(h)
           /\ \A m \in 0..(DeadRoots(h) - 1) : ~Live(Popped(h)[m][1])
<1> DEFINE w == Len(h)
           T == {n \in 0..w : n = w \/ Live(Popped(h)[n][1])}
<1>0. w \in Nat
  BY LenProperties
<1>1. T \subseteq Nat /\ w \in T
  BY <1>0
<1>2. PICK n \in T : \A y \in T : n <= y
  <2> HIDE DEF T, w
  <2> QED
    BY <1>1, P!Least
<1>3. \A m \in 0..(n - 1) : ~Live(Popped(h)[m][1])
  <2>1. \A m \in 0..(n - 1) : m \in 0..w /\ ~(n <= m)
    BY <1>0
  <2> QED
    BY <1>2, <2>1
<1>4. \E k \in 0..Len(h) : /\ k = Len(h) \/ Live(Popped(h)[k][1])
                           /\ \A m \in 0..(k - 1) : ~Live(Popped(h)[m][1])
  BY <1>2, <1>3
<1> QED
  BY <1>4, Zenon DEF DeadRoots

LEMMA DeadRootsHas ==
    ASSUME NEW h \in Seq(Entries), NEW g, g = Popped(h)[DeadRoots(h)]
    PROVE  /\ g \in Seq(Entries) /\ DeadRoots(h) \in Nat
           /\ H!IsHeap(h) => H!IsHeap(g)
           /\ \A x : Has(g, x) => Has(h, x)
           /\ \A x : Has(h, x) /\ Live(x) => Has(g, x)
<1>1. Len(h) \in Nat
  BY LenProperties
<1>2. DeadRoots(h) \in Nat
  BY <1>1, DeadRootsDead
<1>3. \A x : Live(x) => \A m \in 0..(DeadRoots(h) - 1) : Popped(h)[m][1] # x
  BY DeadRootsDead
<1> QED
  BY <1>2, <1>3, DeadRootsDead, PoppedHas

LEMMA DeadlineRange ==
    /\ MaxTime \in Nat /\ Never \in Nat /\ MaxTime < Never
    /\ \A t \in Deadlines : t \in Nat /\ t <= MaxTime /\ t \in 0..Never
  BY ServiceBounds DEF Never

(* The earliest of some deadlines.                                         *)
LEMMA MinIsLeast ==
    ASSUME NEW S \in SUBSET Deadlines, S # {}
    PROVE  Min(S) \in S /\ \A y \in S : Min(S) <= y
<1>1. S \subseteq Nat
  BY ServiceBounds
<1>2. \E x \in S : \A y \in S : x <= y
  BY <1>1, P!Least
<1> QED
  BY <1>2, Zenon DEF Min

-----------------------------------------------------------------------------
(* Who holds a queue.                                                      *)
One(b) == IF b THEN 1 ELSE 0

LEMMA OneIsOne ==
    ASSUME NEW s, NEW b \in BOOLEAN
    PROVE  Cardinality({x \in {s} : b}) = One(b)
<1>1. CASE b
  <2>1. {x \in {s} : b} = {s}
    BY <1>1
  <2> QED
    BY <1>1, <2>1, FS_Singleton DEF One
<1>2. CASE ~b
  <2>1. {x \in {s} : b} = {}
    BY <1>2
  <2> QED
    BY <1>2, <2>1, FS_EmptySet DEF One
<1> QED
  BY <1>1, <1>2

LEMMA Counted1 ==
    ASSUME NEW s, NEW A
    PROVE  Cardinality({x \in {s} : s \in A}) = One(s \in A)
<1>1. (s \in A) \in BOOLEAN
  OBVIOUS
<1> HIDE DEF One
<1> QED
  BY <1>1, OneIsOne

LEMMA Counted2 ==
    ASSUME NEW s, NEW q, NEW r
    PROVE  Cardinality({x \in {s} : \/ q[s] = "app"
                                    \/ q[s] \in {"sync", "drop", "let_go", "keep", "retire", "register"}
                                       /\ r[s] = "app"})
             = One(\/ q[s] = "app"
                   \/ q[s] \in {"sync", "drop", "let_go", "keep", "retire", "register"} /\ r[s] = "app")
<1> DEFINE b == \/ q[s] = "app"
                \/ q[s] \in {"sync", "drop", "let_go", "keep", "retire", "register"} /\ r[s] = "app"
<1>1. b \in BOOLEAN
  OBVIOUS
<1>2. Cardinality({x \in {s} : b}) = One(b)
  <2> HIDE DEF b
  <2> QED
    BY <1>1, OneIsOne
<1> QED
  BY <1>2

(* The references, counted holder by holder.                               *)
HeldBy(s) == tasks[s] + Cardinality(Ticks(s)) + One(s \in app) + One(s \in self_ref)
               + One(InAppTask(s))

LEMMA HoldersCounted == RefsCountHolders <=> \A s \in Slots : refs[s] = HeldBy(s)
  BY Counted1, Counted2 DEF RefsCountHolders, HeldBy, InAppTask, Syncing

LEMMA HoldersCountedNext == RefsCountHolders' <=> \A s \in Slots : refs'[s] = HeldBy(s)'
  BY Counted1, Counted2 DEF RefsCountHolders, HeldBy, InAppTask, Syncing

(* Whoever holds a queue keeps it referenced.                              *)
LEMMA HolderCounts ==
    ASSUME TypeOK, QueueOK, HoldersOK, NEW s \in Slots
    PROVE  /\ refs[s] \in Nat
           /\ s \in app => refs[s] > 0
           /\ s \in self_ref => refs[s] > 0
           /\ tasks[s] > 0 => refs[s] > 0
           /\ Ticks(s) # {} => refs[s] > 0
           /\ qpc[s] # "idle" => refs[s] > 0
           /\ timers[s] # {} => refs[s] > 0
<1>1. IsFiniteSet(Ticks(s)) /\ refs[s] = HeldBy(s)
  BY HoldersCounted DEF HoldersOK
<1>2. /\ Cardinality(Ticks(s)) \in Nat
      /\ Ticks(s) # {} => Cardinality(Ticks(s)) # 0
  BY <1>1, FS_CardinalityType, FS_EmptySet
<1>3. tasks[s] \in Nat /\ refs[s] \in Nat
  BY DEF TypeOK
<1>4. qpc[s] # "idle" => InAppTask(s) \/ tasks[s] > 0
  <2>1. qpc[s] # "idle" => InAppTask(s) \/ InTimersTask(s)
    BY DEF TypeOK, InAppTask, InTimersTask, Syncing
  <2> QED
    BY <2>1 DEF QueueOK
<1>5. timers[s] # {} => s \in self_ref \/ qpc[s] # "idle"
  BY DEF QueueOK
<1>6. /\ One(s \in app) \in Nat /\ One(s \in self_ref) \in Nat /\ One(InAppTask(s)) \in Nat
      /\ s \in app => One(s \in app) = 1
      /\ s \in self_ref => One(s \in self_ref) = 1
      /\ InAppTask(s) => One(InAppTask(s)) = 1
  BY DEF One
<1>7. s \in app => refs[s] > 0
  BY <1>1, <1>2, <1>3, <1>6 DEF HeldBy
<1>8. s \in self_ref => refs[s] > 0
  BY <1>1, <1>2, <1>3, <1>6 DEF HeldBy
<1>9. tasks[s] > 0 => refs[s] > 0
  BY <1>1, <1>2, <1>3, <1>6 DEF HeldBy
<1>10. Ticks(s) # {} => refs[s] > 0
  BY <1>1, <1>2, <1>3, <1>6 DEF HeldBy
<1>11. ASSUME InAppTask(s) PROVE refs[s] > 0
  <2>1. One(InAppTask(s)) = 1
    BY <1>6, <1>11
  <2> HIDE DEF One
  <2> QED
    BY <1>1, <1>2, <1>3, <1>6, <2>1 DEF HeldBy
<1> QED
  BY <1>3, <1>4, <1>5, <1>7, <1>8, <1>9, <1>10, <1>11

(* The handler that holds the entry in hand or a queue of its batch.       *)
LEMMA HandlerHolds ==
    ASSUME TypeOK, BatchOK, NEW d \in Dispatchers
    PROVE  /\ dpc[d] \in {"acquire", "check", "release", "retire"} =>
                 elem[d] \in Entries /\ elem[d].slot \in Slots
           /\ dpc[d] \in {"check", "release", "retire"} => <<d, 0>> \in Ticks(elem[d].slot)
           /\ dpc[d] \in {"wake", "unref"} =>
                 /\ woke[d] \in Nat /\ Len(batch[d]) \in Nat
                 /\ woke[d] + 1 \in 1..Len(batch[d]) /\ woke[d] + 1 \in 1..Batch
                 /\ batch[d][woke[d] + 1] \in Slots
                 /\ <<d, woke[d] + 1>> \in Ticks(batch[d][woke[d] + 1])
<1>0. Batch \in Nat /\ 0 \in 0..Batch
  BY ServiceBounds
<1>1. dpc[d] \in {"acquire", "check", "release", "retire"} =>
        elem[d] \in Entries /\ elem[d].slot \in Slots
  BY DEF BatchOK, Entries
<1>2. dpc[d] \in {"check", "release", "retire"} => <<d, 0>> \in Ticks(elem[d].slot)
  BY <1>0 DEF Ticks
<1>3. ASSUME dpc[d] \in {"wake", "unref"}
      PROVE  /\ woke[d] \in Nat /\ Len(batch[d]) \in Nat
             /\ woke[d] + 1 \in 1..Len(batch[d]) /\ woke[d] + 1 \in 1..Batch
             /\ batch[d][woke[d] + 1] \in Slots
             /\ <<d, woke[d] + 1>> \in Ticks(batch[d][woke[d] + 1])
  <2>1. batch[d] \in Seq(Slots) /\ woke[d] \in 0..Batch
    BY DEF TypeOK
  <2>2. Len(batch[d]) \in Nat /\ woke[d] \in Nat
    BY <1>0, <2>1
  <2>3. woke[d] < Len(batch[d]) /\ Len(batch[d]) <= Batch
    BY <1>3 DEF BatchOK
  <2>4. woke[d] + 1 \in 1..Len(batch[d]) /\ woke[d] + 1 \in 1..Batch
    BY <1>0, <2>2, <2>3
  <2>5. batch[d][woke[d] + 1] \in Slots
    BY <2>1, <2>4, ElementOfSeq
  <2>6. <<d, woke[d] + 1>> \in Dispatchers \X (0..Batch) /\ woke[d] + 1 # 0
    BY <1>0, <2>2, <2>4
  <2>7. woke[d] + 1 \in (woke[d] + 1)..Len(batch[d])
    BY <2>2, <2>4
  <2> QED
    BY <2>2, <2>4, <2>5, <2>6, <2>7 DEF Ticks
<1> QED
  BY <1>1, <1>2, <1>3

LEMMA HandlerRefs ==
    ASSUME Inv, NEW d \in Dispatchers
    PROVE  /\ dpc[d] \in {"check", "release", "retire"} => refs[elem[d].slot] > 0
           /\ dpc[d] \in {"wake", "unref"} => refs[batch[d][woke[d] + 1]] > 0
<1>1. \A s \in Slots : \A t : t \in Ticks(s) => refs[s] > 0
  BY HolderCounts DEF Inv
<1>2. ASSUME dpc[d] \in {"check", "release", "retire"} PROVE refs[elem[d].slot] > 0
  <2>1. elem[d].slot \in Slots /\ <<d, 0>> \in Ticks(elem[d].slot)
    BY <1>2, HandlerHolds DEF Inv
  <2> QED
    BY <1>1, <2>1
<1>3. ASSUME dpc[d] \in {"wake", "unref"} PROVE refs[batch[d][woke[d] + 1]] > 0
  <2>1. batch[d][woke[d] + 1] \in Slots /\ <<d, woke[d] + 1>> \in Ticks(batch[d][woke[d] + 1])
    BY <1>3, HandlerHolds DEF Inv
  <2> QED
    BY <1>1, <2>1
<1> QED
  BY <1>2, <1>3

-----------------------------------------------------------------------------
(* What the threads leave alone.                                           *)
QueueStep(s) == Lifetime(s) \/ Application(s) \/ Context(s)

LEMMA QueueStepLeaves ==
    ASSUME NEW s \in Slots, QueueStep(s)
    PROVE  UNCHANGED <<lock, dpc, dnow, elem, batch, woke, now>>
<1>1. CASE Lifetime(s)
  BY <1>1 DEF Lifetime, CreateQueue, ReleaseQueue, BeginAppTask, disp_vars
<1>2. CASE Application(s)
  BY <1>2 DEF Application, EndAppTask, TimerReturns, WakeupAt, CancelTimer, disp_vars
<1>3. CASE Context(s)
  BY <1>3 DEF Context, BeginTimersTask, Fire, PassOver, SyncRead, SyncKeep, SyncDrop, SyncLetGo, SyncRetire,
              SyncRegister, EndTimersTask, GiveQueue, disp_vars
<1> QED
  BY <1>1, <1>2, <1>3 DEF QueueStep

LEMMA HandlerLeaves ==
    ASSUME NEW d \in Dispatchers, Handler(d)
    PROVE  /\ UNCHANGED <<free, reg_gen, reg_deadline, self_ref, queue_tombs, timers, app,
                          qpc, registered, qret, qnow, now, arms, creates>>
  BY DEF Handler, ReadTimerfd, ReadClock, Lock, TakeExpired, AcquireIfLive, CheckGeneration,
         ReleaseStale, RetireEntry, ArmAndUnlock, WakeQueue, ReleaseBatched, slot_vars,
         reg_vars, queue_vars

LEMMA KernelLeaves ==
    ASSUME Kernel
    PROVE  /\ UNCHANGED <<slot_vars, reg_vars, queue_vars, heap_vars, armed, lock, elem,
                          batch, woke, dnow, arms, creates>>
  BY DEF Kernel, ClockTicks, TimerfdExpires, EpollReports, disp_vars

LEMMA Steps ==
    ASSUME Next
    PROVE  \/ \E s \in Slots : QueueStep(s)
           \/ \E d \in Dispatchers : Handler(d)
           \/ Kernel
  BY DEF Next, QueueStep

(* The types, variable by variable.                                        *)
SlotTypes == refs \in [Slots -> Nat] /\ gen \in [Slots -> Nat] /\ free \in SUBSET Slots
RegTypes == /\ reg_gen \in [Slots -> Nat] /\ reg_deadline \in [Slots -> 0..Never]
            /\ self_ref \in SUBSET Slots /\ queue_tombs \in [Slots -> Nat]
QueueTypes == /\ timers \in [Slots -> SUBSET Deadlines]
              /\ app \in SUBSET Slots /\ tasks \in [Slots -> Nat]
              /\ registered \in [Slots -> BOOLEAN] /\ qnow \in [Slots -> 0..MaxTime]
ContextTypes == /\ qpc \in [Slots -> {"idle", "app", "pass", "fired", "sync", "drop",
                                      "let_go", "keep", "unref", "retire", "register"}]
                /\ qret \in [Slots -> {"app", "fired", "idle"}]
HeapTypes == /\ elems \in Seq(Entries) /\ hint \in Nat /\ armed \in 0..Never
             /\ lock \in Dispatchers \cup {NoOne}
HandlerTypes ==
    /\ dpc \in [Dispatchers -> {"idle", "read", "clock", "lock", "take", "acquire", "check",
                                "release", "retire", "arm", "wake", "unref"}]
    /\ dnow \in [Dispatchers -> 0..MaxTime]
    /\ elem \in [Dispatchers -> Entries \cup {NoEntry}]
    /\ batch \in [Dispatchers -> Seq(Slots)] /\ woke \in [Dispatchers -> 0..Batch]
ClockTypes == /\ now \in 0..MaxTime
              /\ fd_at \in 1..Never /\ fd_ticks \in BOOLEAN /\ fd_ready \in BOOLEAN
              /\ arms \in 0..MaxArms /\ creates \in 0..MaxCreates

LEMMA TypeParts == TypeOK <=> /\ SlotTypes /\ RegTypes /\ QueueTypes /\ ContextTypes
                              /\ HeapTypes /\ HandlerTypes /\ ClockTypes
  BY DEF TypeOK, SlotTypes, RegTypes, QueueTypes, ContextTypes, HeapTypes, HandlerTypes,
         ClockTypes

LEMMA TypePartsNext == TypeOK' <=> /\ SlotTypes' /\ RegTypes' /\ QueueTypes' /\ ContextTypes'
                                   /\ HeapTypes' /\ HandlerTypes' /\ ClockTypes'
  BY DEF TypeOK, SlotTypes, RegTypes, QueueTypes, ContextTypes, HeapTypes, HandlerTypes,
         ClockTypes

(* References and generations.                                             *)
LEMMA SlotStep ==
    ASSUME Inv, Next
    PROVE  SlotTypes'
<1>0. SlotTypes
  BY TypeParts DEF Inv
<1> USE DEF SlotTypes
<1>1. ASSUME NEW s \in Slots, QueueStep(s) PROVE SlotTypes'
  <2>0. /\ refs[s] \in Nat /\ gen[s] \in Nat
        /\ s \in app \/ qpc[s] # "idle" => refs[s] - 1 \in Nat
        /\ qpc[s] = "let_go" /\ s \in self_ref => refs[s] - 1 \in Nat
    BY <1>0, HolderCounts DEF Inv
  <2>1. CASE Lifetime(s)
    BY <1>0, <2>0, <2>1 DEF Lifetime, CreateQueue, ReleaseQueue, BeginAppTask
  <2>2. CASE Application(s)
    BY <1>0, <2>0, <2>2 DEF Application, EndAppTask, TimerReturns, WakeupAt, CancelTimer, slot_vars
  <2>3. CASE SyncRead(s) \/ SyncKeep(s)
    BY <1>0, <2>0, <2>3 DEF SyncRead, SyncKeep, slot_vars, reg_vars
  <2>4. CASE SyncDrop(s) \/ SyncLetGo(s)
    BY <1>0, <2>0, <2>4 DEF SyncDrop, SyncLetGo
  <2>5. CASE SyncRetire(s) \/ EndTimersTask(s) \/ GiveQueue(s)
    BY <1>0, <2>0, <2>5 DEF SyncRetire, EndTimersTask, GiveQueue
  <2>6. CASE BeginTimersTask(s) \/ Fire(s) \/ PassOver(s) \/ SyncRegister(s)
    BY <1>0, <2>6 DEF BeginTimersTask, Fire, PassOver, SyncRegister, slot_vars
  <2> QED
    BY <1>1, <2>1, <2>2, <2>3, <2>4, <2>5, <2>6 DEF QueueStep, Context
<1>2. ASSUME NEW d \in Dispatchers, Handler(d) PROVE SlotTypes'
  <2> DEFINE s == elem[d].slot
             b == batch[d][woke[d] + 1]
  <2>0. /\ dpc[d] \in {"acquire", "check", "release", "retire"} => s \in Slots
        /\ dpc[d] \in {"wake", "unref"} => b \in Slots
        /\ dpc[d] = "release" => refs[s] - 1 \in Nat
        /\ dpc[d] = "unref" => refs[b] - 1 \in Nat
    <3>1. /\ dpc[d] \in {"acquire", "check", "release", "retire"} => s \in Slots
          /\ dpc[d] \in {"wake", "unref"} => b \in Slots
      BY HandlerHolds DEF Inv
    <3>2. dpc[d] = "release" => refs[s] > 0
      BY HandlerRefs
    <3>3. dpc[d] = "unref" => refs[b] > 0
      BY HandlerRefs
    <3> HIDE DEF s, b
    <3> QED
      BY <1>0, <3>1, <3>2, <3>3
  <2> HIDE DEF s, b
  <2>1. CASE AcquireIfLive(d) \/ ReleaseStale(d) \/ RetireEntry(d)
    <3>1. CASE AcquireIfLive(d)
      BY <1>0, <2>0, <3>1 DEF AcquireIfLive, s
    <3>2. CASE ReleaseStale(d)
      BY <1>0, <2>0, <3>2 DEF ReleaseStale, s
    <3>3. CASE RetireEntry(d)
      BY <1>0, <2>0, <3>3 DEF RetireEntry, s
    <3> QED
      BY <2>1, <3>1, <3>2, <3>3
  <2>2. CASE WakeQueue(d) \/ ReleaseBatched(d)
    BY <1>0, <2>0, <2>2 DEF WakeQueue, ReleaseBatched, b
  <2>3. CASE ReadTimerfd(d) \/ ReadClock(d) \/ Lock(d) \/ TakeExpired(d)
               \/ CheckGeneration(d) \/ ArmAndUnlock(d)
    BY <1>0, <2>3 DEF ReadTimerfd, ReadClock, Lock, TakeExpired, CheckGeneration, ArmAndUnlock,
                      slot_vars
  <2> QED
    BY <1>2, <2>1, <2>2, <2>3 DEF Handler
<1>3. CASE Kernel
  BY <1>0, <1>3, KernelLeaves DEF slot_vars
<1> QED
  BY <1>1, <1>2, <1>3, Steps

(* The registrations of the queues.                                        *)
LEMMA RegStep ==
    ASSUME Inv, Next
    PROVE  RegTypes'
<1>0. RegTypes /\ SlotTypes /\ QueueTypes /\ Never \in Nat
  BY TypeParts, ServiceBounds DEF Inv, Never
<1> USE DEF RegTypes
<1>1. ASSUME NEW s \in Slots, QueueStep(s) PROVE RegTypes'
  <2>0. gen[s] \in Nat
    BY <1>0 DEF SlotTypes
  <2>1. CASE Lifetime(s)
    BY <1>0, <2>1 DEF Lifetime, CreateQueue, ReleaseQueue, BeginAppTask, reg_vars
  <2>2. CASE Application(s)
    BY <1>0, <2>2 DEF Application, EndAppTask, TimerReturns, WakeupAt, CancelTimer, reg_vars
  <2>3. CASE SyncRead(s) \/ SyncKeep(s) \/ SyncDrop(s) \/ SyncLetGo(s)
    BY <1>0, <2>3 DEF SyncRead, SyncKeep, SyncDrop, SyncLetGo, slot_vars, reg_vars
  <2>4. CASE SyncRetire(s)
    <3>1. timers[s] # {} /\ timers[s] \in SUBSET Deadlines
      BY <1>0, <2>4 DEF Inv, QueueOK, QueueTypes, SyncRetire
    <3>2. Min(timers[s]) \in Deadlines
      BY <3>1, MinIsLeast
    <3>3. Min(timers[s]) \in 0..Never
      BY <3>2, DeadlineRange
    <3> QED
      BY <1>0, <2>0, <2>4, <3>3 DEF SyncRetire
  <2>5. CASE SyncRegister(s)
    BY <1>0, <2>5 DEF SyncRegister
  <2>6. CASE BeginTimersTask(s) \/ Fire(s) \/ PassOver(s) \/ EndTimersTask(s) \/ GiveQueue(s)
    BY <1>0, <2>6 DEF BeginTimersTask, Fire, PassOver, EndTimersTask, GiveQueue, reg_vars
  <2> QED
    BY <1>1, <2>1, <2>2, <2>3, <2>4, <2>5, <2>6 DEF QueueStep, Context
<1>2. ASSUME NEW d \in Dispatchers, Handler(d) PROVE RegTypes'
  BY <1>0, <1>2, HandlerLeaves
<1>3. CASE Kernel
  BY <1>0, <1>3, KernelLeaves DEF reg_vars
<1> QED
  BY <1>1, <1>2, <1>3, Steps

(* The timers, the tasks and the locals of the queues.                     *)
LEMMA QueueTypesStep ==
    ASSUME Inv, Next
    PROVE  QueueTypes'
<1>0. QueueTypes /\ ClockTypes /\ ContextTypes /\ MaxTime \in Nat
  BY TypeParts, ServiceBounds DEF Inv
<1> USE DEF QueueTypes
<1>1. ASSUME NEW s \in Slots, QueueStep(s) PROVE QueueTypes'
  <2>1. CASE Lifetime(s)
    BY <1>0, <2>1 DEF Lifetime, CreateQueue, ReleaseQueue, BeginAppTask
  <2>2. CASE EndAppTask(s) \/ TimerReturns(s)
    BY <1>0, <2>2 DEF EndAppTask, TimerReturns
  <2>3. ASSUME NEW t \in Deadlines, WakeupAt(s, t) \/ CancelTimer(s, t) PROVE QueueTypes'
    BY <1>0, <2>3 DEF WakeupAt, CancelTimer
  <2>4. CASE BeginTimersTask(s)
    BY <1>0, <2>4 DEF BeginTimersTask, ClockTypes
  <2>5. CASE Fire(s) \/ PassOver(s)
    BY <1>0, <2>5 DEF Fire, PassOver
  <2>6. CASE SyncRead(s) \/ SyncKeep(s) \/ SyncDrop(s) \/ SyncLetGo(s) \/ SyncRetire(s) \/ SyncRegister(s) \/ GiveQueue(s)
    BY <1>0, <2>6 DEF SyncRead, SyncKeep, SyncDrop, SyncLetGo, SyncRetire, SyncRegister, GiveQueue, queue_vars
  <2>7. CASE EndTimersTask(s)
    <3>1. tasks[s] > 0
      BY <2>7 DEF Inv, QueueOK, InTimersTask, EndTimersTask
    <3>2. tasks[s] - 1 \in Nat
      BY <1>0, <3>1
    <3> QED
      BY <1>0, <2>7, <3>2 DEF EndTimersTask
  <2> QED
    BY <1>1, <2>1, <2>2, <2>3, <2>4, <2>5, <2>6, <2>7 DEF QueueStep, Application, Context
<1>2. ASSUME NEW d \in Dispatchers, Handler(d) PROVE QueueTypes'
  <2>1. CASE WakeQueue(d)
    <3> DEFINE s == batch[d][woke[d] + 1]
    <3>1. s \in Slots /\ tasks' = [tasks EXCEPT ![s] = @ + 1]
      BY <2>1, HandlerHolds DEF WakeQueue, Inv
    <3> HIDE DEF s
    <3>2. tasks' \in [Slots -> Nat]
      BY <1>0, <3>1
    <3> QED
      BY <1>0, <1>2, <3>2, HandlerLeaves
  <2>2. CASE ~WakeQueue(d)
    <3>1. tasks' = tasks
      BY <1>2, <2>2 DEF Handler, ReadTimerfd, ReadClock, Lock, TakeExpired, AcquireIfLive,
            CheckGeneration, ReleaseStale, RetireEntry, ArmAndUnlock, ReleaseBatched, queue_vars
    <3> QED
      BY <1>0, <1>2, <3>1, HandlerLeaves
  <2> QED
    BY <2>1, <2>2
<1>3. CASE Kernel
  BY <1>0, <1>3, KernelLeaves DEF queue_vars
<1> QED
  BY <1>1, <1>2, <1>3, Steps

(* Where the contexts of the queues are.                                   *)
LEMMA ContextStep ==
    ASSUME Inv, Next
    PROVE  ContextTypes'
<1>0. ContextTypes
  BY TypeParts DEF Inv
<1> USE DEF ContextTypes, GoQ
<1>1. ASSUME NEW s \in Slots, QueueStep(s) PROVE ContextTypes'
  <2>1. CASE Lifetime(s)
    BY <1>0, <2>1 DEF Lifetime, CreateQueue, ReleaseQueue, BeginAppTask
  <2>2. CASE EndAppTask(s) \/ TimerReturns(s)
    BY <1>0, <2>2 DEF EndAppTask, TimerReturns
  <2>3. ASSUME NEW t \in Deadlines, WakeupAt(s, t) \/ CancelTimer(s, t) PROVE ContextTypes'
    BY <1>0, <2>3 DEF WakeupAt, CancelTimer
  <2>4. CASE BeginTimersTask(s) \/ Fire(s) \/ PassOver(s)
    BY <1>0, <2>4 DEF BeginTimersTask, Fire, PassOver, EndPass
  <2>5. CASE SyncRead(s) \/ SyncKeep(s)
    BY <1>0, <2>5 DEF SyncRead, SyncKeep, Synced
  <2>6. CASE SyncDrop(s) \/ SyncLetGo(s) \/ SyncRegister(s)
    BY <1>0, <2>6 DEF SyncDrop, SyncLetGo, SyncRegister, Synced
  <2>7. CASE SyncRetire(s) \/ EndTimersTask(s) \/ GiveQueue(s)
    BY <1>0, <2>7 DEF SyncRetire, EndTimersTask, GiveQueue, queue_vars
  <2> QED
    BY <1>1, <2>1, <2>2, <2>3, <2>4, <2>5, <2>6, <2>7 DEF QueueStep, Application, Context
<1>2. ASSUME NEW d \in Dispatchers, Handler(d) PROVE ContextTypes'
  BY <1>0, <1>2, HandlerLeaves
<1>3. CASE Kernel
  BY <1>0, <1>3, KernelLeaves DEF queue_vars
<1> QED
  BY <1>1, <1>2, <1>3, Steps

-----------------------------------------------------------------------------
(* The heap of the service: ntt_timer_service_register adds the            *)
(* registration of the queue and drops no live entry.                      *)
LEMMA RegisterElems ==
    ASSUME Inv, NEW s \in Slots, SyncRegister(s)
    PROVE  /\ elems' \in Seq(Entries) /\ hint' \in Nat /\ H!IsHeap(elems')
           /\ Registration(s) \in Entries
           /\ \A x : Has(elems', x) => Has(elems, x) \/ x = Registration(s)
           /\ \A x : Live(x) /\ (Has(elems, x) \/ x = Registration(s)) => Has(elems', x)
           /\ ArmLocked(elems', armed)
<1> DEFINE e == Registration(s)
           h == H!Insert(elems, e)
           k == hint + queue_tombs[s]
           c == IF queue_tombs[s] = 0 THEN [elems |-> h, hint |-> hint] ELSE Compacted(h, k)
<1>1. e \in Entries
  <2>1. qpc[s] = "register" /\ QueueOK /\ TypeOK
    BY DEF SyncRegister, Inv
  <2>2. timers[s] # {} /\ timers[s] \in SUBSET Deadlines /\ reg_deadline[s] = Min(timers[s])
    BY <2>1 DEF QueueOK, TypeOK
  <2>3. Min(timers[s]) \in Deadlines
    BY <2>2, MinIsLeast
  <2>4. reg_deadline[s] \in Deadlines /\ reg_gen[s] \in Nat
    BY <2>1, <2>2, <2>3 DEF TypeOK
  <2> QED
    BY <2>4 DEF Registration, Entries
<1>2. elems' = c.elems /\ hint' = c.hint /\ ArmLocked(c.elems, armed)
  BY DEF SyncRegister, Registration
<1>3. elems \in Seq(Entries) /\ hint \in Nat /\ queue_tombs[s] \in Nat /\ H!IsHeap(elems)
  BY DEF Inv, TypeOK
<1>4. /\ h \in Seq(Entries) /\ H!IsHeap(h)
      /\ \A x : Has(h, x) <=> Has(elems, x) \/ x = e
  BY <1>1, <1>3, InsertHas
<1> HIDE DEF e, h
<1>5. CASE queue_tombs[s] = 0
  <2>1. c.elems = h /\ c.hint = hint
    BY <1>5
  <2> QED
    BY <1>1, <1>2, <1>3, <1>4, <2>1 DEF e
<1>6. CASE queue_tombs[s] # 0
  <2>1. c = Compacted(h, k)
    BY <1>6
  <2>2. k \in Nat
    BY <1>3
  <2>3. elems' = Compacted(h, k).elems /\ hint' = Compacted(h, k).hint
        /\ ArmLocked(Compacted(h, k).elems, armed)
    BY <1>2, <2>1
  <2> HIDE DEF c, k
  <2>4. /\ elems' \in Seq(Entries) /\ hint' \in Nat /\ H!IsHeap(elems')
        /\ \A x : Has(elems', x) => Has(h, x)
        /\ \A x : Has(h, x) /\ Live(x) => Has(elems', x)
    BY <1>4, <2>2, <2>3, CompactedHas
  <2> QED
    BY <1>1, <1>4, <2>3, <2>4 DEF e
<1> QED
  BY <1>5, <1>6

(* ntt_queue_heap_take_expired drops no live entry but the one it takes.   *)
LEMMA TakeElems ==
    ASSUME Inv, NEW d \in Dispatchers, TakeExpired(d)
    PROVE  /\ elems' \in Seq(Entries) /\ hint' \in Nat /\ H!IsHeap(elems')
           /\ \A x : Has(elems', x) => Has(elems, x)
           /\ \A x : Live(x) /\ Has(elems, x) => Has(elems', x) \/ (dpc'[d] = "acquire" /\ elem'[d] = x)
           /\ dpc' = [dpc EXCEPT ![d] = "acquire"] \/ dpc' = [dpc EXCEPT ![d] = "arm"]
           /\ dpc'[d] = "acquire" => /\ \E e \in Entries : elem' = [elem EXCEPT ![d] = e]
                                     /\ Len(batch[d]) < Batch
           /\ dpc'[d] # "acquire" => elem' = elem
<1> DEFINE n == DeadRoots(elems)
           h == Popped(elems)[n]
           room == Len(batch[d]) < Batch
           expired == room /\ h # <<>> /\ h[1].deadline <= dnow[d]
<1>0. elems \in Seq(Entries) /\ hint \in Nat /\ H!IsHeap(elems) /\ d \in DOMAIN dpc /\ d \in DOMAIN elem
  BY DEF Inv, TypeOK
<1>1. /\ h \in Seq(Entries) /\ n \in Nat /\ H!IsHeap(h)
      /\ \A x : Has(h, x) => Has(elems, x)
      /\ \A x : Has(elems, x) /\ Live(x) => Has(h, x)
  BY <1>0, DeadRootsHas
<1>2. /\ elems' = IF ~room THEN elems ELSE IF expired THEN H!WithoutRoot(h) ELSE h
      /\ hint' = IF room THEN HintAfter(n) ELSE hint
      /\ elem' = IF expired THEN [elem EXCEPT ![d] = h[1]] ELSE elem
      /\ dpc' = [dpc EXCEPT ![d] = IF expired THEN "acquire" ELSE "arm"]
  BY DEF TakeExpired, GoD
<1> HIDE DEF n, h
<1>3. hint' \in Nat
  BY <1>0, <1>1, <1>2 DEF HintAfter
<1>4. CASE expired
  <2>1. /\ H!WithoutRoot(h) \in Seq(Entries) /\ H!IsHeap(H!WithoutRoot(h))
        /\ \A x : Has(H!WithoutRoot(h), x) => Has(h, x)
        /\ \A x : Has(h, x) => Has(H!WithoutRoot(h), x) \/ x = h[1]
    BY <1>1, <1>4, WithoutRootHas
  <2>2. h[1] \in Entries
    <3>1. Len(h) \in Nat /\ Len(h) # 0
      BY <1>1, <1>4, EmptySeq, LenProperties
    <3>2. 1 \in 1..Len(h)
      BY <3>1
    <3> QED
      BY <1>1, <3>2, ElementOfSeq
  <2>3. /\ elems' = H!WithoutRoot(h) /\ elem' = [elem EXCEPT ![d] = h[1]]
        /\ dpc' = [dpc EXCEPT ![d] = "acquire"]
    BY <1>2, <1>4
  <2>4. dpc'[d] = "acquire" /\ elem'[d] = h[1]
    BY <1>0, <2>3
  <2> QED
    BY <1>1, <1>3, <1>4, <2>1, <2>2, <2>3, <2>4
<1>5. CASE ~expired
  <2>1. /\ elems' = elems \/ elems' = h
        /\ elem' = elem /\ dpc' = [dpc EXCEPT ![d] = "arm"]
    BY <1>2, <1>5
  <2>2. dpc'[d] # "acquire"
    BY <1>0, <2>1
  <2> QED
    BY <1>0, <1>1, <1>3, <2>1, <2>2
<1> QED
  BY <1>4, <1>5

(* No other step touches the heap.                                         *)
LEMMA OthersLeaveElems ==
    ASSUME Next, ~\E s \in Slots : SyncRegister(s), ~\E d \in Dispatchers : TakeExpired(d)
    PROVE  elems' = elems /\ hint' = hint
<1>1. ASSUME NEW s \in Slots, QueueStep(s) PROVE UNCHANGED heap_vars
  BY <1>1 DEF QueueStep, Lifetime, Application, Context, CreateQueue, ReleaseQueue, BeginAppTask,
       EndAppTask, TimerReturns, WakeupAt, CancelTimer, BeginTimersTask, Fire, PassOver,
       SyncRead, SyncKeep, SyncDrop, SyncLetGo, SyncRetire, EndTimersTask, GiveQueue
<1>2. ASSUME NEW d \in Dispatchers, Handler(d) PROVE UNCHANGED heap_vars
  BY <1>2 DEF Handler, ReadTimerfd, ReadClock, Lock, AcquireIfLive,
       CheckGeneration, ReleaseStale, RetireEntry, ArmAndUnlock, WakeQueue, ReleaseBatched
<1>3. ASSUME Kernel PROVE UNCHANGED heap_vars
  BY <1>3, KernelLeaves
<1>4. UNCHANGED heap_vars
  BY <1>1, <1>2, <1>3, Steps
<1> QED
  BY <1>4 DEF heap_vars

LEMMA ElemsStep ==
    ASSUME Inv, Next
    PROVE  elems' \in Seq(Entries) /\ hint' \in Nat /\ H!IsHeap(elems')
<1>1. CASE \E s \in Slots : SyncRegister(s)
  BY <1>1, RegisterElems
<1>2. CASE \E d \in Dispatchers : TakeExpired(d)
  BY <1>2, TakeElems
<1>3. CASE ~(\E s \in Slots : SyncRegister(s)) /\ ~(\E d \in Dispatchers : TakeExpired(d))
  <2>1. elems' = elems /\ hint' = hint
    BY <1>3, OthersLeaveElems
  <2> QED
    BY <2>1 DEF Inv, TypeOK
<1> QED
  BY <1>1, <1>2, <1>3

(* ntt_timer_service_arm_locked: what it leaves, for the top it has.       *)
LEMMA Arming ==
    ASSUME TypeOK, TypeOK, elems' \in Seq(Entries), NEW at \in 0..Never, ArmLocked(elems', at)
    PROVE  /\ armed' \in 0..Never /\ fd_at' \in 1..Never /\ fd_ticks' \in BOOLEAN /\ fd_ready' = fd_ready
           /\ elems' # <<>> => armed' <= elems'[1].deadline
           /\ \/ fd_at' = TimerValue(armed')
              \/ armed' = at /\ fd_at' = fd_at /\ fd_ticks' = fd_ticks
           /\ at = Never /\ elems' # <<>> => fd_at' = TimerValue(armed')
           /\ elems' = <<>> => armed' = at /\ fd_at' = fd_at
<1>0. /\ fd_at \in 1..Never /\ fd_ticks \in BOOLEAN /\ fd_ready \in BOOLEAN
  BY DEF TypeOK
<1>1. CASE elems' = <<>>
  BY <1>0, <1>1 DEF ArmLocked, fd_vars
<1>2. CASE elems' # <<>>
  <2> DEFINE t == elems'[1].deadline
  <2>1. t \in Deadlines
    <3>1. Len(elems') \in Nat /\ Len(elems') # 0
      BY <1>2, EmptySeq, LenProperties
    <3>2. elems'[1] \in Entries
      BY <3>1, ElementOfSeq
    <3> QED
      BY <3>2 DEF Entries
  <2>2. t \in Nat /\ t <= MaxTime /\ MaxTime < Never /\ t \in 0..Never /\ Never \in Nat /\ MaxTime \in Nat
    BY <2>1, DeadlineRange
  <2>3. CASE t < at
    <3>1. fd_at' = SetTime(TimerValue(t)) /\ fd_ticks' = FALSE /\ armed' = t /\ fd_ready' = fd_ready
      BY <1>2, <2>3 DEF ArmLocked, MustArm
    <3> HIDE DEF t
    <3>2. SetTime(TimerValue(t)) = TimerValue(t) /\ TimerValue(t) \in 1..Never
      BY <2>2 DEF SetTime, TimerValue
    <3>3. armed' \in 0..Never /\ armed' <= t /\ fd_at' = TimerValue(armed') /\ fd_at' \in 1..Never
      BY <2>2, <3>1, <3>2
    <3> QED
      BY <1>2, <3>1, <3>3 DEF t
  <2>4. CASE ~(t < at)
    <3>1. armed' = at /\ UNCHANGED fd_vars
      BY <1>2, <2>4 DEF ArmLocked, MustArm
    <3> HIDE DEF t
    <3>2. at # Never /\ at <= t
      BY <2>2, <2>4
    <3> QED
      BY <1>0, <1>2, <3>1, <3>2 DEF t, fd_vars
  <2> QED
    BY <2>3, <2>4
<1> QED
  BY <1>1, <1>2

(* The heap, the lock and the timerfd.                                     *)
LEMMA HeapStep ==
    ASSUME Inv, Next
    PROVE  HeapTypes' /\ ClockTypes'
<1>0. TypeOK /\ HeapTypes /\ ClockTypes /\ Never \in Nat /\ MaxTime \in Nat /\ MaxArms \in Nat
      /\ MaxCreates \in Nat
  BY TypeParts, DeadlineRange, ServiceBounds DEF Inv
<1>1. elems' \in Seq(Entries) /\ hint' \in Nat
  BY ElemsStep
<1> DEFINE Kept == /\ armed' \in 0..Never /\ lock' \in Dispatchers \cup {NoOne}
<1>2. ASSUME NEW s \in Slots, SyncRegister(s) PROVE Kept /\ ClockTypes'
  <2>1. ArmLocked(elems', armed) /\ armed \in 0..Never
    BY <1>0, <1>2, RegisterElems DEF HeapTypes
  <2>2. armed' \in 0..Never /\ fd_at' \in 1..Never /\ fd_ticks' \in BOOLEAN /\ fd_ready' = fd_ready
    BY <1>0, <1>1, <2>1, Arming
  <2>3. UNCHANGED <<lock, now, arms, creates>>
    BY <1>2 DEF SyncRegister
  <2> QED
    BY <1>0, <2>2, <2>3 DEF HeapTypes, ClockTypes
<1>3. ASSUME NEW d \in Dispatchers, ArmAndUnlock(d) PROVE Kept /\ ClockTypes'
  <2>1. elems' = elems /\ UNCHANGED <<now, arms, creates>> /\ lock' = NoOne
    BY <1>3 DEF ArmAndUnlock, heap_vars
  <2>2. ArmLocked(elems', Never) /\ Never \in 0..Never
    BY <1>0, <1>3, <2>1 DEF ArmAndUnlock, Disarmed
  <2>3. armed' \in 0..Never /\ fd_at' \in 1..Never /\ fd_ticks' \in BOOLEAN /\ fd_ready' = fd_ready
    BY <1>0, <1>1, <2>2, Arming
  <2> QED
    BY <1>0, <2>1, <2>3 DEF ClockTypes
<1>4. ASSUME NEW s \in Slots, QueueStep(s), ~SyncRegister(s) PROVE Kept /\ ClockTypes'
  <2>1. CASE CreateQueue(s)
    BY <1>0, <2>1 DEF CreateQueue, fd_vars, HeapTypes, ClockTypes
  <2>2. CASE \E t \in Deadlines : WakeupAt(s, t)
    BY <1>0, <2>2 DEF WakeupAt, fd_vars, HeapTypes, ClockTypes
  <2>3. CASE ~CreateQueue(s) /\ ~\E t \in Deadlines : WakeupAt(s, t)
    <3>1. UNCHANGED <<armed, lock, now, fd_vars, arms, creates>>
      BY <1>4, <2>3 DEF QueueStep, Lifetime, Application, Context, ReleaseQueue, BeginAppTask,
       EndAppTask, TimerReturns, CancelTimer, BeginTimersTask, Fire, PassOver,
       SyncRead, SyncKeep, SyncDrop, SyncLetGo, SyncRetire, EndTimersTask, GiveQueue
    <3> QED
      BY <1>0, <3>1 DEF fd_vars, HeapTypes, ClockTypes
  <2> QED
    BY <2>1, <2>2, <2>3
<1>5. ASSUME NEW d \in Dispatchers, Handler(d), ~ArmAndUnlock(d) PROVE Kept /\ ClockTypes'
  BY <1>0, <1>5 DEF Handler, ReadTimerfd, ReadClock, Lock, TakeExpired, AcquireIfLive,
       CheckGeneration, ReleaseStale, RetireEntry, WakeQueue, ReleaseBatched, fd_vars,
       HeapTypes, ClockTypes
<1>6. ASSUME Kernel PROVE Kept /\ ClockTypes'
  <2> HIDE DEF Kept
  <2>1. CASE ClockTicks
    BY <1>0, <2>1 DEF ClockTicks, fd_vars, HeapTypes, ClockTypes, Kept
  <2>2. CASE TimerfdExpires
    BY <1>0, <2>2 DEF TimerfdExpires, HeapTypes, ClockTypes, Kept
  <2>3. CASE \E d \in Dispatchers : EpollReports(d)
    BY <1>0, <2>3 DEF EpollReports, HeapTypes, ClockTypes, Kept
  <2> QED
    BY <1>6, <2>1, <2>2, <2>3 DEF Kernel
<1>7. Kept /\ ClockTypes'
  BY <1>2, <1>3, <1>4, <1>5, <1>6, Steps DEF Context, QueueStep
<1> QED
  BY <1>1, <1>7 DEF HeapTypes

(* The locals of the handlers.                                             *)
LEMMA HandlerStep ==
    ASSUME Inv, Next
    PROVE  HandlerTypes'
<1>0. HandlerTypes /\ now \in 0..MaxTime /\ MaxTime \in Nat /\ Batch \in Nat
  BY TypeParts, DeadlineRange, ServiceBounds DEF Inv, TypeOK
<1> USE DEF HandlerTypes, GoD
<1>1. ASSUME NEW s \in Slots, QueueStep(s) PROVE HandlerTypes'
  BY <1>0, <1>1, QueueStepLeaves
<1>2. ASSUME NEW d \in Dispatchers, Handler(d) PROVE HandlerTypes'
  <2>1. CASE ReadTimerfd(d) \/ Lock(d) \/ AcquireIfLive(d) \/ CheckGeneration(d) \/ ReleaseStale(d)
               \/ WakeQueue(d)
    BY <1>0, <2>1 DEF ReadTimerfd, Lock, AcquireIfLive, CheckGeneration, ReleaseStale, WakeQueue
  <2>2. CASE ReadClock(d)
    BY <1>0, <2>2 DEF ReadClock
  <2>3. CASE TakeExpired(d)
    <3>1. UNCHANGED <<dnow, batch, woke>>
      BY <2>3 DEF TakeExpired
    <3>2. dpc' = [dpc EXCEPT ![d] = "acquire"] \/ dpc' = [dpc EXCEPT ![d] = "arm"]
      BY <2>3, TakeElems
    <3>3. (\E e \in Entries : elem' = [elem EXCEPT ![d] = e]) \/ elem' = elem
      BY <2>3, TakeElems
    <3>4. elem' \in [Dispatchers -> Entries \cup {NoEntry}]
      BY <1>0, <3>3
    <3> QED
      BY <1>0, <3>1, <3>2, <3>4
  <2>4. CASE RetireEntry(d)
    <3>1. elem[d].slot \in Slots /\ batch[d] \in Seq(Slots)
      BY <1>0, <2>4, HandlerHolds DEF RetireEntry, Inv
    <3>2. Append(batch[d], elem[d].slot) \in Seq(Slots)
      BY <3>1, AppendProperties
    <3>3. batch' \in [Dispatchers -> Seq(Slots)]
      BY <1>0, <2>4, <3>2 DEF RetireEntry
    <3> QED
      BY <1>0, <2>4, <3>3 DEF RetireEntry
  <2>5. CASE ArmAndUnlock(d)
    BY <1>0, <2>5 DEF ArmAndUnlock
  <2>6. CASE ReleaseBatched(d)
    <3>1. woke[d] + 1 \in 1..Batch
      BY <2>6, HandlerHolds DEF ReleaseBatched, Inv
    <3>2. woke[d] + 1 \in 0..Batch /\ 0 \in 0..Batch /\ <<>> \in Seq(Slots)
      BY <1>0, <3>1
    <3>3. woke' \in [Dispatchers -> 0..Batch]
      BY <1>0, <2>6, <3>2 DEF ReleaseBatched
    <3>4. batch' \in [Dispatchers -> Seq(Slots)]
      BY <1>0, <2>6, <3>2 DEF ReleaseBatched
    <3> QED
      BY <1>0, <2>6, <3>3, <3>4 DEF ReleaseBatched
  <2> QED
    BY <1>2, <2>1, <2>2, <2>3, <2>4, <2>5, <2>6 DEF Handler
<1>3. CASE Kernel
  <2>1. UNCHANGED <<dnow, elem, batch, woke>>
    BY <1>3, KernelLeaves
  <2>2. dpc' \in [Dispatchers -> {"idle", "read", "clock", "lock", "take", "acquire", "check",
                                "release", "retire", "arm", "wake", "unref"}]
    BY <1>0, <1>3 DEF Kernel, ClockTicks, TimerfdExpires, EpollReports, disp_vars
  <2> QED
    BY <1>0, <2>1, <2>2
<1> QED
  BY <1>1, <1>2, <1>3, Steps

LEMMA TypeStep ==
    ASSUME Inv, Next
    PROVE  TypeOK'
  BY SlotStep, RegStep, QueueTypesStep, ContextStep, HeapStep, HandlerStep, TypePartsNext

-----------------------------------------------------------------------------
(* The lock.                                                               *)
LEMMA LockStep ==
    ASSUME Inv, Next
    PROVE  LockOK'
<1>0. HandlerTypes /\ LockOK /\ \A d \in Dispatchers : d # NoOne
  BY TypeParts, ServiceThreads DEF Inv
<1> USE DEF LockOK, Locked, GoD, HandlerTypes
<1>1. ASSUME NEW s \in Slots, QueueStep(s) PROVE LockOK'
  BY <1>0, <1>1, QueueStepLeaves
<1>2. ASSUME NEW d \in Dispatchers, Handler(d) PROVE LockOK'
  <2>1. CASE ReadTimerfd(d) \/ ReadClock(d) \/ Lock(d)
    BY <1>0, <2>1 DEF ReadTimerfd, ReadClock, Lock
  <2>2. CASE TakeExpired(d)
    <3>1. dpc' = [dpc EXCEPT ![d] = "acquire"] \/ dpc' = [dpc EXCEPT ![d] = "arm"]
      BY <2>2, TakeElems
    <3> QED
      BY <1>0, <2>2, <3>1 DEF TakeExpired
  <2>3. CASE AcquireIfLive(d) \/ CheckGeneration(d) \/ ReleaseStale(d) \/ RetireEntry(d)
    BY <1>0, <2>3 DEF AcquireIfLive, CheckGeneration, ReleaseStale, RetireEntry
  <2>4. CASE ArmAndUnlock(d)
    BY <1>0, <2>4 DEF ArmAndUnlock
  <2>5. CASE WakeQueue(d) \/ ReleaseBatched(d)
    BY <1>0, <2>5 DEF WakeQueue, ReleaseBatched
  <2> QED
    BY <1>2, <2>1, <2>2, <2>3, <2>4, <2>5 DEF Handler
<1>3. CASE Kernel
  BY <1>0, <1>3 DEF Kernel, ClockTicks, TimerfdExpires, EpollReports, disp_vars
<1> QED
  BY <1>1, <1>2, <1>3, Steps

(* The batch.                                                              *)
LEMMA BatchStep ==
    ASSUME Inv, Next
    PROVE  BatchOK'
<1>0. /\ HandlerTypes /\ BatchOK /\ Batch \in Nat /\ Batch > 0
      /\ \A d \in Dispatchers : Len(batch[d]) \in Nat /\ batch[d] \in Seq(Slots)
  BY TypeParts, ServiceBounds DEF Inv, HandlerTypes
<1> DEFINE Fine(d) ==
        /\ Len(batch[d]) <= Batch
        /\ dpc[d] \in {"idle", "read", "clock", "lock"} => batch[d] = <<>>
        /\ dpc[d] \notin {"wake", "unref"} => woke[d] = 0
        /\ dpc[d] \in {"wake", "unref"} => woke[d] < Len(batch[d])
        /\ dpc[d] \in {"acquire", "check", "release", "retire"} =>
              elem[d] \in Entries /\ Len(batch[d]) < Batch
<1> USE DEF HandlerTypes, GoD
<1>1. ASSUME NEW s \in Slots, QueueStep(s) PROVE BatchOK'
  BY <1>0, <1>1, QueueStepLeaves DEF BatchOK
<1>2. ASSUME NEW d \in Dispatchers, Handler(d) PROVE BatchOK'
  <2>0. Fine(d)
    BY <1>0 DEF BatchOK
  <2>1. \A c \in Dispatchers : c # d =>
          dpc'[c] = dpc[c] /\ elem'[c] = elem[c] /\ batch'[c] = batch[c] /\ woke'[c] = woke[c]
    BY <1>0, <1>2 DEF Handler, ReadTimerfd, ReadClock, Lock, TakeExpired, AcquireIfLive,
       CheckGeneration, ReleaseStale, RetireEntry, ArmAndUnlock, WakeQueue, ReleaseBatched
  <2>2. Fine(d)'
    <3>1. CASE ReadTimerfd(d) \/ ReadClock(d) \/ Lock(d)
      BY <1>0, <2>0, <3>1 DEF ReadTimerfd, ReadClock, Lock
    <3>2. CASE TakeExpired(d)
      <4>1. dpc[d] = "take" /\ UNCHANGED <<batch, woke>>
        BY <3>2 DEF TakeExpired
      <4>2. dpc'[d] = "acquire" \/ dpc'[d] = "arm"
        BY <1>0, <3>2, TakeElems
      <4>3. dpc'[d] = "acquire" => Len(batch[d]) < Batch /\ \E e \in Entries : elem' = [elem EXCEPT ![d] = e]
        BY <3>2, TakeElems
      <4>4. dpc'[d] = "acquire" => elem'[d] \in Entries
        BY <1>0, <4>3
      <4> QED
        BY <1>0, <2>0, <4>1, <4>2, <4>3, <4>4
    <3>3. CASE AcquireIfLive(d) \/ CheckGeneration(d) \/ ReleaseStale(d)
      BY <1>0, <2>0, <3>3 DEF AcquireIfLive, CheckGeneration, ReleaseStale
    <3>4. CASE RetireEntry(d)
      <4>1. elem[d].slot \in Slots
        BY <3>4, HandlerHolds DEF RetireEntry, Inv
      <4>2. batch'[d] = Append(batch[d], elem[d].slot)
        BY <1>0, <3>4 DEF RetireEntry
      <4>3. Len(batch'[d]) = Len(batch[d]) + 1
        BY <1>0, <4>1, <4>2, AppendProperties
      <4>4. dpc[d] = "retire" /\ dpc'[d] = "take" /\ woke' = woke
        BY <1>0, <3>4 DEF RetireEntry
      <4> QED
        BY <1>0, <2>0, <4>3, <4>4
    <3>5. CASE ArmAndUnlock(d)
      <4>1. dpc[d] = "arm" /\ UNCHANGED <<batch, woke>>
            /\ dpc'[d] = IF batch[d] = <<>> THEN "idle" ELSE "wake"
        BY <1>0, <3>5 DEF ArmAndUnlock
      <4>2. batch[d] # <<>> => Len(batch[d]) > 0
        BY <1>0, EmptySeq
      <4> QED
        BY <1>0, <2>0, <4>1, <4>2
    <3>6. CASE WakeQueue(d)
      BY <1>0, <2>0, <3>6 DEF WakeQueue
    <3>7. CASE ReleaseBatched(d)
      <4>1. CASE woke[d] + 1 < Len(batch[d])
        BY <1>0, <2>0, <3>7, <4>1 DEF ReleaseBatched
      <4>2. CASE ~(woke[d] + 1 < Len(batch[d]))
        <5>1. batch'[d] = <<>> /\ woke'[d] = 0 /\ dpc'[d] \in {"clock", "idle"}
          BY <1>0, <3>7, <4>2 DEF ReleaseBatched
        <5>2. Len(<<>>) = 0
          OBVIOUS
        <5> QED
          BY <1>0, <5>1, <5>2
      <4> QED
        BY <4>1, <4>2
    <3> QED
      BY <1>2, <3>1, <3>2, <3>3, <3>4, <3>5, <3>6, <3>7 DEF Handler
  <2>3. ASSUME NEW c \in Dispatchers PROVE Fine(c)'
    <3>1. CASE c = d
      BY <2>2, <3>1
    <3>2. CASE c # d
      <4>1. Fine(c)
        BY <1>0 DEF BatchOK
      <4>2. dpc'[c] = dpc[c] /\ elem'[c] = elem[c] /\ batch'[c] = batch[c] /\ woke'[c] = woke[c]
        BY <2>1, <3>2
      <4> QED
        BY <4>1, <4>2
    <3> QED
      BY <3>1, <3>2
  <2> QED
    BY <2>3 DEF BatchOK
<1>3. CASE Kernel
  <2>1. CASE ClockTicks \/ TimerfdExpires
    BY <1>0, <2>1 DEF ClockTicks, TimerfdExpires, disp_vars, BatchOK
  <2>2. ASSUME NEW d \in Dispatchers, EpollReports(d) PROVE BatchOK'
    BY <1>0, <2>2 DEF EpollReports, BatchOK
  <2> QED
    BY <1>3, <2>1, <2>2 DEF Kernel
<1> QED
  BY <1>1, <1>2, <1>3, Steps

-----------------------------------------------------------------------------
(* A queue leaves the other queues alone.                                  *)
Same(c) == /\ refs'[c] = refs[c] /\ gen'[c] = gen[c] /\ (c \in free' <=> c \in free)
           /\ reg_gen'[c] = reg_gen[c] /\ reg_deadline'[c] = reg_deadline[c]
           /\ (c \in self_ref' <=> c \in self_ref) /\ timers'[c] = timers[c]
           /\ (c \in app' <=> c \in app) /\ tasks'[c] = tasks[c]
           /\ qpc'[c] = qpc[c] /\ qret'[c] = qret[c] /\ registered'[c] = registered[c]

LEMMA OtherQueuesSame ==
    ASSUME Inv, NEW s \in Slots, QueueStep(s), NEW c \in Slots, c # s
    PROVE  Same(c)
<1>0. SlotTypes /\ RegTypes /\ QueueTypes /\ ContextTypes
  BY TypeParts DEF Inv
<1> USE DEF Same, SlotTypes, RegTypes, QueueTypes, ContextTypes, GoQ
<1>1. CASE Lifetime(s)
  BY <1>0, <1>1 DEF Lifetime, CreateQueue, ReleaseQueue, BeginAppTask, reg_vars
<1>2. CASE Application(s)
  BY <1>0, <1>2 DEF Application, EndAppTask, TimerReturns, WakeupAt, CancelTimer, reg_vars,
                    slot_vars
<1>3. CASE BeginTimersTask(s) \/ Fire(s) \/ PassOver(s) \/ EndTimersTask(s) \/ GiveQueue(s)
  BY <1>0, <1>3 DEF BeginTimersTask, Fire, PassOver, EndPass, EndTimersTask, GiveQueue, reg_vars,
                    slot_vars, queue_vars
<1>4. CASE SyncRead(s) \/ SyncKeep(s)
  BY <1>0, <1>4 DEF SyncRead, SyncKeep, Synced, slot_vars, reg_vars
<1>5. CASE SyncDrop(s) \/ SyncLetGo(s)
  BY <1>0, <1>5 DEF SyncDrop, SyncLetGo, Synced
<1>6. CASE SyncRetire(s)
  BY <1>0, <1>6 DEF SyncRetire
<1>7. CASE SyncRegister(s)
  BY <1>0, <1>7 DEF SyncRegister, Synced, slot_vars
<1> QED
  BY <1>1, <1>2, <1>3, <1>4, <1>5, <1>6, <1>7 DEF QueueStep, Context

(* The steps of one queue, one by one: what each does to it.               *)
QueueFine(s) ==
        /\ InTimersTask(s) => tasks[s] > 0
        /\ qpc[s] \in {"drop", "let_go"} => timers[s] = {}
        /\ qpc[s] \in {"keep", "retire", "register"} => timers[s] # {}
        /\ qpc[s] = "register" => reg_deadline[s] = Min(timers[s])
        /\ timers[s] # {} => s \in self_ref \/ qpc[s] \in {"sync", "keep"}
        /\ s \in free => refs[s] = 0

LEMMA QueueFineStep ==
    ASSUME Inv, NEW s \in Slots, QueueStep(s)
    PROVE  QueueFine(s)'
<1>0. SlotTypes /\ RegTypes /\ QueueTypes /\ ContextTypes /\ QueueFine(s)
  BY TypeParts DEF Inv, QueueOK, QueueFine
<1>r. /\ refs[s] \in Nat
      /\ s \in app => refs[s] > 0
      /\ s \in self_ref => refs[s] > 0
      /\ tasks[s] > 0 => refs[s] > 0
      /\ qpc[s] # "idle" => refs[s] > 0
      /\ timers[s] # {} => refs[s] > 0
  BY HolderCounts DEF Inv
<1> USE DEF QueueFine, SlotTypes, RegTypes, QueueTypes, ContextTypes, GoQ, InTimersTask, Syncing
<1>1. CASE CreateQueue(s)
  BY <1>0, <1>r, <1>1 DEF CreateQueue
<1>2. CASE ReleaseQueue(s) \/ BeginAppTask(s)
  BY <1>0, <1>r, <1>2 DEF ReleaseQueue, BeginAppTask, reg_vars
<1>3. CASE EndAppTask(s) \/ TimerReturns(s)
  BY <1>0, <1>r, <1>3 DEF EndAppTask, TimerReturns, reg_vars, slot_vars
<1>4. ASSUME NEW t \in Deadlines, WakeupAt(s, t) \/ CancelTimer(s, t) PROVE QueueFine(s)'
  BY <1>0, <1>r, <1>4 DEF WakeupAt, CancelTimer, reg_vars, slot_vars
<1>5. CASE BeginTimersTask(s) \/ PassOver(s)
  BY <1>0, <1>r, <1>5 DEF BeginTimersTask, PassOver, EndPass, reg_vars, slot_vars
<1>6. CASE Fire(s)
  BY <1>0, <1>r, <1>6 DEF Fire, reg_vars, slot_vars
<1>7. CASE SyncRead(s) \/ SyncKeep(s)
  BY <1>0, <1>r, <1>7 DEF SyncRead, SyncKeep, Synced, KeptAlive, slot_vars, reg_vars
<1>8. CASE SyncDrop(s) \/ SyncLetGo(s)
  BY <1>0, <1>r, <1>8 DEF SyncDrop, SyncLetGo, Synced
<1>9. CASE SyncRetire(s)
  BY <1>0, <1>r, <1>9 DEF SyncRetire
<1>10. CASE SyncRegister(s)
  BY <1>0, <1>r, <1>10 DEF SyncRegister, Synced, slot_vars
<1>11. CASE EndTimersTask(s) \/ GiveQueue(s)
  BY <1>0, <1>r, <1>11 DEF EndTimersTask, GiveQueue, reg_vars, queue_vars
<1> QED
  BY <1>1, <1>2, <1>3, <1>4, <1>5, <1>6, <1>7, <1>8, <1>9, <1>10, <1>11
     DEF QueueStep, Lifetime, Application, Context

(* A handler does not bring a queue back, and takes no task away.          *)
LEMMA HandlerSlots ==
    ASSUME Inv, NEW d \in Dispatchers, Handler(d), NEW c \in Slots
    PROVE  /\ tasks'[c] >= tasks[c] /\ tasks[c] \in Nat /\ tasks'[c] \in Nat
           /\ refs[c] = 0 => refs'[c] = 0
           /\ gen'[c] = gen[c] \/ (RetireEntry(d) /\ elem[d].slot = c /\ gen'[c] = gen[c] + 1)
<1>0. SlotTypes /\ QueueTypes
  BY TypeParts DEF Inv
<1> USE DEF SlotTypes, QueueTypes
<1> DEFINE s == elem[d].slot
           b == batch[d][woke[d] + 1]
           Goal == /\ tasks'[c] >= tasks[c] /\ tasks[c] \in Nat /\ tasks'[c] \in Nat
                   /\ refs[c] = 0 => refs'[c] = 0
                   /\ gen'[c] = gen[c] \/ (RetireEntry(d) /\ s = c /\ gen'[c] = gen[c] + 1)
<1>1. /\ dpc[d] \in {"acquire", "check", "release", "retire"} => s \in Slots
      /\ dpc[d] \in {"wake", "unref"} => b \in Slots
      /\ dpc[d] \in {"check", "release", "retire"} => refs[s] > 0
      /\ dpc[d] \in {"wake", "unref"} => refs[b] > 0
  BY HandlerHolds, HandlerRefs DEF Inv
<1> HIDE DEF s, b
<1>2. CASE AcquireIfLive(d)
  BY <1>0, <1>1, <1>2 DEF AcquireIfLive, Acquirable, queue_vars, s
<1>3. CASE ReleaseStale(d)
  BY <1>0, <1>1, <1>3 DEF ReleaseStale, queue_vars, s
<1>4. CASE RetireEntry(d)
  <2>1. refs' = refs /\ tasks' = tasks /\ s \in Slots /\ gen' = [gen EXCEPT ![s] = @ + 1]
    BY <1>1, <1>4 DEF RetireEntry, queue_vars, s
  <2>2. gen'[c] = gen[c] \/ (s = c /\ gen'[c] = gen[c] + 1)
    BY <1>0, <2>1
  <2> QED
    BY <1>0, <1>4, <2>1, <2>2 DEF s
<1>5. CASE WakeQueue(d)
  BY <1>0, <1>1, <1>5 DEF WakeQueue, b
<1>6. CASE ReleaseBatched(d)
  BY <1>0, <1>1, <1>6 DEF ReleaseBatched, queue_vars, b
<1>7. CASE ReadTimerfd(d) \/ ReadClock(d) \/ Lock(d) \/ TakeExpired(d)
               \/ CheckGeneration(d) \/ ArmAndUnlock(d)
  <2>1. refs' = refs /\ tasks' = tasks /\ gen' = gen
    BY <1>7 DEF ReadTimerfd, ReadClock, Lock, TakeExpired, CheckGeneration, ArmAndUnlock,
                slot_vars, queue_vars
  <2> QED
    BY <1>0, <2>1
<1> QED
  BY <1>2, <1>3, <1>4, <1>5, <1>6, <1>7 DEF Handler

(* What the steps of the queues rely on.                                   *)
LEMMA QueueOKStep ==
    ASSUME Inv, Next
    PROVE  QueueOK'
<1>0. \A c \in Slots : QueueFine(c)
  BY DEF Inv, QueueOK, QueueFine
<1>1. ASSUME NEW s \in Slots, QueueStep(s), NEW c \in Slots PROVE QueueFine(c)'
  <2>1. CASE c = s
    BY <1>1, <2>1, QueueFineStep
  <2>2. CASE c # s
    <3>1. Same(c)
      BY <1>1, <2>2, OtherQueuesSame
    <3> QED
      BY <1>0, <3>1 DEF Same, QueueFine, InTimersTask, Syncing
  <2> QED
    BY <2>1, <2>2
<1>2. ASSUME NEW d \in Dispatchers, Handler(d), NEW c \in Slots PROVE QueueFine(c)'
  <2>1. UNCHANGED <<free, reg_deadline, self_ref, timers, qpc, qret>>
    BY <1>2, HandlerLeaves
  <2>2. /\ tasks'[c] >= tasks[c] /\ tasks[c] \in Nat /\ tasks'[c] \in Nat
        /\ refs[c] = 0 => refs'[c] = 0
    BY <1>2, HandlerSlots
  <2> QED
    BY <1>0, <2>1, <2>2 DEF QueueFine, InTimersTask, Syncing
<1>3. ASSUME Kernel, NEW c \in Slots PROVE QueueFine(c)'
  BY <1>0, <1>3, KernelLeaves DEF QueueFine, InTimersTask, Syncing, slot_vars, reg_vars, queue_vars
<1>4. \A c \in Slots : QueueFine(c)'
  BY <1>1, <1>2, <1>3, Steps
<1> QED
  BY <1>4 DEF QueueOK, QueueFine

-----------------------------------------------------------------------------
(* Generations only grow.                                                  *)
LEMMA GenGrows ==
    ASSUME Inv, Next, NEW c \in Slots
    PROVE  /\ gen[c] \in Nat /\ gen'[c] \in Nat /\ gen'[c] >= gen[c]
           /\ reg_gen[c] <= gen[c] => reg_gen'[c] <= gen'[c]
           /\ c \in free' => gen'[c] > gen[c] \/ c \in free
<1>0. SlotTypes /\ RegTypes /\ QueueTypes /\ ContextTypes
  BY TypeParts DEF Inv
<1> USE DEF SlotTypes, RegTypes
<1> DEFINE Goal == /\ gen[c] \in Nat /\ gen'[c] \in Nat /\ gen'[c] >= gen[c]
                   /\ reg_gen[c] <= gen[c] => reg_gen'[c] <= gen'[c]
                   /\ c \in free' => gen'[c] > gen[c] \/ c \in free
<1>1. ASSUME NEW s \in Slots, QueueStep(s) PROVE Goal
  <2>1. CASE c # s
    <3>1. Same(c)
      BY <1>1, <2>1, OtherQueuesSame
    <3> QED
      BY <1>0, <3>1 DEF Same
  <2>2. CASE c = s
    <3>1. CASE Lifetime(s)
      BY <1>0, <2>2, <3>1 DEF Lifetime, CreateQueue, ReleaseQueue, BeginAppTask, reg_vars
    <3>2. CASE Application(s)
      BY <1>0, <2>2, <3>2 DEF Application, EndAppTask, TimerReturns, WakeupAt, CancelTimer, reg_vars, slot_vars
    <3>3. CASE BeginTimersTask(s) \/ Fire(s) \/ PassOver(s) \/ EndTimersTask(s) \/ GiveQueue(s)
      BY <1>0, <2>2, <3>3 DEF BeginTimersTask, Fire, PassOver, EndTimersTask, GiveQueue, reg_vars, slot_vars
    <3>4. CASE SyncRead(s) \/ SyncKeep(s) \/ SyncDrop(s) \/ SyncLetGo(s)
      BY <1>0, <2>2, <3>4 DEF SyncRead, SyncKeep, SyncDrop, SyncLetGo, slot_vars, reg_vars
    <3>5. CASE SyncRetire(s) \/ SyncRegister(s)
      BY <1>0, <2>2, <3>5 DEF SyncRetire, SyncRegister, slot_vars
    <3> QED
      BY <1>1, <3>1, <3>2, <3>3, <3>4, <3>5 DEF QueueStep, Context
  <2> QED
    BY <2>1, <2>2
<1>2. ASSUME NEW d \in Dispatchers, Handler(d) PROVE Goal
  <2>1. gen'[c] = gen[c] \/ gen'[c] = gen[c] + 1
    BY <1>2, HandlerSlots
  <2>2. UNCHANGED <<free, reg_gen>>
    BY <1>2, HandlerLeaves
  <2> QED
    BY <1>0, <2>1, <2>2
<1>3. ASSUME Kernel PROVE Goal
  BY <1>0, <1>3, KernelLeaves DEF slot_vars, reg_vars
<1> QED
  BY <1>1, <1>2, <1>3, Steps

LEMMA GenerationStep ==
    ASSUME Inv, Next
    PROVE  GenerationOK'
<1>0. TypeOK /\ GenerationOK /\ elems \in Seq(Entries) /\ elems' \in Seq(Entries)
  BY ElemsStep DEF Inv, TypeOK
<1>1. ASSUME NEW s \in Slots PROVE gen'[s] >= 1 /\ reg_gen'[s] <= gen'[s]
  <2>1. gen[s] >= 1 /\ reg_gen[s] <= gen[s]
    BY <1>0 DEF GenerationOK
  <2> QED
    BY <2>1, GenGrows
<1> DEFINE Old(x) == x.gen <= gen[x.slot] /\ (x.slot \in free => x.gen < gen[x.slot])
           New(x) == x.gen <= gen'[x.slot] /\ (x.slot \in free' => x.gen < gen'[x.slot])
<1>2. ASSUME NEW x, Has(elems, x) PROVE x \in Entries /\ Old(x)
  <2>1. PICK p \in 1..Len(elems) : elems[p] = x
    BY <1>2 DEF Has
  <2> QED
    BY <1>0, <2>1, ElementOfSeq DEF GenerationOK
<1>3. ASSUME NEW x \in Entries, Old(x) PROVE New(x)
  <2>1. x.slot \in Slots /\ x.gen \in Nat
    BY DEF Entries
  <2>2. /\ gen[x.slot] \in Nat /\ gen'[x.slot] \in Nat /\ gen'[x.slot] >= gen[x.slot]
        /\ x.slot \in free' => gen'[x.slot] > gen[x.slot] \/ x.slot \in free
    BY <2>1, GenGrows
  <2> QED
    BY <1>3, <2>1, <2>2
<1>4. ASSUME NEW x, Has(elems', x) PROVE x.gen <= gen'[x.slot] /\ (x.slot \in free' => x.gen < gen'[x.slot])
  <2>1. CASE Has(elems, x)
    BY <1>2, <1>3, <2>1
  <2>2. CASE ~Has(elems, x)
    <3>1. PICK s \in Slots : SyncRegister(s)
      <4>1. CASE \E d \in Dispatchers : TakeExpired(d)
        BY <1>4, <2>2, <4>1, TakeElems
      <4>2. CASE ~(\E s \in Slots : SyncRegister(s)) /\ ~(\E d \in Dispatchers : TakeExpired(d))
        BY <1>4, <2>2, <4>2, OthersLeaveElems
      <4> QED
        BY <4>1, <4>2
    <3>2. x = Registration(s) /\ Registration(s) \in Entries
      BY <1>4, <2>2, <3>1, RegisterElems
    <3>3. qpc[s] = "register" /\ refs[s] > 0
      BY <3>1, HolderCounts DEF SyncRegister, Inv
    <3>4. s \notin free
      BY <3>3 DEF Inv, QueueOK
    <3>5. x.slot = s /\ x.gen = reg_gen[s]
      BY <3>2 DEF Registration
    <3>6. Old(x)
      BY <1>0, <3>4, <3>5 DEF GenerationOK
    <3> QED
      BY <1>3, <3>2, <3>6
  <2> QED
    BY <2>1, <2>2
<1>5. \A p \in 1..Len(elems') : Has(elems', elems'[p])
  BY DEF Has
<1> QED
  BY <1>1, <1>4, <1>5 DEF GenerationOK

-----------------------------------------------------------------------------
(* References. A handler holds a queue at a place of its own: the place 0  *)
(* for the entry in hand and those of its batch.                           *)
HoldsAt(d, i, s) == IF i = 0 THEN dpc[d] \in {"check", "release", "retire"} /\ elem[d].slot = s
                    ELSE i \in (woke[d] + 1)..Len(batch[d]) /\ batch[d][i] = s

LEMMA TicksAre ==
    /\ \A s : Ticks(s) = {t \in Dispatchers \X (0..Batch) : HoldsAt(t[1], t[2], s)}
    /\ \A s : Ticks(s)' = {t \in Dispatchers \X (0..Batch) : HoldsAt(t[1], t[2], s)'}
  BY DEF Ticks, HoldsAt

(* The holds a step leaves alone.                                          *)
LEMMA TicksSame ==
    ASSUME NEW s, \A d \in Dispatchers : \A i \in 0..Batch : HoldsAt(d, i, s)' <=> HoldsAt(d, i, s)
    PROVE  Ticks(s)' = Ticks(s)
<1>1. \A t \in Dispatchers \X (0..Batch) : HoldsAt(t[1], t[2], s)' <=> HoldsAt(t[1], t[2], s)
  OBVIOUS
<1> HIDE DEF HoldsAt
<1> QED
  BY <1>1, TicksAre, Zenon

(* One more hold and one less.                                             *)
LEMMA TicksMore ==
    ASSUME NEW s, NEW d \in Dispatchers, NEW i \in 0..Batch, IsFiniteSet(Ticks(s)),
           ~HoldsAt(d, i, s), HoldsAt(d, i, s)',
           \A c \in Dispatchers : \A j \in 0..Batch :
              <<c, j>> # <<d, i>> => (HoldsAt(c, j, s)' <=> HoldsAt(c, j, s))
    PROVE  /\ IsFiniteSet(Ticks(s)')
           /\ Cardinality(Ticks(s)') = Cardinality(Ticks(s)) + 1
<1>1. <<d, i>> \notin Ticks(s)
  BY TicksAre
<1>2. Ticks(s)' = Ticks(s) \cup {<<d, i>>}
  <2>1. \A t \in Dispatchers \X (0..Batch) : t = <<t[1], t[2]>> /\ t[1] \in Dispatchers /\ t[2] \in 0..Batch
    OBVIOUS
  <2>2. \A t \in Dispatchers \X (0..Batch) :
          HoldsAt(t[1], t[2], s)' <=> HoldsAt(t[1], t[2], s) \/ t = <<d, i>>
    BY <2>1
  <2>3. <<d, i>> \in Dispatchers \X (0..Batch)
    OBVIOUS
  <2> QED
    BY <2>2, <2>3, TicksAre
<1> QED
  BY <1>1, <1>2, FS_AddElement

LEMMA TicksLess ==
    ASSUME NEW s, NEW d \in Dispatchers, NEW i \in 0..Batch, IsFiniteSet(Ticks(s)),
           HoldsAt(d, i, s), ~HoldsAt(d, i, s)',
           \A c \in Dispatchers : \A j \in 0..Batch :
              <<c, j>> # <<d, i>> => (HoldsAt(c, j, s)' <=> HoldsAt(c, j, s))
    PROVE  /\ IsFiniteSet(Ticks(s)')
           /\ Cardinality(Ticks(s)') = Cardinality(Ticks(s)) - 1
<1>1. <<d, i>> \in Ticks(s)
  BY TicksAre
<1>2. Ticks(s)' = Ticks(s) \ {<<d, i>>}
  <2>1. \A t \in Dispatchers \X (0..Batch) : t = <<t[1], t[2]>> /\ t[1] \in Dispatchers /\ t[2] \in 0..Batch
    OBVIOUS
  <2>2. \A t \in Dispatchers \X (0..Batch) :
          HoldsAt(t[1], t[2], s)' <=> HoldsAt(t[1], t[2], s) /\ t # <<d, i>>
    BY <2>1
  <2> QED
    BY <2>2, TicksAre
<1> QED
  BY <1>1, <1>2, FS_RemoveElement

LEMMA OtherHandlersSame ==
    ASSUME Inv, NEW d \in Dispatchers, Handler(d), NEW c \in Dispatchers, c # d
    PROVE  /\ dpc'[c] = dpc[c] /\ elem'[c] = elem[c] /\ batch'[c] = batch[c] /\ woke'[c] = woke[c]
           /\ \A i, s : HoldsAt(c, i, s)' <=> HoldsAt(c, i, s)
<1>0. HandlerTypes
  BY TypeParts DEF Inv
<1>1. dpc'[c] = dpc[c] /\ elem'[c] = elem[c] /\ batch'[c] = batch[c] /\ woke'[c] = woke[c]
  BY <1>0 DEF Handler, ReadTimerfd, ReadClock, Lock, TakeExpired, AcquireIfLive,
       CheckGeneration, ReleaseStale, RetireEntry, ArmAndUnlock, WakeQueue, ReleaseBatched,
       HandlerTypes, GoD
<1> QED
  BY <1>1 DEF HoldsAt

(* The queues and their references.                                        *)
LEMMA QueueHolders ==
    ASSUME Inv, NEW s \in Slots, QueueStep(s), NEW c \in Slots
    PROVE  IsFiniteSet(Ticks(c)') /\ refs'[c] = HeldBy(c)'
<1>0. SlotTypes /\ RegTypes /\ QueueTypes /\ ContextTypes /\ QueueOK
  BY TypeParts DEF Inv
<1>1. IsFiniteSet(Ticks(c)) /\ refs[c] = HeldBy(c)
  BY HoldersCounted DEF HoldersOK, Inv
<1>2. Ticks(c)' = Ticks(c)
  BY QueueStepLeaves DEF Ticks
<1> DEFINE k == Cardinality(Ticks(c))
<1>3. k \in Nat
  BY <1>1, FS_CardinalityType
<1>4. refs[c] = tasks[c] + k + One(c \in app) + One(c \in self_ref) + One(InAppTask(c))
  BY <1>1 DEF HeldBy
<1>5. HeldBy(c)' = tasks'[c] + k + One(c \in app') + One(c \in self_ref') + One(InAppTask(c)')
  BY <1>2 DEF HeldBy
<1> HIDE DEF k
<1>6. /\ refs[c] \in Nat
      /\ s \in app => refs[s] > 0
      /\ s \in self_ref => refs[s] > 0
      /\ tasks[s] > 0 => refs[s] > 0
      /\ qpc[s] # "idle" => refs[s] > 0
  BY HolderCounts DEF Inv
<1> DEFINE Goal == refs'[c] = tasks'[c] + k + One(c \in app') + One(c \in self_ref') + One(InAppTask(c)')
<1>7. CASE c # s
  <2>1. Same(c)
    BY <1>7, OtherQueuesSame
  <2>2. Goal
    BY <1>4, <2>1 DEF Same, InAppTask, Syncing, One
  <2> QED
    BY <1>1, <1>2, <1>5, <2>2
<1>8. CASE c = s
  <2> USE DEF SlotTypes, RegTypes, QueueTypes, ContextTypes, GoQ, InAppTask, Syncing, One
  <2>1. ASSUME CreateQueue(s) PROVE Goal
    <3>1. refs[s] = 0 /\ s \notin app /\ s \notin self_ref /\ qpc[s] = "idle" /\ tasks[s] \in Nat
      BY <1>0, <1>6, <2>1 DEF CreateQueue, QueueOK
    <3>2. tasks[s] = 0 /\ k = 0
      BY <1>3, <1>4, <1>8, <3>1
    <3> QED
      BY <1>0, <1>8, <2>1, <3>1, <3>2 DEF CreateQueue
  <2>2. ASSUME ReleaseQueue(s) \/ BeginAppTask(s) PROVE Goal
    BY <1>0, <1>3, <1>4, <1>8, <2>2 DEF ReleaseQueue, BeginAppTask, reg_vars
  <2>3. ASSUME EndAppTask(s) \/ TimerReturns(s) PROVE Goal
    BY <1>0, <1>3, <1>4, <1>8, <2>3 DEF EndAppTask, TimerReturns, reg_vars, slot_vars
  <2>4. ASSUME NEW t \in Deadlines, WakeupAt(s, t) \/ CancelTimer(s, t) PROVE Goal
    BY <1>0, <1>3, <1>4, <1>8, <2>4 DEF WakeupAt, CancelTimer, reg_vars, slot_vars
  <2>5. ASSUME BeginTimersTask(s) \/ PassOver(s) \/ Fire(s) PROVE Goal
    BY <1>0, <1>3, <1>4, <1>8, <2>5 DEF BeginTimersTask, PassOver, EndPass, Fire, reg_vars, slot_vars
  <2>6. ASSUME SyncRead(s) \/ SyncKeep(s) PROVE Goal
    BY <1>0, <1>3, <1>4, <1>8, <2>6 DEF SyncRead, SyncKeep, Synced, KeptAlive, slot_vars, reg_vars
  <2>7. ASSUME SyncDrop(s) \/ SyncLetGo(s) PROVE Goal
    BY <1>0, <1>3, <1>4, <1>8, <2>7 DEF SyncDrop, SyncLetGo, Synced
  <2>8. ASSUME SyncRetire(s) \/ SyncRegister(s) PROVE Goal
    BY <1>0, <1>3, <1>4, <1>8, <2>8 DEF SyncRetire, SyncRegister, Synced, slot_vars
  <2>9. ASSUME EndTimersTask(s) \/ GiveQueue(s) PROVE Goal
    BY <1>0, <1>3, <1>4, <1>8, <2>9 DEF EndTimersTask, GiveQueue, reg_vars, queue_vars
  <2>10. Goal
    BY <2>1, <2>2, <2>3, <2>4, <2>5, <2>6, <2>7, <2>8, <2>9
       DEF QueueStep, Lifetime, Application, Context
  <2> QED
    BY <1>1, <1>2, <1>5, <2>10
<1> QED
  BY <1>7, <1>8

(* The handlers and their references: the difference a step makes to the   *)
(* holds of a queue is the one it makes to its references and tasks.       *)
LEMMA TicksStep ==
    ASSUME Inv, NEW d \in Dispatchers, Handler(d), NEW c \in Slots
    PROVE  /\ IsFiniteSet(Ticks(c)')
           /\ refs'[c] - tasks'[c] - Cardinality(Ticks(c)') = refs[c] - tasks[c] - Cardinality(Ticks(c))
<1>0. /\ HandlerTypes /\ SlotTypes /\ QueueTypes /\ BatchOK /\ Batch \in Nat
      /\ Len(batch[d]) \in Nat /\ batch[d] \in Seq(Slots)
  BY TypeParts, ServiceBounds DEF Inv, HandlerTypes
<1>1. IsFiniteSet(Ticks(c)) /\ Cardinality(Ticks(c)) \in Nat
  BY FS_CardinalityType DEF Inv, HoldersOK
<1>2. \A e \in Dispatchers : e # d => \A i \in 0..Batch : HoldsAt(e, i, c)' <=> HoldsAt(e, i, c)
  BY OtherHandlersSame
<1>3. refs[c] \in Nat /\ tasks[c] \in Nat
  BY <1>0 DEF SlotTypes, QueueTypes
<1> DEFINE Kept == \A i \in 0..Batch : HoldsAt(d, i, c)' <=> HoldsAt(d, i, c)
           Goal == /\ IsFiniteSet(Ticks(c)')
                   /\ refs'[c] - tasks'[c] - Cardinality(Ticks(c)') = refs[c] - tasks[c] - Cardinality(Ticks(c))
<1>4. ASSUME Kept, \/ refs'[c] = refs[c] /\ tasks'[c] = tasks[c]
                   \/ refs'[c] = refs[c] + 1 /\ tasks'[c] = tasks[c] + 1
      PROVE  Goal
  <2>1. Ticks(c)' = Ticks(c)
    <3> HIDE DEF HoldsAt
    <3> QED
      BY <1>2, <1>4, TicksSame
  <2> QED
    BY <1>1, <1>3, <1>4, <2>1
<1> USE DEF HandlerTypes, GoD
<1>5. CASE ReadTimerfd(d) \/ ReadClock(d) \/ Lock(d) \/ CheckGeneration(d)
  <2>1. refs' = refs /\ tasks' = tasks /\ UNCHANGED <<elem, batch, woke>>
    BY <1>5 DEF ReadTimerfd, ReadClock, Lock, CheckGeneration, slot_vars, queue_vars
  <2>2. dpc'[d] \in {"check", "release", "retire"} <=> dpc[d] \in {"check", "release", "retire"}
    BY <1>0, <1>5 DEF ReadTimerfd, ReadClock, Lock, CheckGeneration
  <2>3. Kept
    BY <2>1, <2>2 DEF HoldsAt
  <2> QED
    BY <1>4, <2>1, <2>3
<1>6. CASE TakeExpired(d)
  <2>1. refs' = refs /\ tasks' = tasks /\ UNCHANGED <<batch, woke>> /\ dpc[d] = "take"
    BY <1>6 DEF TakeExpired, slot_vars, queue_vars
  <2>2. dpc'[d] \in {"acquire", "arm"}
    BY <1>0, <1>6, TakeElems
  <2>3. Kept
    BY <2>1, <2>2 DEF HoldsAt
  <2> QED
    BY <1>4, <2>1, <2>3
<1>7. CASE ArmAndUnlock(d)
  <2>1. refs' = refs /\ tasks' = tasks /\ UNCHANGED <<batch, woke>> /\ dpc[d] = "arm"
        /\ dpc'[d] \in {"idle", "wake"}
    BY <1>0, <1>7 DEF ArmAndUnlock, slot_vars, queue_vars
  <2>2. Kept
    BY <2>1 DEF HoldsAt
  <2> QED
    BY <1>4, <2>1, <2>2
<1>8. CASE WakeQueue(d)
  <2> DEFINE s == batch[d][woke[d] + 1]
  <2>1. /\ s \in Slots /\ UNCHANGED <<elem, batch, woke>> /\ dpc[d] = "wake" /\ dpc'[d] = "unref"
        /\ tasks' = [tasks EXCEPT ![s] = @ + 1]
        /\ refs' = [refs EXCEPT ![s] = @ + 1]
    BY <1>0, <1>8, HandlerHolds DEF WakeQueue, Inv
  <2>2. Kept
    BY <2>1 DEF HoldsAt
  <2> HIDE DEF s, Kept
  <2>3. \/ refs'[c] = refs[c] /\ tasks'[c] = tasks[c]
        \/ refs'[c] = refs[c] + 1 /\ tasks'[c] = tasks[c] + 1
    BY <1>0, <2>1 DEF SlotTypes, QueueTypes
  <2> QED
    BY <1>4, <2>2, <2>3
<1>9. CASE AcquireIfLive(d)
  <2> DEFINE s == elem[d].slot
  <2>1. s \in Slots /\ tasks' = tasks /\ UNCHANGED <<elem, batch, woke>> /\ dpc[d] = "acquire"
    BY <1>9, HandlerHolds DEF AcquireIfLive, Inv, queue_vars
  <2>2. CASE refs[s] = 0 \/ c # s
    <3>1. refs'[c] = refs[c] /\ (dpc'[d] = "take" \/ c # s)
      BY <1>0, <1>9, <2>1, <2>2 DEF AcquireIfLive, Acquirable, SlotTypes
    <3>2. Kept
      BY <2>1, <3>1 DEF HoldsAt
    <3> QED
      BY <1>4, <2>1, <3>1, <3>2
  <2>3. CASE refs[s] # 0 /\ c = s
    <3>1. refs'[c] = refs[c] + 1 /\ dpc'[d] = "check"
      BY <1>0, <1>9, <2>1, <2>3 DEF AcquireIfLive, Acquirable, SlotTypes
    <3>2. 0 \in 0..Batch /\ ~HoldsAt(d, 0, c) /\ HoldsAt(d, 0, c)'
      BY <1>0, <2>1, <2>3, <3>1 DEF HoldsAt
    <3>3. \A i \in 0..Batch : i # 0 => (HoldsAt(d, i, c)' <=> HoldsAt(d, i, c))
      BY <2>1 DEF HoldsAt
    <3>4. \A e \in Dispatchers : \A j \in 0..Batch :
            <<e, j>> # <<d, 0>> => (HoldsAt(e, j, c)' <=> HoldsAt(e, j, c))
      BY <1>2, <3>3
    <3>5. IsFiniteSet(Ticks(c)') /\ Cardinality(Ticks(c)') = Cardinality(Ticks(c)) + 1
      BY <1>1, <3>2, <3>4, TicksMore
    <3> QED
      BY <1>1, <1>3, <2>1, <3>1, <3>5
  <2> QED
    BY <2>2, <2>3
<1>10. CASE ReleaseStale(d)
  <2> DEFINE s == elem[d].slot
  <2>1. /\ s \in Slots /\ tasks' = tasks /\ UNCHANGED <<elem, batch, woke>> /\ dpc[d] = "release"
        /\ dpc'[d] = "take" /\ refs' = [refs EXCEPT ![s] = @ - 1]
    BY <1>0, <1>10, HandlerHolds DEF ReleaseStale, Inv, queue_vars
  <2>2. CASE c # s
    <3>1. refs'[c] = refs[c]
      BY <1>0, <2>1, <2>2 DEF SlotTypes
    <3>2. Kept
      BY <2>1, <2>2 DEF HoldsAt
    <3> QED
      BY <1>4, <2>1, <3>1, <3>2
  <2>3. CASE c = s
    <3>1. refs'[c] = refs[c] - 1
      BY <1>0, <2>1, <2>3 DEF SlotTypes
    <3>2. 0 \in 0..Batch /\ HoldsAt(d, 0, c) /\ ~HoldsAt(d, 0, c)'
      BY <1>0, <2>1, <2>3 DEF HoldsAt
    <3>3. \A i \in 0..Batch : i # 0 => (HoldsAt(d, i, c)' <=> HoldsAt(d, i, c))
      BY <2>1 DEF HoldsAt
    <3>4. \A e \in Dispatchers : \A j \in 0..Batch :
            <<e, j>> # <<d, 0>> => (HoldsAt(e, j, c)' <=> HoldsAt(e, j, c))
      BY <1>2, <3>3
    <3>5. IsFiniteSet(Ticks(c)') /\ Cardinality(Ticks(c)') = Cardinality(Ticks(c)) - 1
      BY <1>1, <3>2, <3>4, TicksLess
    <3> QED
      BY <1>1, <1>3, <2>1, <3>1, <3>5
  <2> QED
    BY <2>2, <2>3
<1>11. CASE RetireEntry(d)
  <2> DEFINE s == elem[d].slot
  <2>0. PICK n \in Nat : n = Len(batch[d]) + 1
    BY <1>0
  <2>1. /\ s \in Slots /\ tasks' = tasks /\ refs' = refs /\ UNCHANGED <<elem, woke>>
        /\ dpc[d] = "retire" /\ dpc'[d] = "take" /\ batch'[d] = Append(batch[d], s)
    BY <1>0, <1>11, HandlerHolds DEF RetireEntry, Inv, queue_vars
  <2>2. woke[d] = 0 /\ n \in 1..Batch
    <3>1. woke[d] = 0 /\ Len(batch[d]) < Batch
      BY <1>0, <2>1 DEF BatchOK
    <3> QED
      BY <1>0, <2>0, <3>1
  <2>3. /\ Len(batch'[d]) = n /\ batch'[d][n] = s
        /\ \A i \in 1..Len(batch[d]) : batch'[d][i] = batch[d][i]
    BY <1>0, <2>0, <2>1, AppendProperties
  <2>4. \A i \in 0..Batch : i # 0 /\ i # n => (HoldsAt(d, i, c)' <=> HoldsAt(d, i, c))
    <3>1. SUFFICES ASSUME NEW i \in 0..Batch, i # 0, i # n PROVE HoldsAt(d, i, c)' <=> HoldsAt(d, i, c)
      OBVIOUS
    <3>2. i \in (woke[d] + 1)..n <=> i \in (woke[d] + 1)..Len(batch[d])
      BY <1>0, <2>0, <2>2, <3>1
    <3>3. i \in (woke[d] + 1)..Len(batch[d]) => i \in 1..Len(batch[d])
      BY <1>0, <2>2
    <3>4. HoldsAt(d, i, c) <=> i \in (woke[d] + 1)..Len(batch[d]) /\ batch[d][i] = c
      BY <3>1 DEF HoldsAt
    <3>5. HoldsAt(d, i, c)' <=> i \in (woke[d] + 1)..n /\ batch'[d][i] = c
      BY <2>1, <2>3, <3>1 DEF HoldsAt
    <3> QED
      BY <2>3, <3>2, <3>3, <3>4, <3>5
  <2>5. ~HoldsAt(d, n, c) /\ (HoldsAt(d, n, c)' <=> c = s)
    <3>1. n # 0 /\ n \notin (woke[d] + 1)..Len(batch[d]) /\ n \in (woke[d] + 1)..n
      BY <1>0, <2>0, <2>2
    <3>2. HoldsAt(d, n, c) <=> n \in (woke[d] + 1)..Len(batch[d]) /\ batch[d][n] = c
      BY <3>1 DEF HoldsAt
    <3>3. HoldsAt(d, n, c)' <=> n \in (woke[d] + 1)..n /\ batch'[d][n] = c
      BY <2>1, <2>3, <3>1 DEF HoldsAt
    <3> QED
      BY <2>3, <3>1, <3>2, <3>3
  <2>6. ~HoldsAt(d, 0, c)' /\ (HoldsAt(d, 0, c) <=> c = s)
    BY <2>1 DEF HoldsAt
  <2> HIDE DEF s
  <2>7. CASE c # s
    <3>1. Kept
      BY <2>4, <2>5, <2>6, <2>7
    <3> QED
      BY <1>4, <2>1, <3>1
  <2>8. CASE c = s
    <3>1. <<d, 0>> \in Ticks(c) /\ <<d, n>> \notin Ticks(c) /\ n # 0
      BY <1>0, <2>2, <2>5, <2>6, <2>8, TicksAre
    <3>2. Ticks(c)' = (Ticks(c) \ {<<d, 0>>}) \cup {<<d, n>>}
      <4>1. \A t \in Dispatchers \X (0..Batch) :
              HoldsAt(t[1], t[2], c)' <=> (HoldsAt(t[1], t[2], c) /\ t # <<d, 0>>) \/ t = <<d, n>>
        <5>1. SUFFICES ASSUME NEW e \in Dispatchers, NEW i \in 0..Batch
                       PROVE  HoldsAt(e, i, c)' <=> (HoldsAt(e, i, c) /\ <<e, i>> # <<d, 0>>) \/ <<e, i>> = <<d, n>>
          OBVIOUS
        <5>2. CASE e # d
          BY <1>2, <5>2
        <5>3. CASE e = d
          BY <2>4, <2>5, <2>6, <2>8, <5>3
        <5> QED
          BY <5>2, <5>3
      <4>2. <<d, n>> \in Dispatchers \X (0..Batch)
        BY <1>0, <2>2
      <4> QED
        BY <4>1, <4>2, TicksAre
    <3>3. IsFiniteSet(Ticks(c) \ {<<d, 0>>}) /\ Cardinality(Ticks(c) \ {<<d, 0>>}) = Cardinality(Ticks(c)) - 1
      BY <1>1, <3>1, FS_RemoveElement
    <3> DEFINE K == Ticks(c) \ {<<d, 0>>}
    <3>4. <<d, n>> \notin K
      BY <3>1
    <3> HIDE DEF K
    <3>5. IsFiniteSet(K \cup {<<d, n>>}) /\ Cardinality(K \cup {<<d, n>>}) = Cardinality(K) + 1
      BY <3>3, <3>4, FS_AddElement DEF K
    <3>6. Ticks(c)' = K \cup {<<d, n>>} /\ Cardinality(K) = Cardinality(Ticks(c)) - 1
      BY <3>2, <3>3 DEF K
    <3> QED
      BY <1>1, <1>3, <2>1, <3>5, <3>6
  <2> QED
    BY <2>7, <2>8
<1>12. CASE ReleaseBatched(d)
  <2>0. PICK w : w = woke[d] + 1
    OBVIOUS
  <2> DEFINE s == batch[d][w]
  <2>1. /\ s \in Slots /\ w \in 1..Len(batch[d]) /\ w \in 1..Batch /\ dpc[d] = "unref"
        /\ woke[d] \in Nat
    BY <1>12, <2>0, HandlerHolds DEF ReleaseBatched, Inv
  <2>2. /\ tasks' = tasks /\ refs' = [refs EXCEPT ![s] = @ - 1] /\ elem' = elem
    BY <1>12, <2>0 DEF ReleaseBatched, queue_vars
  <2>3. dpc'[d] \in {"wake", "clock", "idle"}
    BY <1>0, <1>12 DEF ReleaseBatched
  <2>4. \/ w < Len(batch[d]) /\ woke'[d] = w /\ batch'[d] = batch[d]
        \/ w = Len(batch[d]) /\ woke'[d] = 0 /\ batch'[d] = <<>>
    BY <1>0, <1>12, <2>0, <2>1 DEF ReleaseBatched
  <2> HIDE DEF s
  <2>5. \A i \in 0..Batch : i # w => (HoldsAt(d, i, c)' <=> HoldsAt(d, i, c))
    <3>1. HoldsAt(d, 0, c)' <=> HoldsAt(d, 0, c)
      BY <2>1, <2>3 DEF HoldsAt
    <3>2. ASSUME NEW i \in 0..Batch, i # w, i # 0 PROVE HoldsAt(d, i, c)' <=> HoldsAt(d, i, c)
      <4>1. HoldsAt(d, i, c) <=> i \in w..Len(batch[d]) /\ batch[d][i] = c
        BY <2>0, <3>2 DEF HoldsAt
      <4>2. HoldsAt(d, i, c)' <=> i \in (woke'[d] + 1)..Len(batch'[d]) /\ batch'[d][i] = c
        BY <3>2 DEF HoldsAt
      <4>3. CASE w < Len(batch[d]) /\ woke'[d] = w /\ batch'[d] = batch[d]
        <5>1. i \in (w + 1)..Len(batch[d]) <=> i \in w..Len(batch[d])
          BY <1>0, <2>1, <3>2
        <5> QED
          BY <4>1, <4>2, <4>3, <5>1
      <4>4. CASE w = Len(batch[d]) /\ woke'[d] = 0 /\ batch'[d] = <<>>
        <5>1. i \notin w..Len(batch[d])
          BY <1>0, <2>1, <3>2, <4>4
        <5>2. i \notin (woke'[d] + 1)..Len(batch'[d])
          BY <4>4
        <5> QED
          BY <4>1, <4>2, <5>1, <5>2
      <4> QED
        BY <2>4, <4>3, <4>4
    <3> QED
      BY <3>1, <3>2
  <2>6. (HoldsAt(d, w, c) <=> c = s) /\ ~HoldsAt(d, w, c)' /\ w \in 0..Batch
    <3>1. w # 0 /\ w \in w..Len(batch[d]) /\ w \notin (woke'[d] + 1)..Len(batch'[d]) /\ w \in 0..Batch
      BY <1>0, <2>1, <2>4
    <3> QED
      BY <2>0, <3>1 DEF HoldsAt, s
  <2>7. CASE c # s
    <3>1. refs'[c] = refs[c]
      BY <1>0, <2>1, <2>2, <2>7 DEF SlotTypes
    <3>2. Kept
      BY <2>5, <2>6, <2>7
    <3> QED
      BY <1>4, <2>2, <3>1, <3>2
  <2>8. CASE c = s
    <3>1. refs'[c] = refs[c] - 1
      BY <1>0, <2>1, <2>2, <2>8 DEF SlotTypes
    <3>2. \A e \in Dispatchers : \A j \in 0..Batch :
            <<e, j>> # <<d, w>> => (HoldsAt(e, j, c)' <=> HoldsAt(e, j, c))
      BY <1>2, <2>5
    <3>3. IsFiniteSet(Ticks(c)') /\ Cardinality(Ticks(c)') = Cardinality(Ticks(c)) - 1
      BY <1>1, <2>6, <2>8, <3>2, TicksLess
    <3> QED
      BY <1>1, <1>3, <2>2, <3>1, <3>3
  <2> QED
    BY <2>7, <2>8
<1> QED
  BY <1>5, <1>6, <1>7, <1>8, <1>9, <1>10, <1>11, <1>12 DEF Handler

LEMMA HoldersStep ==
    ASSUME Inv, Next
    PROVE  HoldersOK'
<1> DEFINE Goal(c) == IsFiniteSet(Ticks(c)') /\ refs'[c] = HeldBy(c)'
<1>1. ASSUME NEW s \in Slots, QueueStep(s), NEW c \in Slots PROVE Goal(c)
  BY <1>1, QueueHolders
<1>2. ASSUME NEW c \in Slots PROVE IsFiniteSet(Ticks(c)) /\ refs[c] = HeldBy(c)
  BY HoldersCounted DEF HoldersOK, Inv
<1>3. ASSUME NEW d \in Dispatchers, Handler(d), NEW c \in Slots PROVE Goal(c)
  <2>1. /\ IsFiniteSet(Ticks(c)')
        /\ refs'[c] - tasks'[c] - Cardinality(Ticks(c)') = refs[c] - tasks[c] - Cardinality(Ticks(c))
    BY <1>3, TicksStep
  <2>2. UNCHANGED <<app, self_ref, qpc, qret>>
    BY <1>3, HandlerLeaves
  <2>3. HeldBy(c) = tasks[c] + Cardinality(Ticks(c)) + One(c \in app) + One(c \in self_ref) + One(InAppTask(c))
    BY DEF HeldBy
  <2>4. HeldBy(c)' = tasks'[c] + Cardinality(Ticks(c)') + One(c \in app) + One(c \in self_ref) + One(InAppTask(c))
    BY <2>2 DEF HeldBy, InAppTask, Syncing
  <2>5. /\ One(c \in app) \in Nat /\ One(c \in self_ref) \in Nat /\ One(InAppTask(c)) \in Nat
    BY DEF One
  <2>6. /\ refs[c] \in Nat /\ refs'[c] \in Nat /\ tasks[c] \in Nat /\ tasks'[c] \in Nat
    BY SlotStep, QueueTypesStep, TypeParts DEF Inv, SlotTypes, QueueTypes
  <2>7. Cardinality(Ticks(c)) \in Nat /\ Cardinality(Ticks(c)') \in Nat
    BY <1>2, <2>1, FS_CardinalityType
  <2>8. PICK k \in Nat, m \in Nat, o \in Nat :
           /\ k = Cardinality(Ticks(c)) /\ m = Cardinality(Ticks(c)')
           /\ HeldBy(c) = tasks[c] + k + o /\ HeldBy(c)' = tasks'[c] + m + o
    <3> DEFINE o == One(c \in app) + One(c \in self_ref) + One(InAppTask(c))
    <3>1. o \in Nat
      BY <2>5
    <3>2. HeldBy(c) = tasks[c] + Cardinality(Ticks(c)) + o /\ HeldBy(c)' = tasks'[c] + Cardinality(Ticks(c)') + o
      BY <2>3, <2>4, <2>5, <2>6, <2>7
    <3> HIDE DEF o
    <3> QED
      BY <2>7, <3>1, <3>2
  <2>9. refs'[c] - tasks'[c] - m = refs[c] - tasks[c] - k /\ refs[c] = tasks[c] + k + o
    BY <1>2, <2>1, <2>8
  <2>10. refs'[c] = tasks'[c] + m + o
    BY <2>6, <2>8, <2>9
  <2> QED
    BY <2>1, <2>8, <2>10
<1>4. ASSUME Kernel, NEW c \in Slots PROVE Goal(c)
  <2>1. UNCHANGED <<refs, tasks, app, self_ref, qpc, qret, elem, batch, woke>>
    BY <1>4, KernelLeaves DEF slot_vars, reg_vars, queue_vars
  <2>2. HandlerTypes
    BY TypeParts DEF Inv
  <2>3. \A d \in Dispatchers : dpc'[d] \in {"check", "release", "retire"}
                                  <=> dpc[d] \in {"check", "release", "retire"}
    BY <1>4, <2>2 DEF Kernel, ClockTicks, TimerfdExpires, EpollReports, disp_vars, HandlerTypes, GoD
  <2>4. \A d \in Dispatchers : \A i \in 0..Batch : HoldsAt(d, i, c)' <=> HoldsAt(d, i, c)
    BY <2>1, <2>3 DEF HoldsAt
  <2>5. Ticks(c)' = Ticks(c)
    BY <2>4, TicksSame
  <2>6. HeldBy(c)' = HeldBy(c)
    BY <2>1, <2>5 DEF HeldBy, InAppTask, Syncing
  <2> QED
    BY <1>2, <2>1, <2>5, <2>6
<1>5. \A c \in Slots : Goal(c)
  BY <1>1, <1>3, <1>4, Steps
<1> QED
  BY <1>5, HoldersCountedNext DEF HoldersOK

-----------------------------------------------------------------------------
(* Registrations. One that stands is live: no step but the three that mean *)
(* it takes it away.                                                       *)
Stands(s) == refs[s] # 0 /\ gen[s] = reg_gen[s] /\ qpc[s] # "register"
Placed(s) == InHand(s) \/ Has(elems, Registration(s))

(* A registration that stands was there before, except the one that        *)
(* SyncRegister puts into the heap.                                        *)
LEMMA QueueStands ==
    ASSUME Inv, NEW s \in Slots, QueueStep(s), NEW c \in Slots, Stands(c)'
    PROVE  /\ gen'[c] = gen[c] /\ reg_gen'[c] = reg_gen[c] /\ reg_deadline'[c] = reg_deadline[c]
           /\ Stands(c) \/ (SyncRegister(s) /\ c = s)
<1>0. SlotTypes /\ RegTypes /\ QueueTypes /\ ContextTypes
  BY TypeParts DEF Inv
<1>1. /\ refs[s] \in Nat
      /\ s \in app => refs[s] > 0
      /\ qpc[s] # "idle" => refs[s] > 0
      /\ gen[s] >= 1 /\ reg_gen[s] <= gen[s]
  BY HolderCounts DEF Inv, GenerationOK
<1> DEFINE Goal == /\ gen'[c] = gen[c] /\ reg_gen'[c] = reg_gen[c] /\ reg_deadline'[c] = reg_deadline[c]
                   /\ Stands(c) \/ (SyncRegister(s) /\ c = s)
<1>2. CASE c # s
  <2>1. Same(c)
    BY <1>2, OtherQueuesSame
  <2> QED
    BY <2>1 DEF Same, Stands
<1>3. CASE c = s
  <2> USE DEF SlotTypes, RegTypes, QueueTypes, ContextTypes, GoQ, Stands
  <2>1. CASE Lifetime(s)
    BY <1>0, <1>1, <1>3, <2>1 DEF Lifetime, CreateQueue, ReleaseQueue, BeginAppTask, reg_vars
  <2>2. CASE Application(s)
    BY <1>0, <1>1, <1>3, <2>2 DEF Application, EndAppTask, TimerReturns, WakeupAt, CancelTimer, reg_vars, slot_vars
  <2>3. CASE BeginTimersTask(s) \/ Fire(s) \/ PassOver(s) \/ EndTimersTask(s) \/ GiveQueue(s)
    BY <1>0, <1>1, <1>3, <2>3 DEF BeginTimersTask, Fire, PassOver, EndPass, EndTimersTask, GiveQueue, reg_vars, slot_vars
  <2>4. CASE SyncRead(s) \/ SyncKeep(s)
    BY <1>0, <1>1, <1>3, <2>4 DEF SyncRead, SyncKeep, slot_vars, reg_vars
  <2>5. CASE SyncDrop(s) \/ SyncLetGo(s)
    BY <1>0, <1>1, <1>3, <2>5 DEF SyncDrop, SyncLetGo
  <2>6. CASE SyncRetire(s)
    BY <1>0, <1>1, <1>3, <2>6 DEF SyncRetire
  <2>7. CASE SyncRegister(s)
    BY <1>0, <1>1, <1>3, <2>7 DEF SyncRegister, slot_vars
  <2> QED
    BY <2>1, <2>2, <2>3, <2>4, <2>5, <2>6, <2>7 DEF QueueStep, Context
<1> QED
  BY <1>2, <1>3

LEMMA RegistrationStep ==
    ASSUME Inv, Next
    PROVE  RegistrationOK'
<1>0. \A c \in Slots : Stands(c) => Placed(c)
  BY DEF Inv, RegistrationOK, Stands, Placed, Has
<1>t. HandlerTypes /\ SlotTypes /\ TypeOK
  BY TypeParts DEF Inv
<1>l. \A c \in Slots : Stands(c) => Live(Registration(c))
  BY DEF Stands, Live, Registration
<1>1. ASSUME NEW s \in Slots, QueueStep(s), NEW c \in Slots, Stands(c)' PROVE Placed(c)'
  <2>1. /\ gen'[c] = gen[c] /\ reg_gen'[c] = reg_gen[c] /\ reg_deadline'[c] = reg_deadline[c]
        /\ Stands(c) \/ (SyncRegister(s) /\ c = s)
    BY <1>1, QueueStands
  <2>2. Registration(c)' = Registration(c) /\ gen[c] = reg_gen[c]
    BY <1>1, <2>1 DEF Registration, Stands
  <2>3. InHand(c)' <=> InHand(c)
    BY <1>1, <2>2, QueueStepLeaves DEF InHand
  <2>4. Live(Registration(c))
    BY <2>2 DEF Live, Registration
  <2>5. Has(elems, Registration(c)) \/ (SyncRegister(s) /\ c = s) => Has(elems', Registration(c))
    <3>1. CASE SyncRegister(s)
      BY <2>4, <3>1, RegisterElems
    <3>2. CASE ~SyncRegister(s)
      <4>1. UNCHANGED heap_vars
        BY <1>1, <3>2 DEF QueueStep, Lifetime, Application, Context, CreateQueue, ReleaseQueue, BeginAppTask,
             EndAppTask, TimerReturns, WakeupAt, CancelTimer, BeginTimersTask, Fire, PassOver,
             SyncRead, SyncKeep, SyncDrop, SyncLetGo, SyncRetire, EndTimersTask, GiveQueue
      <4> QED
        BY <3>2, <4>1 DEF heap_vars
    <3> QED
      BY <3>1, <3>2
  <2>6. Has(elems, Registration(c))' <=> Has(elems', Registration(c))
    BY <2>2 DEF Has
  <2> QED
    BY <1>0, <2>1, <2>3, <2>5, <2>6 DEF Placed
<1>2. ASSUME NEW d \in Dispatchers, Handler(d), NEW c \in Slots, Stands(c)' PROVE Placed(c)'
  <2>1. UNCHANGED <<reg_gen, reg_deadline, qpc>>
    BY <1>2, HandlerLeaves
  <2>2. /\ refs[c] # 0
        /\ gen'[c] = gen[c] \/ (RetireEntry(d) /\ elem[d].slot = c /\ gen'[c] = gen[c] + 1)
    BY <1>2, HandlerSlots DEF Stands
  <2>3. gen'[c] = gen[c]
    <3>1. reg_gen[c] <= gen[c] /\ gen'[c] = reg_gen[c] /\ gen[c] \in Nat /\ reg_gen[c] \in Nat
      BY <1>t, <1>2, <2>1 DEF Stands, Inv, GenerationOK, TypeOK
    <3> QED
      BY <2>2, <3>1
  <2>4. Stands(c) /\ Registration(c)' = Registration(c)
    BY <1>2, <2>1, <2>2, <2>3 DEF Stands, Registration
  <2>5. Placed(c) /\ Live(Registration(c))
    BY <1>0, <1>l, <2>4
  <2>6. ASSUME Has(elems, Registration(c)) PROVE Placed(c)'
    <3>1. Has(elems, Registration(c))' <=> Has(elems', Registration(c))
      BY <2>4 DEF Has
    <3>2. CASE TakeExpired(d)
      <4>1. Has(elems', Registration(c)) \/ (dpc'[d] = "acquire" /\ elem'[d] = Registration(c))
        BY <2>5, <2>6, <3>2, TakeElems
      <4> QED
        BY <2>4, <3>1, <4>1 DEF Placed, InHand
    <3>3. CASE ~TakeExpired(d)
      <4>1. UNCHANGED heap_vars
        BY <1>2, <3>3 DEF Handler, ReadTimerfd, ReadClock, Lock, AcquireIfLive,
             CheckGeneration, ReleaseStale, RetireEntry, ArmAndUnlock, WakeQueue, ReleaseBatched
      <4> QED
        BY <2>6, <3>1, <4>1 DEF heap_vars, Placed
    <3> QED
      BY <3>2, <3>3
  <2>7. ASSUME NEW e \in Dispatchers, dpc[e] \in {"acquire", "check", "retire"}, elem[e] = Registration(c)
        PROVE  Placed(c)'
    <3>0. elem[e].slot = c /\ Live(elem[e])
      BY <2>5, <2>7 DEF Registration
    <3>1. dpc'[e] \in {"acquire", "check", "retire"} /\ elem'[e] = elem[e]
      <4>1. CASE e # d
        BY <1>2, <2>7, <4>1, OtherHandlersSame
      <4>2. CASE e = d
        <5>1. ~RetireEntry(d)
          <6>1. SUFFICES ASSUME RetireEntry(d) PROVE FALSE
            OBVIOUS
          <6>2. gen'[c] = gen[c] + 1
            BY <1>t, <3>0, <4>2, <6>1 DEF RetireEntry, SlotTypes
          <6>3. gen[c] \in Nat
            BY <1>t DEF SlotTypes
          <6> QED
            BY <2>3, <6>2, <6>3
        <5>2. AcquireIfLive(d) \/ CheckGeneration(d)
          BY <1>2, <2>7, <4>2, <5>1 DEF Handler, ReadTimerfd, ReadClock, Lock, TakeExpired,
             ReleaseStale, RetireEntry, ArmAndUnlock, WakeQueue, ReleaseBatched
        <5> QED
          BY <1>t, <2>2, <3>0, <4>2, <5>2 DEF AcquireIfLive, Acquirable, CheckGeneration, HandlerTypes, GoD
      <4> QED
        BY <4>1, <4>2
    <3> QED
      BY <2>4, <2>7, <3>1 DEF Placed, InHand
  <2> QED
    BY <2>5, <2>6, <2>7 DEF Placed, InHand
<1>3. ASSUME Kernel, NEW c \in Slots, Stands(c)' PROVE Placed(c)'
  <2>1. UNCHANGED <<refs, gen, reg_gen, reg_deadline, qpc, elems, elem>>
    BY <1>3, KernelLeaves DEF slot_vars, reg_vars, queue_vars, heap_vars
  <2>2. \A d \in Dispatchers : dpc[d] \in {"acquire", "check", "retire"} => dpc'[d] = dpc[d]
    BY <1>t, <1>3 DEF Kernel, ClockTicks, TimerfdExpires, EpollReports, disp_vars, HandlerTypes, GoD
  <2>3. Placed(c)
    BY <1>0, <1>3, <2>1 DEF Stands
  <2> QED
    BY <2>1, <2>2, <2>3 DEF Placed, InHand, Registration, Has
<1>4. \A c \in Slots : Stands(c)' => Placed(c)'
  BY <1>1, <1>2, <1>3, Steps
<1> QED
  BY <1>4 DEF RegistrationOK, Stands, Placed, Has

-----------------------------------------------------------------------------
(* Wakeups.                                                                *)
TaskWaits(s) == tasks[s] > (IF InTimersTask(s) THEN 1 ELSE 0)
WakesFrom(d, s) == \/ dpc[d] = "retire" /\ elem[d].slot = s
                   \/ \E i \in (woke[d] + 1)..Len(batch[d]) :
                         batch[d][i] = s /\ (i > woke[d] + 1 \/ dpc[d] # "unref")
InTime(s) == gen[s] = reg_gen[s] /\ reg_deadline[s] <= Min(timers[s])
Watched(s) == /\ timers[s] # {}
              /\ \/ qpc[s] \in {"idle", "app", "unref", "register"}
                 \/ qpc[s] = "keep" /\ registered[s] /\ Covers(s)

LEMMA WokenIs ==
    /\ \A s : Woken(s) <=> TaskWaits(s) \/ \E d \in Dispatchers : WakesFrom(d, s)
    /\ \A s : Woken(s)' <=> TaskWaits(s)' \/ \E d \in Dispatchers : WakesFrom(d, s)'
  BY DEF Woken, TaskWaits, WakesFrom

LEMMA QueueCover ==
    ASSUME Inv, NEW s \in Slots, QueueStep(s), NEW c \in Slots, Watched(c)'
    PROVE  (Woken(c) \/ InTime(c)) /\ Watched(c) => Woken(c)' \/ InTime(c)'
<1>1. \A d \in Dispatchers : WakesFrom(d, c)' <=> WakesFrom(d, c)
  BY QueueStepLeaves DEF WakesFrom
<1>2. (TaskWaits(c) => TaskWaits(c)') => (Woken(c) => Woken(c)')
  BY <1>1, WokenIs
<1>3. CASE c # s
  <2>1. Same(c)
    BY <1>3, OtherQueuesSame
  <2>2. TaskWaits(c)' <=> TaskWaits(c)
    BY <2>1 DEF Same, TaskWaits, InTimersTask, Syncing
  <2>3. InTime(c)' <=> InTime(c)
    BY <2>1 DEF Same, InTime
  <2> QED
    BY <1>2, <2>2, <2>3
<1>4. CASE c = s
  <2>0. SlotTypes /\ RegTypes /\ QueueTypes /\ ContextTypes /\ QueueFine(s)
    BY TypeParts DEF Inv, QueueOK, QueueFine
  <2>r. timers[s] # {} => refs[s] # 0
    BY HolderCounts DEF Inv
  <2> DEFINE Holds == (TaskWaits(s) => TaskWaits(s)') /\ (InTime(s) => InTime(s)')
  <2> USE DEF SlotTypes, RegTypes, QueueTypes, ContextTypes, GoQ, Watched, InTime, TaskWaits, InTimersTask, Syncing, Covers
  <2>1. ASSUME Watched(s), ~InTime(s)' PROVE Holds
    <3>1. CASE Lifetime(s)
      BY <1>4, <2>0, <2>1, <2>r, <3>1 DEF Lifetime, CreateQueue, ReleaseQueue, BeginAppTask, reg_vars, QueueFine
    <3>2. CASE Application(s)
      BY <1>4, <2>0, <2>1, <3>2 DEF Application, EndAppTask, TimerReturns, WakeupAt, CancelTimer, reg_vars, slot_vars
    <3>3. CASE BeginTimersTask(s) \/ Fire(s) \/ PassOver(s) \/ EndTimersTask(s) \/ GiveQueue(s)
      BY <1>4, <2>0, <2>1, <2>r, <3>3 DEF BeginTimersTask, Fire, PassOver, EndTimersTask, GiveQueue, reg_vars,
          slot_vars, queue_vars
    <3>4. CASE SyncRead(s) \/ SyncDrop(s) \/ SyncLetGo(s) \/ SyncRetire(s)
      BY <1>4, <2>0, <2>1, <3>4 DEF SyncRead, SyncDrop, SyncLetGo, SyncRetire
    <3>6. CASE SyncKeep(s)
      <4>1. /\ qpc[s] = "keep" /\ Synced(s)
            /\ UNCHANGED <<gen, reg_gen, reg_deadline, timers, tasks>>
        BY <2>1, <3>6 DEF SyncKeep
      <4>2. /\ qret[s] \in {"app", "fired", "idle"}
            /\ qpc'[s] = IF qret[s] = "idle" THEN "unref" ELSE qret[s]
        BY <2>0, <4>1 DEF Synced
      <4> QED
        BY <4>1, <4>2
    <3>5. CASE SyncRegister(s)
      BY <1>4, <2>0, <2>1, <3>5 DEF SyncRegister, Synced, slot_vars
    <3> QED
      BY <3>1, <3>2, <3>3, <3>4, <3>5, <3>6 DEF QueueStep, Context
  <2> QED
    BY <1>2, <1>4, <2>1
<1> QED
  BY <1>3, <1>4

(* Where the queue was not watched, it has just synced or retired its      *)
(* registration for a new one.                                             *)
LEMMA QueueSynced ==
    ASSUME Inv, NEW s \in Slots, QueueStep(s), NEW c \in Slots, Watched(c)', ~Watched(c)
    PROVE  InTime(c)'
<1>0. SlotTypes /\ RegTypes /\ QueueTypes /\ ContextTypes /\ QueueFine(s)
  BY TypeParts DEF Inv, QueueOK, QueueFine
<1>1. c = s
  BY OtherQueuesSame DEF Same, Watched, Covers
<1> USE DEF SlotTypes, RegTypes, QueueTypes, ContextTypes, GoQ, Watched, InTime, Covers
<1>2. CASE Lifetime(s)
  <2>1. CASE CreateQueue(s)
    <3>1. timers[s] = {} /\ timers' = timers
      BY <1>0, <2>1, HolderCounts DEF CreateQueue, QueueFine, Inv
    <3> QED
      BY <1>1, <3>1
  <2> QED
    BY <1>0, <1>1, <1>2, <2>1 DEF Lifetime, ReleaseQueue, BeginAppTask, reg_vars
<1>3. CASE Application(s)
  BY <1>0, <1>1, <1>3 DEF Application, EndAppTask, TimerReturns, WakeupAt, CancelTimer, reg_vars, slot_vars
<1>4. CASE BeginTimersTask(s) \/ Fire(s) \/ PassOver(s) \/ EndTimersTask(s) \/ GiveQueue(s)
  BY <1>0, <1>1, <1>4 DEF BeginTimersTask, Fire, PassOver, EndPass, EndTimersTask, GiveQueue, reg_vars,
      slot_vars, queue_vars
<1>5. CASE SyncRead(s) \/ SyncKeep(s)
  BY <1>0, <1>1, <1>5 DEF SyncRead, SyncKeep, Synced, slot_vars, reg_vars
<1>6. CASE SyncDrop(s) \/ SyncLetGo(s)
  BY <1>0, <1>1, <1>6 DEF SyncDrop, SyncLetGo, QueueFine
<1>7. CASE SyncRetire(s)
  <2>1. timers[s] # {} /\ timers[s] \in SUBSET Deadlines
    BY <1>0, <1>7 DEF SyncRetire, QueueFine
  <2>2. Min(timers[s]) \in Nat
    BY <2>1, MinIsLeast, DeadlineRange
  <2>3. gen'[s] = reg_gen'[s] /\ reg_deadline'[s] = Min(timers[s]) /\ timers' = timers
    BY <1>0, <1>7 DEF SyncRetire
  <2> QED
    BY <1>1, <2>2, <2>3
<1>8. CASE SyncRegister(s)
  BY <1>0, <1>1, <1>8 DEF SyncRegister, QueueFine
<1> QED
  BY <1>2, <1>3, <1>4, <1>5, <1>6, <1>7, <1>8 DEF QueueStep, Context

(* A handler that is to wake a queue stays so until it has.                *)
LEMMA HandlerWakes ==
    ASSUME Inv, NEW d \in Dispatchers, Handler(d), NEW c \in Slots, Woken(c)
    PROVE  Woken(c)'
<1>0. /\ HandlerTypes /\ QueueTypes /\ BatchOK /\ Batch \in Nat
      /\ Len(batch[d]) \in Nat /\ batch[d] \in Seq(Slots)
  BY TypeParts, ServiceBounds DEF Inv, HandlerTypes
<1>1. tasks'[c] >= tasks[c] /\ tasks[c] \in Nat /\ tasks'[c] \in Nat
  BY HandlerSlots
<1>2. UNCHANGED <<qpc, qret>>
  BY HandlerLeaves
<1>3. TaskWaits(c) => TaskWaits(c)'
  BY <1>1, <1>2 DEF TaskWaits, InTimersTask, Syncing
<1>4. ASSUME NEW e \in Dispatchers, e # d, WakesFrom(e, c) PROVE WakesFrom(e, c)'
  BY <1>4, OtherHandlersSame DEF WakesFrom
<1>5. ASSUME WakesFrom(d, c) PROVE WakesFrom(d, c)' \/ TaskWaits(c)'
  <2> USE DEF HandlerTypes, GoD
  <2>1. CASE ReadTimerfd(d) \/ ReadClock(d) \/ Lock(d) \/ AcquireIfLive(d) \/ CheckGeneration(d)
               \/ ReleaseStale(d)
    <3>1. UNCHANGED <<elem, batch, woke>> /\ dpc'[d] # "unref" /\ dpc[d] # "retire"
      BY <1>0, <2>1 DEF ReadTimerfd, ReadClock, Lock, AcquireIfLive, CheckGeneration, ReleaseStale
    <3> QED
      BY <1>5, <3>1 DEF WakesFrom
  <2>2. CASE TakeExpired(d)
    <3>1. UNCHANGED <<batch, woke>> /\ dpc[d] = "take"
      BY <2>2 DEF TakeExpired
    <3>2. dpc'[d] \in {"acquire", "arm"}
      BY <1>0, <2>2, TakeElems
    <3> QED
      BY <1>5, <3>1, <3>2 DEF WakesFrom
  <2>3. CASE ArmAndUnlock(d)
    <3>1. UNCHANGED <<batch, woke>> /\ dpc[d] = "arm" /\ dpc'[d] \in {"idle", "wake"}
      BY <1>0, <2>3 DEF ArmAndUnlock
    <3> QED
      BY <1>5, <3>1 DEF WakesFrom
  <2>4. CASE RetireEntry(d)
    <3> DEFINE s == elem[d].slot
    <3>1. /\ s \in Slots /\ woke' = woke /\ dpc'[d] = "take" /\ dpc[d] = "retire"
          /\ batch'[d] = Append(batch[d], s)
      BY <1>0, <2>4, HandlerHolds DEF RetireEntry, Inv
    <3>2. woke[d] = 0
      BY <1>0, <3>1 DEF BatchOK
    <3>3. /\ Len(batch'[d]) = Len(batch[d]) + 1 /\ batch'[d][Len(batch[d]) + 1] = s
          /\ \A i \in 1..Len(batch[d]) : batch'[d][i] = batch[d][i]
      BY <1>0, <3>1, AppendProperties
    <3>4. c = s \/ \E i \in 1..Len(batch[d]) : batch[d][i] = c
      BY <1>5, <3>1, <3>2 DEF WakesFrom
    <3>5. \E i \in 1..Len(batch'[d]) : batch'[d][i] = c
      <4>1. CASE c = s
        <5>1. Len(batch[d]) + 1 \in 1..Len(batch'[d])
          BY <1>0, <3>3
        <5> QED
          BY <3>3, <4>1, <5>1
      <4>2. CASE c # s
        <5>1. PICK i \in 1..Len(batch[d]) : batch[d][i] = c
          BY <3>4, <4>2
        <5>2. i \in 1..Len(batch'[d])
          BY <1>0, <3>3
        <5> QED
          BY <3>3, <5>1, <5>2
      <4> QED
        BY <4>1, <4>2
    <3> QED
      BY <3>1, <3>2, <3>5 DEF WakesFrom
  <2>5. CASE WakeQueue(d)
    <3> DEFINE s == batch[d][woke[d] + 1]
    <3>1. /\ s \in Slots /\ UNCHANGED <<elem, batch, woke>> /\ dpc[d] = "wake" /\ dpc'[d] = "unref"
          /\ tasks' = [tasks EXCEPT ![s] = @ + 1]
      BY <1>0, <2>5, HandlerHolds DEF WakeQueue, Inv
    <3>2. PICK i \in (woke[d] + 1)..Len(batch[d]) : batch[d][i] = c
      BY <1>5, <3>1 DEF WakesFrom
    <3>3. CASE i > woke[d] + 1
      BY <3>1, <3>2, <3>3 DEF WakesFrom
    <3>4. CASE ~(i > woke[d] + 1)
      <4>1. woke[d] \in Nat /\ i = woke[d] + 1
        BY <1>0, <3>2, <3>4
      <4>2. tasks'[c] = tasks[c] + 1
        BY <1>0, <3>1, <3>2, <4>1 DEF QueueTypes
      <4>3. InTimersTask(c) => tasks[c] > 0
        BY DEF Inv, QueueOK
      <4> QED
        BY <1>1, <1>2, <4>2, <4>3 DEF TaskWaits, InTimersTask, Syncing
    <3> QED
      BY <3>3, <3>4
  <2>6. CASE ReleaseBatched(d)
    <3>1. dpc[d] = "unref" /\ woke[d] \in Nat
      BY <1>0, <2>6 DEF ReleaseBatched
    <3>2. PICK i \in (woke[d] + 1)..Len(batch[d]) : batch[d][i] = c /\ i > woke[d] + 1
      BY <1>5, <3>1 DEF WakesFrom
    <3>3. woke[d] + 1 < Len(batch[d])
      BY <1>0, <3>1, <3>2
    <3>4. woke'[d] = woke[d] + 1 /\ dpc'[d] = "wake" /\ batch' = batch
      BY <1>0, <2>6, <3>3 DEF ReleaseBatched
    <3>5. i \in (woke'[d] + 1)..Len(batch'[d])
      BY <1>0, <3>1, <3>2, <3>4
    <3> QED
      BY <3>2, <3>4, <3>5 DEF WakesFrom
  <2> QED
    BY <2>1, <2>2, <2>3, <2>4, <2>5, <2>6 DEF Handler
<1> QED
  BY <1>3, <1>4, <1>5, WokenIs

LEMMA CoverStep ==
    ASSUME Inv, Next
    PROVE  CoverOK'
<1>0. \A c \in Slots : Watched(c) => Woken(c) \/ InTime(c)
  BY DEF Inv, CoverOK, Watched, InTime
<1>1. ASSUME NEW s \in Slots, QueueStep(s), NEW c \in Slots, Watched(c)' PROVE Woken(c)' \/ InTime(c)'
  BY <1>0, <1>1, QueueCover, QueueSynced
<1>2. ASSUME NEW d \in Dispatchers, Handler(d), NEW c \in Slots, Watched(c)' PROVE Woken(c)' \/ InTime(c)'
  <2>1. UNCHANGED <<reg_gen, reg_deadline, timers, qpc, registered>>
    BY <1>2, HandlerLeaves
  <2>2. Watched(c)
    BY <1>2, <2>1 DEF Watched, Covers
  <2>3. CASE Woken(c)
    BY <1>2, <2>3, HandlerWakes
  <2>4. CASE InTime(c) /\ gen'[c] = gen[c]
    BY <2>1, <2>4 DEF InTime
  <2>5. CASE RetireEntry(d) /\ elem[d].slot = c
    <3>1. Woken(c)
      BY <2>5 DEF Woken, RetireEntry
    <3> QED
      BY <1>2, <3>1, HandlerWakes
  <2> QED
    BY <1>0, <1>2, <2>2, <2>3, <2>4, <2>5, HandlerSlots
<1>3. ASSUME Kernel, NEW c \in Slots, Watched(c)' PROVE Woken(c)' \/ InTime(c)'
  <2>1. UNCHANGED <<gen, reg_gen, reg_deadline, timers, qpc, qret, registered, tasks, elem,
                    batch, woke>>
    BY <1>3, KernelLeaves DEF slot_vars, reg_vars, queue_vars
  <2>2. HandlerTypes
    BY TypeParts DEF Inv
  <2>3. \A d \in Dispatchers : /\ dpc'[d] = "retire" <=> dpc[d] = "retire"
                               /\ dpc'[d] = "unref" <=> dpc[d] = "unref"
    BY <1>3, <2>2 DEF Kernel, ClockTicks, TimerfdExpires, EpollReports, disp_vars, HandlerTypes, GoD
  <2>4. Woken(c) => Woken(c)'
    BY <2>1, <2>3 DEF Woken, InTimersTask, Syncing
  <2>5. InTime(c) => InTime(c)'
    BY <2>1 DEF InTime
  <2>6. Watched(c)
    BY <1>3, <2>1 DEF Watched, Covers
  <2> QED
    BY <1>0, <2>4, <2>5, <2>6
<1>4. \A c \in Slots : Watched(c)' => Woken(c)' \/ InTime(c)'
  BY <1>1, <1>2, <1>3, Steps
<1> QED
  BY <1>4 DEF CoverOK, Watched, InTime

-----------------------------------------------------------------------------
(* The timerfd.                                                            *)
Answering == \E d \in Dispatchers : dpc[d] \in {"read", "clock", "lock"}
Fires == \/ fd_at <= TimerValue(armed) \/ fd_at <= now
         \/ fd_ticks /\ fd_ready
         \/ lock # NoOne
         \/ Answering
ArmedForTop == lock = NoOne /\ elems # <<>> => armed <= elems[1].deadline

LEMMA TimerfdStep ==
    ASSUME Inv, Next
    PROVE  TimerfdOK'
<1>0. /\ HandlerTypes /\ ClockTypes /\ HeapTypes /\ now \in Nat /\ now >= 1 /\ Never \in Nat
      /\ MaxTime \in Nat /\ fd_at \in Nat
  BY TypeParts, DeadlineRange DEF Inv, TimerfdOK, ClockTypes
<1>1. ArmedForTop /\ Fires
  BY DEF Inv, TimerfdOK, ArmedForTop, Fires, Answering
<1>2. TypeOK /\ elems' \in Seq(Entries) /\ LockOK /\ \A d \in Dispatchers : d # NoOne
  BY ElemsStep, ServiceThreads DEF Inv
<1> DEFINE Goal == ArmedForTop' /\ Fires' /\ now' \in Nat /\ now' >= 1
<1>3. ASSUME NEW s \in Slots, QueueStep(s) PROVE Goal
  <2>1. UNCHANGED <<lock, dpc, now>>
    BY <1>3, QueueStepLeaves
  <2>2. CASE SyncRegister(s)
    <3>1. ArmLocked(elems', armed) /\ armed \in 0..Never /\ lock = NoOne
      BY <1>0, <2>2, RegisterElems DEF HeapTypes, SyncRegister
    <3>2. /\ armed' \in 0..Never /\ fd_at' \in 1..Never /\ fd_ready' = fd_ready
          /\ elems' # <<>> => armed' <= elems'[1].deadline
          /\ \/ fd_at' = TimerValue(armed')
             \/ armed' = armed /\ fd_at' = fd_at /\ fd_ticks' = fd_ticks
      BY <1>2, <3>1, Arming
    <3>3. ArmedForTop'
      BY <3>2 DEF ArmedForTop
    <3>4. Fires'
      <4>1. CASE fd_at' = TimerValue(armed')
        <5>1. fd_at' \in Nat
          BY <1>0, <3>2
        <5> QED
          BY <4>1, <5>1 DEF Fires
      <4>2. CASE armed' = armed /\ fd_at' = fd_at /\ fd_ticks' = fd_ticks
        BY <1>1, <2>1, <3>2, <4>2 DEF Fires, Answering
      <4> QED
        BY <3>2, <4>1, <4>2
    <3> QED
      BY <1>0, <2>1, <3>3, <3>4
  <2>3. CASE ~SyncRegister(s)
    <3>1. UNCHANGED <<armed, fd_vars, heap_vars>>
      BY <1>3, <2>3 DEF QueueStep, Lifetime, Application, Context, CreateQueue, ReleaseQueue, BeginAppTask,
           EndAppTask, TimerReturns, WakeupAt, CancelTimer, BeginTimersTask, Fire, PassOver,
           SyncRead, SyncKeep, SyncDrop, SyncLetGo, SyncRetire, EndTimersTask, GiveQueue
    <3> QED
      BY <1>0, <1>1, <2>1, <3>1 DEF fd_vars, heap_vars, ArmedForTop, Fires, Answering
  <2> QED
    BY <2>2, <2>3
<1>4. ASSUME NEW d \in Dispatchers, Handler(d) PROVE Goal
  <2>0. now' = now /\ \A e \in Dispatchers : e # d => dpc'[e] = dpc[e]
    BY <1>4, HandlerLeaves, OtherHandlersSame
  <2> USE DEF HandlerTypes, GoD
  <2>1. CASE ReadTimerfd(d) \/ ReadClock(d)
    <3>1. UNCHANGED <<armed, lock, elems>> /\ Answering'
      BY <1>0, <2>1 DEF ReadTimerfd, ReadClock, heap_vars, Answering
    <3> QED
      BY <1>0, <1>1, <2>0, <3>1 DEF ArmedForTop, Fires
  <2>2. CASE Lock(d) \/ TakeExpired(d) \/ AcquireIfLive(d) \/ CheckGeneration(d) \/ ReleaseStale(d)
               \/ RetireEntry(d)
    <3>1. lock' = d
      BY <1>2, <2>2 DEF Lock, TakeExpired, AcquireIfLive, CheckGeneration, ReleaseStale, RetireEntry,
           LockOK, Locked
    <3> QED
      BY <1>0, <1>2, <2>0, <3>1 DEF ArmedForTop, Fires
  <2>3. CASE ArmAndUnlock(d)
    <3>1. elems' = elems
      BY <2>3 DEF ArmAndUnlock, heap_vars
    <3>2. ArmLocked(elems', Never) /\ Never \in 0..Never
      BY <1>0, <2>3, <3>1 DEF ArmAndUnlock, Disarmed
    <3>3. /\ armed' \in 0..Never /\ fd_at' \in 1..Never
          /\ elems' # <<>> => armed' <= elems'[1].deadline
          /\ elems' # <<>> => fd_at' = TimerValue(armed')
          /\ elems' = <<>> => armed' = Never
      BY <1>2, <3>2, Arming
    <3>4. fd_at' <= TimerValue(armed')
      <4>1. fd_at' \in Nat /\ fd_at' <= Never /\ Never # 0
        BY <1>0, <3>3, DeadlineRange
      <4>2. CASE elems' # <<>>
        BY <3>3, <4>1, <4>2
      <4>3. CASE elems' = <<>>
        BY <3>3, <4>1, <4>3 DEF TimerValue
      <4> QED
        BY <4>2, <4>3
    <3> QED
      BY <1>0, <2>0, <3>3, <3>4 DEF ArmedForTop, Fires
  <2>4. CASE WakeQueue(d) \/ ReleaseBatched(d)
    <3>1. UNCHANGED <<armed, lock, fd_vars, heap_vars>> /\ dpc[d] \in {"wake", "unref"}
      BY <2>4 DEF WakeQueue, ReleaseBatched
    <3>2. Answering => Answering'
      BY <2>0, <3>1 DEF Answering
    <3> QED
      BY <1>0, <1>1, <2>0, <3>1, <3>2 DEF fd_vars, heap_vars, ArmedForTop, Fires
  <2> QED
    BY <1>4, <2>1, <2>2, <2>3, <2>4 DEF Handler
<1>5. ASSUME Kernel PROVE Goal
  <2>0. UNCHANGED <<elems, armed, lock>>
    BY <1>5, KernelLeaves DEF heap_vars
  <2>1. ArmedForTop'
    BY <1>1, <2>0 DEF ArmedForTop
  <2>2. CASE ClockTicks
    <3>1. now' = now + 1 /\ UNCHANGED <<fd_vars, dpc>>
      BY <2>2 DEF ClockTicks, disp_vars
    <3>2. fd_at <= now => fd_at <= now + 1
      BY <1>0
    <3>3. Fires'
      BY <1>1, <2>0, <3>1, <3>2 DEF fd_vars, Fires, Answering
    <3> QED
      BY <1>0, <2>1, <3>1, <3>3
  <2>3. CASE TimerfdExpires
    BY <1>0, <2>1, <2>3 DEF TimerfdExpires, Fires
  <2>4. ASSUME NEW d \in Dispatchers, EpollReports(d) PROVE Goal
    <3>1. /\ dpc[d] = "idle" /\ UNCHANGED <<now, fd_at, fd_ticks>>
          /\ dpc' = [dpc EXCEPT ![d] = IF fd_ticks THEN "read" ELSE "idle"]
      BY <2>4 DEF EpollReports, GoD
    <3>2. fd_ticks => Answering'
      BY <1>0, <3>1 DEF HandlerTypes, Answering
    <3>3. Answering => Answering'
      BY <1>0, <3>1 DEF HandlerTypes, Answering
    <3>4. Fires'
      BY <1>1, <2>0, <3>1, <3>2, <3>3 DEF Fires
    <3> QED
      BY <1>0, <2>1, <3>1, <3>4
  <2> QED
    BY <1>5, <2>2, <2>3, <2>4 DEF Kernel
<1>6. Goal
  BY <1>3, <1>4, <1>5, Steps
<1> QED
  BY <1>6 DEF TimerfdOK, ArmedForTop, Fires, Answering

-----------------------------------------------------------------------------
(* The invariant.                                                          *)
LEMMA InitInv == Init => Inv
<1> SUFFICES ASSUME Init PROVE Inv
  OBVIOUS
<1>0. /\ MaxTime \in Nat /\ MaxTime >= 1 /\ Never \in Nat /\ Never >= 1 /\ MaxArms \in Nat
      /\ MaxCreates \in Nat /\ Batch \in Nat /\ NoOne \notin Dispatchers
  BY ServiceBounds, ServiceThreads DEF Never
<1>1. TypeOK
  <2>1. SlotTypes /\ RegTypes /\ QueueTypes
    BY <1>0 DEF Init, SlotTypes, RegTypes, QueueTypes
  <2>2. ContextTypes
    BY DEF Init, ContextTypes
  <2>3. HeapTypes
    BY <1>0 DEF Init, HeapTypes
  <2>4. HandlerTypes
    BY <1>0 DEF Init, HandlerTypes
  <2>5. ClockTypes
    <3>1. now = 1 /\ fd_at = Never /\ arms = 0 /\ creates = 0
      BY DEF Init
    <3>2. fd_ticks \in BOOLEAN /\ fd_ready \in BOOLEAN
      BY DEF Init
    <3>3. 1 \in 0..MaxTime /\ Never \in 1..Never /\ 0 \in 0..MaxArms /\ 0 \in 0..MaxCreates
      BY <1>0
    <3> QED
      BY <3>1, <3>2, <3>3, Zenon DEF ClockTypes
  <2> QED
    BY <2>1, <2>2, <2>3, <2>4, <2>5, TypeParts
<1>2. LockOK /\ BatchOK
  BY <1>0 DEF Init, LockOK, Locked, BatchOK
<1>3. QueueOK /\ CoverOK
  BY DEF Init, QueueOK, CoverOK, InTimersTask, Syncing
<1>4. GenerationOK /\ RegistrationOK
  BY DEF Init, GenerationOK, RegistrationOK
<1>5. HoldersOK
  <2>1. ASSUME NEW s \in Slots PROVE Ticks(s) = {}
    <3>1. ASSUME NEW d \in Dispatchers, NEW i \in 0..Batch PROVE ~HoldsAt(d, i, s)
      <4>1. dpc[d] = "idle" /\ batch[d] = <<>> /\ woke[d] = 0
        BY DEF Init
      <4>2. i \notin (woke[d] + 1)..Len(batch[d])
        BY <4>1
      <4> QED
        BY <4>1, <4>2 DEF HoldsAt
    <3> QED
      BY <3>1, TicksAre
  <2>2. ASSUME NEW s \in Slots PROVE IsFiniteSet(Ticks(s)) /\ Cardinality(Ticks(s)) = 0
    BY <2>1, FS_EmptySet
  <2>3. ASSUME NEW s \in Slots PROVE refs[s] = HeldBy(s)
    <3>1. refs[s] = 0 /\ tasks[s] = 0 /\ s \notin app /\ s \notin self_ref /\ ~InAppTask(s)
      BY DEF Init, InAppTask, Syncing
    <3> QED
      BY <2>2, <3>1 DEF HeldBy, One
  <2> QED
    BY <2>2, <2>3, HoldersCounted DEF HoldersOK
<1>6. TimerfdOK
  BY <1>0 DEF Init, TimerfdOK, TimerValue
<1>7. H!IsHeap(elems)
  BY DEF Init, H!IsHeap
<1> QED
  BY <1>1, <1>2, <1>3, <1>4, <1>5, <1>6, <1>7 DEF Inv

LEMMA NextInv == Inv /\ [Next]_vars => Inv'
<1>1. ASSUME Inv, Next PROVE Inv'
  <2>1. H!IsHeap(elems)'
    BY <1>1, ElemsStep
  <2> QED
    BY <1>1, <2>1, TypeStep, LockStep, BatchStep, QueueOKStep, GenerationStep, HoldersStep,
       RegistrationStep, CoverStep, TimerfdStep DEF Inv
<1>2. ASSUME Inv, UNCHANGED vars PROVE Inv'
  <2> USE <1>2 DEF vars, slot_vars, reg_vars, queue_vars, heap_vars, disp_vars, fd_vars
  <2>1. TypeOK'
    BY DEF Inv, TypeOK
  <2>2. LockOK' /\ BatchOK'
    BY DEF Inv, LockOK, Locked, BatchOK
  <2>3. QueueOK' /\ GenerationOK'
    BY DEF Inv, QueueOK, InTimersTask, Syncing, GenerationOK
  <2>4. \A s \in Slots : Ticks(s)' = Ticks(s)
    BY DEF Ticks
  <2>5. HoldersOK'
    BY <2>4 DEF Inv, HoldersOK, RefsCountHolders
  <2>6. RegistrationOK'
    BY DEF Inv, RegistrationOK, InHand, Registration
  <2>7. CoverOK'
    BY DEF Inv, CoverOK, Woken, InTimersTask, Syncing, Covers
  <2>8. TimerfdOK' /\ H!IsHeap(elems)'
    BY DEF Inv, TimerfdOK
  <2> QED
    BY <2>1, <2>2, <2>3, <2>5, <2>6, <2>7, <2>8 DEF Inv
<1> QED
  BY <1>1, <1>2

(* The invariant holds: the lock, the batches, the generations, the        *)
(* registrations, the wakeups and the timerfd fit together at every step   *)
(* of queues and handlers.                                                 *)
THEOREM ServiceInvariant == Spec => []Inv
  BY InitInv, NextInv, PTL DEF Spec

(* Every field keeps its type, no queue is destroyed with timers armed,    *)
(* tasks waiting or its context running, as ntt_queue_deinit asserts, and  *)
(* a slot given back leaves no live registration behind, as                *)
(* ntt_timer_service_deinit asserts.                                       *)
THEOREM ServiceStaysConsistent == Spec => []ServiceConsistent
<1>1. Inv => ServiceConsistent
  <2> SUFFICES ASSUME Inv PROVE ServiceConsistent
    OBVIOUS
  <2>1. ASSUME NEW s \in Slots, refs[s] = 0 PROVE timers[s] = {} /\ tasks[s] = 0 /\ qpc[s] = "idle"
    <3>1. TypeOK /\ QueueOK /\ HoldersOK
      BY DEF Inv
    <3>2. /\ tasks[s] > 0 => refs[s] > 0
          /\ qpc[s] # "idle" => refs[s] > 0
          /\ timers[s] # {} => refs[s] > 0
      BY <3>1, HolderCounts
    <3>3. tasks[s] \in Nat
      BY <3>1 DEF TypeOK
    <3> QED
      BY <2>1, <3>2, <3>3
  <2>2. ASSUME NEW s \in Slots, s \in free, NEW p \in 1..Len(elems), elems[p].slot = s PROVE ~Live(elems[p])
    <3>1. elems[p] \in Entries
      BY ElementOfSeq DEF Inv, TypeOK
    <3>2. elems[p].gen < gen[s] /\ elems[p].gen \in Nat /\ gen[s] \in Nat
      BY <2>2, <3>1 DEF Inv, GenerationOK, TypeOK, Entries
    <3> QED
      BY <2>2, <3>2 DEF Live
  <2> QED
    BY <2>1, <2>2 DEF ServiceConsistent, DestroyedWithoutTimers, Inv
<1> QED
  BY <1>1, ServiceInvariant, PTL

(* The references of a queue are its holders, whatever the handlers of the *)
(* service do while it goes away (ntt_queue_acquire_if_live).              *)
THEOREM RefsAlwaysCountHolders == Spec => []RefsCountHolders
<1>1. Inv => RefsCountHolders
  BY DEF Inv, HoldersOK
<1> QED
  BY <1>1, ServiceInvariant, PTL

(* No armed timer is forgotten: ntt_queue_sync_timers and the handlers     *)
(* leave a live registration that is early enough, or a wakeup is coming.  *)
THEOREM TimersAlwaysCovered == Spec => []TimersCovered
<1>1. Inv => TimersCovered
  <2>1. SUFFICES ASSUME Inv, NEW s \in Slots, timers[s] # {}, ~WakeupComing(s)
                 PROVE  \E p \in 1..Len(elems) : /\ elems[p].slot = s /\ Live(elems[p])
                                                 /\ elems[p].deadline <= Min(timers[s])
    BY DEF TimersCovered
  <2>2. /\ tasks[s] \in Nat
        /\ \/ qpc[s] \in {"idle", "app", "unref"}
           \/ qpc[s] = "keep" /\ registered[s] /\ Covers(s)
    BY <2>1 DEF Inv, TypeOK, QueueOK, WakeupComing
  <2>3. ~Woken(s)
    <3>1. ~TaskWaits(s)
      BY <2>1, <2>2 DEF TaskWaits, InTimersTask, Syncing, WakeupComing
    <3>2. \A d \in Dispatchers : ~WakesFrom(d, s)
      BY <2>1 DEF WakesFrom, WakeupComing
    <3> QED
      BY <3>1, <3>2, WokenIs
  <2>4. gen[s] = reg_gen[s] /\ reg_deadline[s] <= Min(timers[s])
    BY <2>1, <2>2, <2>3 DEF Inv, CoverOK
  <2>5. refs[s] # 0
    BY <2>1, HolderCounts DEF Inv
  <2>6. InHand(s) \/ \E p \in 1..Len(elems) : elems[p] = Registration(s)
    <3>1. RegistrationOK /\ qpc[s] # "register"
      BY <2>1, <2>2 DEF Inv
    <3> QED
      BY <2>4, <2>5, <3>1 DEF RegistrationOK
  <2>7. Registration(s).slot = s /\ Live(Registration(s)) /\ Registration(s).deadline <= Min(timers[s])
    BY <2>4 DEF Registration, Live
  <2>8. ~InHand(s)
    BY <2>1, <2>7 DEF InHand, WakeupComing
  <2> QED
    BY <2>6, <2>7, <2>8
<1> QED
  BY <1>1, ServiceInvariant, PTL

(* The timerfd fires in time for the earliest entry, or it has fired and a *)
(* handler will arm it again: ntt_timer_service_arm_locked may skip the    *)
(* system call and never misses a deadline, not even a deadline of zero.   *)
THEOREM TimerfdAlwaysCovers == Spec => []TimerfdCovers
<1>1. Inv => TimerfdCovers
  <2>1. SUFFICES ASSUME Inv, lock = NoOne, elems # <<>>
                 PROVE  \/ fd_at <= elems[1].deadline \/ fd_at <= now
                        \/ fd_ticks /\ fd_ready
                        \/ \E d \in Dispatchers : dpc[d] \in {"read", "clock", "lock"}
    BY DEF TimerfdCovers
  <2>2. armed <= elems[1].deadline /\ now >= 1
    BY <2>1 DEF Inv, TimerfdOK
  <2>3. /\ armed \in Nat /\ fd_at \in Nat /\ now \in Nat
    BY <2>1, DeadlineRange DEF Inv, TypeOK
  <2>4. elems[1].deadline \in Nat
    <3>1. Len(elems) \in Nat /\ Len(elems) # 0 /\ elems \in Seq(Entries)
      BY <2>1, EmptySeq, LenProperties DEF Inv, TypeOK
    <3>2. elems[1] \in Entries
      BY <3>1, ElementOfSeq
    <3> QED
      BY <3>2, DeadlineRange DEF Entries
  <2>5. CASE fd_at <= TimerValue(armed)
    BY <2>2, <2>3, <2>4, <2>5 DEF TimerValue
  <2>6. CASE ~(fd_at <= TimerValue(armed))
    BY <2>1, <2>6 DEF Inv, TimerfdOK
  <2> QED
    BY <2>5, <2>6
<1> QED
  BY <1>1, ServiceInvariant, PTL

(* The top of the heap is the earliest registration of all queues, which   *)
(* is what ntt_queue_heap_top promises and both arm_locked and             *)
(* take_expired rely on.                                                   *)
TopIsEarliest == \A p \in 1..Len(elems) : elems[1].deadline <= elems[p].deadline

(* So it is at every step, whatever registrations, retirements and         *)
(* compactions did to the array (ntt_queue_heap_top).                      *)
THEOREM TopAlwaysEarliest == Spec => []TopIsEarliest
<1>1. Inv => TopIsEarliest
  <2>1. SUFFICES ASSUME Inv, NEW p \in 1..Len(elems) PROVE elems[1].deadline <= elems[p].deadline
    BY DEF TopIsEarliest
  <2>2. elems \in Seq(Entries) /\ P!IsHeap(elems)
    BY <2>1 DEF Inv, TypeOK, P!IsHeap, H!IsHeap
  <2>3. ~RegistrationLess(elems[p], elems[1])
    BY <2>1, <2>2, EntriesOrdered, P!RootIsLeast
  <2>4. Len(elems) \in Nat
    BY <2>2, LenProperties
  <2>5. 1 \in 1..Len(elems)
    BY <2>1, <2>4
  <2>6. elems[p] \in Entries /\ elems[1] \in Entries
    BY <2>1, <2>2, <2>5, ElementOfSeq
  <2>7. elems[p].deadline \in Nat /\ elems[1].deadline \in Nat
    BY <2>6, DeadlineRange DEF Entries
  <2> QED
    BY <2>3, <2>7 DEF RegistrationLess
<1> QED
  BY <1>1, ServiceInvariant, PTL
=============================================================================
