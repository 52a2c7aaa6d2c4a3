--------------------------- MODULE TimerHeapProofs ---------------------------
(***************************************************************************)
(* Theorems about TimerHeap, for every number of timers, every nesting of  *)
(* callbacks and every capacity: array, slots, free list and counter agree *)
(* at every step, every task is destroyed once, a tag cancels its own      *)
(* timer, and the heap implements Timers.                                  *)
(***************************************************************************)
EXTENDS TimerHeap, FiniteSetTheorems, SequenceTheorems, TLAPS

(* The heap's theorems for this array; the list's play no part here.       *)
P == INSTANCE ContainerProofs
       WITH Less <- EntryLess, Nodes <- {}, Sentinel <- 0, NULL <- 0

(* The entries of an array; no two are of the same timer.                  *)
Of(h) == {h[p] : p \in 1..Len(h)}
Distinct(h) == \A p, q \in 1..Len(h) : h[p].seq = h[q].seq => p = q

(* What the array and its capacity keep on their own.                      *)
Heaps == [a : Seq(Entries), cap : Nat]
Sound(h) == h \in Heaps /\ Distinct(h.a) /\ H!IsHeap(h.a) /\ Len(h.a) <= h.cap
HeapOK == Sound(heap) /\ Len(slots) <= slot_cap

Odd(v) == v % 2 = 1

Gone == stack # <<>> /\ stack[1].at = "gone"

Tags == [index : 1..MaxTimers, version : 1..(2 * MaxTimers), deadline : Deadlines]

(* An entry names a slot and a version it once had, those of the tag its   *)
(* timer was given.                                                        *)
EntryFine(x) ==
    /\ x.index \in 1..Len(slots) /\ x.version <= slots[x.index].version
    /\ Odd(x.version) /\ x.seq < seq_next
    /\ tags[x.seq + 1] = [index |-> x.index, version |-> x.version, deadline |-> x.deadline]
EntriesOK == \A x \in Of(heap.a) : EntryFine(x)

(* No two timers were given the same version of a slot.                    *)
TagsOK ==
    /\ tags \in Seq(Tags)
    /\ ~Gone => \A t \in 1..Len(tags) :
          /\ tags[t].index \in 1..Len(slots) /\ Odd(tags[t].version)
          /\ tags[t].version <= slots[tags[t].index].version
    /\ \A t, u \in 1..Len(tags) :
          tags[t].index = tags[u].index /\ tags[t].version = tags[u].version => t = u

(* An occupied slot has the entry of its timer, a vacant one is free; how  *)
(* far versions and slots have got is bounded by the timers armed.         *)
Occupied(i) == /\ slots[i].version <= 2 * seq_next - 1
               /\ \E x \in Of(heap.a) : /\ x.index = i /\ x.version = slots[i].version
                                        /\ x.seq = slots[i].task
Vacant(i) == /\ slots[i].version <= 2 * seq_next
             /\ slots[i].task = None
             /\ \E k \in 1..Len(free) : free[k] = i
SlotsOK ==
    /\ Len(slots) <= seq_next
    /\ \A i \in 1..Len(slots) : IF Odd(slots[i].version) THEN Occupied(i) ELSE Vacant(i)

FreeOK ==
    /\ \A k \in 1..Len(free) : free[k] \in 1..Len(slots) /\ ~Odd(slots[free[k]].version)
    /\ \A j, k \in 1..Len(free) : free[j] = free[k] => j = k

(* The calls underway: a pass or a cancel at the bottom, cancels on top of *)
(* it, and nothing once the heap is released.                              *)
StackOK ==
    /\ \A k \in 2..Len(stack) : stack[k].at = "cancel" /\ stack[k].now = 0
    /\ Len(stack) > 1 => stack[1].at \in {"run", "drop", "cancel"}
    /\ stack # <<>> => (stack[1].at \in {"pass", "run", "drop"} <=> stack[1].now # 0)
    /\ Gone => heap.a = <<>> /\ slots = <<>> /\ free = <<>>

DeadIn(h, ss) == {x \in Of(h) : ~LiveIn(ss, x)}
DeadOK == tombstones = Cardinality(DeadIn(heap.a, slots))

(* A task is destroyed unless its timer is armed or the task is running.   *)
Armed(t) == \E x \in Of(heap.a) : Live(x) /\ x.seq = t
Runs(st, t) == \E k \in 1..Len(st) : st[k].at = "run" /\ st[k].task = t
DestroyedOK ==
    /\ \A t \in Ids : destroyed[t] =
          IF t < seq_next /\ ~Armed(t) /\ ~Runs(stack, t) THEN 1 ELSE 0
    /\ \A t \in Ids \cup {None} :
          Runs(stack, t) => t \in Ids /\ t < seq_next /\ ~Armed(t)

Inv == /\ TypeOK /\ HeapOK /\ EntriesOK /\ TagsOK /\ SlotsOK /\ FreeOK
       /\ StackOK /\ DeadOK /\ DestroyedOK

-----------------------------------------------------------------------------
(* The array, in terms of the entries it has.                              *)
LEMMA EntriesOrdered == P!Ordered(Entries)
<1>0. Deadlines \subseteq Int /\ Ids \subseteq Int
  BY TimerBounds DEF Ids
<1>1. \A x \in Entries : x.deadline \in Int /\ x.seq \in Int
  BY <1>0 DEF Entries
<1> QED
  BY <1>1 DEF P!Ordered, EntryLess

LEMMA RearrangedOf ==
    ASSUME NEW g, NEW h, P!Rearranges(g, h)
    PROVE  Of(g) = Of(h) /\ (Distinct(h) => Distinct(g))
<1>1. Of(g) = Of(h)
  <2>1. /\ \A i \in 1..Len(g) : \E j \in 1..Len(h) : g[i] = h[j]
        /\ \A j \in 1..Len(h) : \E i \in 1..Len(g) : g[i] = h[j]
    BY P!RearrangesEntries
  <2>2. \A x : x \in Of(g) <=> x \in Of(h)
    BY <2>1 DEF Of
  <2> QED
    BY <2>2
<1>2. ASSUME Distinct(h) PROVE Distinct(g)
  <2>1. Len(g) = Len(h)
    BY DEF P!Rearranges
  <2>2. PICK f \in P!Perms(Len(h)) : \A i \in 1..Len(h) : g[i] = h[f[i]]
    BY DEF P!Rearranges
  <2>3. /\ \A i \in 1..Len(h) : f[i] \in 1..Len(h)
        /\ \A i, j \in 1..Len(h) : f[i] = f[j] => i = j
    BY DEF P!Perms
  <2> QED
    BY <1>2, <2>1, <2>2, <2>3 DEF Distinct
<1> QED
  BY <1>1, <1>2

(* ntt_timer_heap_push.                                                    *)
LEMMA InsertOf ==
    ASSUME NEW h \in Seq(Entries), NEW e \in Entries
    PROVE  /\ H!Insert(h, e) \in Seq(Entries) /\ Len(H!Insert(h, e)) = Len(h) + 1
           /\ H!IsHeap(h) => H!IsHeap(H!Insert(h, e))
           /\ Of(H!Insert(h, e)) = Of(h) \cup {e}
           /\ Distinct(h) /\ (\A x \in Of(h) : x.seq # e.seq) => Distinct(H!Insert(h, e))
<1> DEFINE g == H!Insert(h, e)
           a == Append(h, e)
<1>0. P!Insert(h, e) = g /\ (P!IsHeap(h) <=> H!IsHeap(h)) /\ (P!IsHeap(g) <=> H!IsHeap(g))
  BY DEF P!Insert, H!Insert, P!SiftUp, H!SiftUp, P!IsHeap, H!IsHeap
<1>1. /\ P!Insert(h, e) \in Seq(Entries) /\ P!Rearranges(P!Insert(h, e), Append(h, e))
      /\ P!IsHeap(h) => P!IsHeap(P!Insert(h, e))
  BY EntriesOrdered, P!InsertAdds
<1> HIDE DEF g
<1>2. g \in Seq(Entries) /\ P!Rearranges(g, a) /\ (H!IsHeap(h) => H!IsHeap(g))
  BY <1>0, <1>1
<1>3. /\ a \in Seq(Entries) /\ Len(a) = Len(h) + 1 /\ Len(h) \in Nat
      /\ \A i \in 1..Len(h) : a[i] = h[i]
      /\ a[Len(h) + 1] = e
  BY AppendProperties, LenProperties
<1> HIDE DEF a
<1>4. /\ \A i \in 1..Len(a) : i \in 1..Len(h) \/ i = Len(h) + 1
      /\ \A i \in 1..Len(h) : i \in 1..Len(a)
      /\ Len(h) + 1 \in 1..Len(a)
  BY <1>3
<1>5. Of(a) = Of(h) \cup {e}
  BY <1>3, <1>4 DEF Of
<1>6. ASSUME Distinct(h), \A x \in Of(h) : x.seq # e.seq PROVE Distinct(a)
  <2>1. \A i \in 1..Len(h) : a[i].seq # e.seq
    BY <1>3, <1>6 DEF Of
  <2> QED
    BY <1>3, <1>4, <1>6, <2>1 DEF Distinct
<1>7. Of(g) = Of(a) /\ (Distinct(a) => Distinct(g))
  BY <1>2, RearrangedOf
<1>8. Len(g) = Len(h) + 1
  BY <1>2, <1>3 DEF P!Rearranges
<1> QED
  BY <1>2, <1>5, <1>6, <1>7, <1>8 DEF g

LEMMA WithoutRootOf ==
    ASSUME NEW h \in Seq(Entries), h # <<>>
    PROVE  /\ H!WithoutRoot(h) \in Seq(Entries) /\ Len(H!WithoutRoot(h)) = Len(h) - 1
           /\ H!IsHeap(h) => H!IsHeap(H!WithoutRoot(h))
           /\ Distinct(h) => /\ Distinct(H!WithoutRoot(h))
                             /\ Of(H!WithoutRoot(h)) = Of(h) \ {h[1]}
<1> DEFINE g == H!WithoutRoot(h)
           a == Tail(h)
<1>0. P!WithoutRoot(h) = g /\ (P!IsHeap(h) <=> H!IsHeap(h)) /\ (P!IsHeap(g) <=> H!IsHeap(g))
  BY DEF P!WithoutRoot, H!WithoutRoot, P!SiftDown, H!SiftDown, P!SmallerChild, H!SmallerChild,
         P!IsHeap, H!IsHeap
<1>1. /\ P!WithoutRoot(h) \in Seq(Entries) /\ P!Rearranges(P!WithoutRoot(h), Tail(h))
      /\ P!IsHeap(h) => P!IsHeap(P!WithoutRoot(h))
  BY EntriesOrdered, P!WithoutRootTakes
<1> HIDE DEF g
<1>2. g \in Seq(Entries) /\ P!Rearranges(g, a) /\ (H!IsHeap(h) => H!IsHeap(g))
  BY <1>0, <1>1
<1>3. /\ a \in Seq(Entries) /\ Len(a) = Len(h) - 1 /\ Len(h) \in Nat /\ Len(h) > 0
      /\ \A i \in 1..Len(a) : a[i] = h[i + 1]
  BY HeadTailProperties, LenProperties, EmptySeq
<1> HIDE DEF a
<1>4. /\ \A i \in 1..Len(a) : i + 1 \in 1..Len(h) /\ i + 1 # 1
      /\ \A i \in 1..Len(h) : i = 1 \/ (i - 1 \in 1..Len(a) /\ a[i - 1] = h[i])
      /\ 1 \in 1..Len(h)
  BY <1>3
<1>5. ASSUME Distinct(h) PROVE Distinct(a) /\ Of(a) = Of(h) \ {h[1]}
  <2>1. Distinct(a)
    BY <1>3, <1>4, <1>5 DEF Distinct
  <2>2. \A i \in 1..Len(a) : h[i + 1] # h[1]
    BY <1>4, <1>5 DEF Distinct
  <2>3. Of(a) \subseteq Of(h) \ {h[1]}
    BY <1>3, <1>4, <2>2 DEF Of
  <2>4. ASSUME NEW x \in Of(h), x # h[1] PROVE x \in Of(a)
    <3>1. PICK i \in 1..Len(h) : x = h[i]
      BY DEF Of
    <3>2. i - 1 \in 1..Len(a) /\ a[i - 1] = x
      BY <1>4, <2>4, <3>1
    <3> QED
      BY <3>2, Zenon DEF Of
  <2> QED
    BY <2>1, <2>3, <2>4
<1>6. Of(g) = Of(a) /\ (Distinct(a) => Distinct(g))
  BY <1>2, RearrangedOf
<1>7. Len(g) = Len(h) - 1
  BY <1>2, <1>3 DEF P!Rearranges
<1> QED
  BY <1>2, <1>5, <1>6, <1>7 DEF g

LEMMA RootOf ==
    ASSUME NEW h \in Seq(Entries), h # <<>>
    PROVE  h[1] \in Of(h) /\ h[1] \in Entries /\ Len(h) \in Nat /\ Len(h) > 0
<1>1. Len(h) \in Nat /\ Len(h) > 0 /\ h \in [1..Len(h) -> Entries]
  BY LenProperties, EmptySeq
<1> QED
  BY <1>1 DEF Of

LEMMA OfEntries ==
    ASSUME NEW h \in Seq(Entries)
    PROVE  Of(h) \subseteq Entries
<1>1. h \in [1..Len(h) -> Entries]
  BY LenProperties
<1> QED
  BY <1>1 DEF Of

(* The capacities: what is reserved suffices, what shrinks still does.     *)
Doubling(start, n) == CHOOSE d : d = [k \in 0..n |-> IF k = 0 THEN start ELSE 2 * d[k - 1]]

LEMMA DoublingGrows ==
    ASSUME NEW start \in Nat \ {0}, NEW n \in Nat
    PROVE  \A k \in 0..n : Doubling(start, n)[k] \in Nat /\ Doubling(start, n)[k] > k
<1> DEFINE D == 0..n
           X == Nat
           C == 1..n
           rank == [k \in D |-> k]
           next == [k \in C |-> k - 1]
           G == [k \in C |-> [v \in X |-> 2 * v]]
           base == [k \in D |-> start]
           u == Doubling(start, n)
<1>1. \A k \in C : k \in D /\ k - 1 \in D /\ k # 0
  OBVIOUS
<1>2. next \in [C -> D] /\ rank \in [D -> 0..n] /\ C \in SUBSET D
  BY <1>1
<1>3. \A k \in C : rank[next[k]] < rank[k]
  BY <1>1
<1>4. G \in [C -> [X -> X]] /\ base \in [D -> X]
  OBVIOUS
<1>5. PICK f \in [D -> X] : \A k \in D : f[k] = IF k \in C THEN G[k][f[next[k]]] ELSE base[k]
  <2>1. P!Descends(D, X, n, rank, C, next, G, base)
    <3> HIDE DEF G, base
    <3> QED
      BY <1>2, <1>3, <1>4 DEF P!Descends
  <2>2. P!Solved(D, X, C, next, G, base)
    <3> HIDE DEF D, X, C, next, G, base, rank
    <3> QED
      BY <2>1, P!Recursion
  <2> QED
    BY <2>2 DEF P!Solved
<1>6. ASSUME NEW k \in D PROVE f[k] = IF k = 0 THEN start ELSE 2 * f[k - 1]
  <2>1. CASE k = 0
    <3>1. k \notin C /\ base[k] = start
      BY <2>1
    <3> HIDE DEF C, base
    <3> QED
      BY <1>5, <2>1, <3>1
  <2>2. CASE k # 0
    <3>1. k \in C /\ next[k] = k - 1 /\ f[k - 1] \in X
      BY <1>1, <2>2
    <3>2. G[k][f[k - 1]] = 2 * f[k - 1]
      BY <3>1
    <3> HIDE DEF C, G, next, base
    <3> QED
      BY <1>5, <2>2, <3>1, <3>2
  <2> QED
    BY <2>1, <2>2
<1>7. f = [k \in 0..n |-> IF k = 0 THEN start ELSE 2 * f[k - 1]]
  BY <1>6
<1>8. u = [k \in 0..n |-> IF k = 0 THEN start ELSE 2 * u[k - 1]]
  BY <1>7, Zenon DEF Doubling
<1> HIDE DEF u
<1> DEFINE S == {k \in 0..n : u[k] \in Nat /\ u[k] > k}
<1>9. 0 \in S
  BY <1>8
<1>10. ASSUME NEW k \in 0..n, k \in S, k < n PROVE k + 1 \in S
  <2>1. u[k + 1] = 2 * u[k] /\ u[k] \in Nat /\ u[k] > k /\ k + 1 \in 0..n
    BY <1>8, <1>10
  <2> QED
    BY <2>1
<1>11. \A k \in 0..n : k \in S
  <2> HIDE DEF S
  <2> QED
    BY <1>9, <1>10, P!UpTo
<1> QED
  BY <1>11 DEF u

LEMMA GrowCapacityFits ==
    ASSUME NEW cap \in Nat, NEW n \in Nat
    PROVE  GrowCapacity(cap, n) \in Nat /\ GrowCapacity(cap, n) >= n
<1> DEFINE start == IF cap = 0 THEN MinCapacity ELSE cap
           u == Doubling(start, n)
           T == {k \in 0..n : u[k] >= n}
           Fits(k) == /\ u[k] >= n
                      /\ \A j \in 0..(k - 1) : u[j] < n
<1>1. start \in Nat \ {0}
  BY TimerBounds
<1>2. GrowCapacity(cap, n) = u[CHOOSE k \in 0..n : Fits(k)]
  BY DEF GrowCapacity, Doubling
<1>3. \A k \in 0..n : u[k] \in Nat /\ u[k] > k
  <2> HIDE DEF start
  <2> QED
    BY <1>1, DoublingGrows
<1> HIDE DEF u
<1>4. T \subseteq Nat /\ n \in T
  BY <1>3
<1>5. PICK k \in T : \A y \in T : k <= y
  <2> HIDE DEF T
  <2> QED
    BY <1>4, P!Least
<1>6. k \in 0..n /\ Fits(k)
  <2>1. \A j \in 0..(k - 1) : j \in 0..n /\ ~(k <= j)
    OBVIOUS
  <2> QED
    BY <1>3, <1>5, <2>1
<1>7. (CHOOSE j \in 0..n : Fits(j)) \in 0..n /\ Fits(CHOOSE j \in 0..n : Fits(j))
  <2> HIDE DEF Fits
  <2> QED
    BY <1>6, Zenon
<1> QED
  BY <1>2, <1>3, <1>7

LEMMA ReserveFits ==
    ASSUME NEW cap \in Nat, NEW n \in Nat
    PROVE  Reserve(cap, n) \in Nat /\ Reserve(cap, n) >= n /\ Reserve(cap, n) >= cap
  BY GrowCapacityFits DEF Reserve

LEMMA ShrinkFits ==
    ASSUME NEW cap \in Nat, NEW n \in Nat, n <= cap
    PROVE  Shrink(cap, n) \in Nat /\ n <= Shrink(cap, n)
<1>1. CASE cap <= MinCapacity \/ n * 4 > cap
  BY <1>1 DEF Shrink
<1>2. CASE ~(cap <= MinCapacity \/ n * 4 > cap)
  <2>1. Shrink(cap, n) = cap \div 2 /\ n * 4 <= cap
    BY <1>2, TimerBounds DEF Shrink
  <2>2. cap \div 2 \in Nat /\ cap <= 2 * (cap \div 2) + 1
    OBVIOUS
  <2> HIDE DEF Shrink
  <2> QED
    BY <2>1, <2>2
<1> QED
  BY <1>1, <1>2

(* ntt_timer_heap_pop_root.                                                *)
LEMMA PopRootSound ==
    ASSUME NEW h, Sound(h), h.a # <<>>
    PROVE  /\ Sound(PopRoot(h)) /\ Len(PopRoot(h).a) = Len(h.a) - 1
           /\ Of(PopRoot(h).a) = Of(h.a) \ {h.a[1]}
<1> DEFINE a == H!WithoutRoot(h.a)
           c == Shrink(h.cap, Len(h.a) - 1)
<1>1. /\ h.a \in Seq(Entries) /\ h.cap \in Nat /\ Distinct(h.a) /\ H!IsHeap(h.a)
      /\ Len(h.a) <= h.cap
  BY DEF Sound, Heaps
<1>2. Len(h.a) \in Nat /\ Len(h.a) > 0
  BY <1>1, RootOf
<1>3. /\ a \in Seq(Entries) /\ Len(a) = Len(h.a) - 1 /\ H!IsHeap(a)
      /\ Distinct(a) /\ Of(a) = Of(h.a) \ {h.a[1]}
  BY <1>1, WithoutRootOf
<1>4. c \in Nat /\ Len(h.a) - 1 <= c
  <2>1. Len(h.a) - 1 \in Nat /\ Len(h.a) - 1 <= h.cap
    BY <1>1, <1>2
  <2> QED
    BY <1>1, <2>1, ShrinkFits
<1>5. PopRoot(h) = [a |-> a, cap |-> c]
  BY DEF PopRoot
<1> HIDE DEF a, c
<1> QED
  BY <1>3, <1>4, <1>5 DEF Sound, Heaps

(* ntt_timer_heap_drop_dead_root, one root after the other: the heaps it   *)
(* goes through exist.                                                     *)
Popping(h) == CHOOSE s : s = [n \in 0..Len(h.a) |-> IF n = 0 THEN h ELSE PopRoot(s[n - 1])]

LEMMA PoppedIsPopping ==
    ASSUME NEW h
    PROVE  Popped(h) = Popping(h)
  BY DEF Popped, Popping

LEMMA PoppingExists ==
    ASSUME NEW h, Sound(h)
    PROVE  Popping(h) = [n \in 0..Len(h.a) |-> IF n = 0 THEN h ELSE PopRoot(Popping(h)[n - 1])]
<1> DEFINE m == Len(h.a)
           X == {v \in Heaps : Sound(v)}
           D == 0..m
           C == 1..m
           rank == [n \in D |-> n]
           next == [n \in C |-> n - 1]
           step(v) == IF v.a = <<>> THEN v ELSE PopRoot(v)
           G == [n \in C |-> [v \in X |-> step(v)]]
           base == [n \in D |-> h]
<1>0. m \in Nat /\ h \in X
  BY LenProperties DEF Sound, Heaps
<1>1. \A n \in C : n \in D /\ n - 1 \in D /\ n # 0
  BY <1>0
<1>2. next \in [C -> D] /\ rank \in [D -> 0..m] /\ C \in SUBSET D
  BY <1>0, <1>1
<1>3. \A n \in C : rank[next[n]] < rank[n]
  BY <1>0, <1>1
<1>4. ASSUME NEW v \in X PROVE step(v) \in X
  <2>1. CASE v.a = <<>>
    BY <2>1
  <2>2. CASE v.a # <<>>
    <3>1. Sound(PopRoot(v))
      BY <2>2, PopRootSound
    <3> QED
      BY <2>2, <3>1 DEF Sound
  <2> QED
    BY <2>1, <2>2
<1>5. G \in [C -> [X -> X]]
  <2> HIDE DEF X, step
  <2> QED
    BY <1>4
<1>6. base \in [D -> X]
  BY <1>0
<1>7. PICK f \in [D -> X] : \A n \in D : f[n] = IF n \in C THEN G[n][f[next[n]]] ELSE base[n]
  <2>1. P!Descends(D, X, m, rank, C, next, G, base)
    <3> HIDE DEF m, G, X, base
    <3> QED
      BY <1>0, <1>2, <1>3, <1>5, <1>6 DEF P!Descends
  <2>2. P!Solved(D, X, C, next, G, base)
    <3> HIDE DEF D, X, C, next, G, base, rank, m
    <3> QED
      BY <2>1, P!Recursion
  <2> QED
    BY <2>2 DEF P!Solved
<1>8. ASSUME NEW n \in C PROVE f[n - 1] \in X /\ f[n] = step(f[n - 1])
  <2>1. next[n] = n - 1 /\ f[n - 1] \in X
    BY <1>1
  <2>2. G[n][f[n - 1]] = step(f[n - 1])
    <3> HIDE DEF X, step
    <3> QED
      BY <2>1
  <2> HIDE DEF C, X, step, G, base, next
  <2> QED
    BY <1>1, <1>7, <2>1, <2>2
<1>9. f[0] = h
  <2>1. 0 \in D /\ 0 \notin C
    BY <1>0
  <2>2. f[0] = base[0]
    BY <1>7, <2>1, Zenon
  <2> QED
    BY <2>1, <2>2
<1> DEFINE S == {n \in D : Len(f[n].a) = m - n}
<1>10. \A n \in 0..m : n \in S
  <2>1. 0 \in S
    BY <1>0, <1>9
  <2>2. ASSUME NEW n \in 0..m, n \in S, n < m PROVE n + 1 \in S
    <3>1. n + 1 \in C /\ (n + 1) - 1 = n /\ n + 1 \in D
      BY <1>0, <2>2
    <3>2. f[n] \in X /\ f[n + 1] = step(f[n]) /\ Len(f[n].a) = m - n
      BY <1>8, <2>2, <3>1
    <3>3. f[n].a # <<>>
      BY <1>0, <2>2, <3>2, EmptySeq
    <3>4. Len(f[n + 1].a) = Len(f[n].a) - 1
      BY <3>2, <3>3, PopRootSound
    <3>5. Len(f[n + 1].a) = m - (n + 1)
      BY <1>0, <3>2, <3>4
    <3> QED
      BY <3>1, <3>5
  <2> HIDE DEF S, m
  <2> QED
    BY <1>0, <2>1, <2>2, P!UpTo
<1>11. ASSUME NEW n \in D PROVE f[n] = IF n = 0 THEN h ELSE PopRoot(f[n - 1])
  <2>1. CASE n = 0
    BY <1>9, <2>1
  <2>2. CASE n # 0
    <3>1. n \in C /\ n - 1 \in D
      BY <1>0, <2>2
    <3>2. Len(f[n - 1].a) = m - (n - 1)
      BY <1>10, <3>1
    <3>3. f[n - 1].a # <<>>
      BY <1>0, <3>1, <3>2, EmptySeq
    <3> QED
      BY <1>8, <2>2, <3>1, <3>3
  <2> QED
    BY <2>1, <2>2
<1>12. f = [n \in 0..Len(h.a) |-> IF n = 0 THEN h ELSE PopRoot(f[n - 1])]
  BY <1>11
<1> QED
  BY <1>12, Zenon DEF Popping

(* Places and entries, slots and the free list, counted one for the other. *)
LEMMA OneForOne ==
    ASSUME NEW S, NEW T, IsFiniteSet(S), NEW f \in [S -> T],
           \A x, y \in S : f[x] = f[y] => x = y,
           \A t \in T : \E x \in S : f[x] = t
    PROVE  IsFiniteSet(T) /\ Cardinality(T) = Cardinality(S)
<1>1. f \in Bijection(S, T)
  BY DEF Bijection, Injection, Surjection, IsInjective
<1> QED
  BY <1>1, FS_Bijection DEF ExistsBijection

LEMMA PlacesFinite ==
    ASSUME NEW n \in Nat
    PROVE  IsFiniteSet(1..n) /\ Cardinality(1..n) = n
  BY FS_Interval

LEMMA OfFinite ==
    ASSUME NEW h \in Seq(Entries)
    PROVE  IsFiniteSet(Of(h))
<1> DEFINE f == [p \in 1..Len(h) |-> h[p]]
<1>1. IsFiniteSet(1..Len(h))
  BY LenProperties, PlacesFinite
<1>2. f \in [1..Len(h) -> Of(h)] /\ \A x \in Of(h) : \E p \in 1..Len(h) : f[p] = x
  BY DEF Of
<1>3. f \in Surjection(1..Len(h), Of(h))
  BY <1>2 DEF Surjection
<1> QED
  BY <1>1, <1>3, FS_Surjection

LEMMA DeadFinite ==
    ASSUME NEW h \in Seq(Entries), NEW ss
    PROVE  IsFiniteSet(DeadIn(h, ss)) /\ Cardinality(DeadIn(h, ss)) \in Nat
<1>1. DeadIn(h, ss) \in SUBSET Of(h)
  BY DEF DeadIn
<1> QED
  BY <1>1, OfFinite, FS_Subset, FS_CardinalityType

(* The heaps ntt_timer_heap_drop_dead_root goes through while the roots    *)
(* are dead: one dead entry less at each, and the live ones stay.          *)
LEMMA PoppedSound ==
    ASSUME NEW h, Sound(h), NEW n \in 0..Len(h.a),
           \A m \in 0..(n - 1) : ~Live(Popped(h)[m].a[1])
    PROVE  /\ Sound(Popped(h)[n])
           /\ Of(Popped(h)[n].a) \subseteq Of(h.a)
           /\ \A x \in Of(h.a) : Live(x) => x \in Of(Popped(h)[n].a)
           /\ Cardinality(DeadIn(Popped(h)[n].a, slots)) = Cardinality(DeadIn(h.a, slots)) - n
<1> DEFINE u == Popped(h)
           w == Len(h.a)
           Good(k) == /\ Sound(u[k]) /\ Len(u[k].a) = w - k
                      /\ Of(u[k].a) \subseteq Of(h.a)
                      /\ \A x \in Of(h.a) : Live(x) => x \in Of(u[k].a)
                      /\ Cardinality(DeadIn(u[k].a, slots)) = Cardinality(DeadIn(h.a, slots)) - k
           S == {k \in 0..n : Good(k)}
<1>0. w \in Nat /\ n \in Nat /\ h.a \in Seq(Entries) /\ Cardinality(DeadIn(h.a, slots)) \in Nat
  BY LenProperties, DeadFinite DEF Sound, Heaps
<1>1. \A k \in 0..w : u[k] = IF k = 0 THEN h ELSE PopRoot(u[k - 1])
  <2>1. u = [k \in 0..w |-> IF k = 0 THEN h ELSE PopRoot(u[k - 1])]
    BY PoppedIsPopping, PoppingExists
  <2> HIDE DEF u
  <2> QED
    BY <2>1
<1>d. \A m \in 0..(n - 1) : ~Live(u[m].a[1])
  OBVIOUS
<1> HIDE DEF u
<1>2. 0 \in S
  BY <1>0, <1>1
<1>3. ASSUME NEW k \in 0..n, k \in S, k < n PROVE k + 1 \in S
  <2>1. k + 1 \in 0..w /\ (k + 1) - 1 = k /\ k + 1 # 0 /\ k \in 0..(n - 1) /\ k + 1 \in 0..n
    BY <1>0, <1>3
  <2>2. u[k + 1] = PopRoot(u[k])
    BY <1>1, <2>1
  <2>3. Good(k) /\ u[k].a # <<>> /\ u[k].a \in Seq(Entries)
    <3>1. Good(k)
      BY <1>3
    <3>2. u[k].a \in Seq(Entries)
      BY <3>1 DEF Sound, Heaps
    <3>3. Len(u[k].a) # 0
      BY <1>0, <1>3, <3>1
    <3> QED
      BY <3>1, <3>2, <3>3, EmptySeq
  <2> DEFINE x == u[k].a[1]
             d == DeadIn(u[k].a, slots)
  <2>4. /\ Sound(u[k + 1]) /\ Len(u[k + 1].a) = Len(u[k].a) - 1
        /\ Of(u[k + 1].a) = Of(u[k].a) \ {x}
    BY <2>2, <2>3, PopRootSound
  <2>5. x \in Of(u[k].a) /\ ~Live(x)
    BY <1>d, <2>1, <2>3, RootOf
  <2>6. DeadIn(u[k + 1].a, slots) = d \ {x} /\ x \in d
    BY <2>4, <2>5 DEF DeadIn, Live
  <2>7. Cardinality(d \ {x}) = Cardinality(d) - 1
    BY <2>3, <2>6, DeadFinite, FS_RemoveElement
  <2>8. Cardinality(DeadIn(u[k + 1].a, slots)) = Cardinality(DeadIn(h.a, slots)) - (k + 1)
    BY <1>0, <2>3, <2>6, <2>7
  <2>9. Len(u[k + 1].a) = w - (k + 1)
    BY <1>0, <2>3, <2>4
  <2>10. /\ Of(u[k + 1].a) \subseteq Of(h.a)
         /\ \A y \in Of(h.a) : Live(y) => y \in Of(u[k + 1].a)
    BY <2>3, <2>4, <2>5
  <2> QED
    BY <2>1, <2>4, <2>8, <2>9, <2>10
<1>4. \A k \in 0..n : k \in S
  <2> HIDE DEF S, w
  <2> QED
    BY <1>0, <1>2, <1>3, P!UpTo
<1>5. Good(n)
  BY <1>0, <1>4
<1> QED
  BY <1>5 DEF u

LEMMA DeadRootsDead ==
    ASSUME NEW h, Sound(h)
    PROVE  /\ DeadRoots(h) \in 0..Len(h.a)
           /\ \A m \in 0..(DeadRoots(h) - 1) : ~Live(Popped(h)[m].a[1])
<1> DEFINE w == Len(h.a)
           T == {n \in 0..w : n = w \/ Live(Popped(h)[n].a[1])}
<1>0. w \in Nat
  BY LenProperties DEF Sound, Heaps
<1>1. T \subseteq Nat /\ w \in T
  BY <1>0
<1>2. PICK n \in T : \A y \in T : n <= y
  <2> HIDE DEF T, w
  <2> QED
    BY <1>1, P!Least
<1>3. \A m \in 0..(n - 1) : ~Live(Popped(h)[m].a[1])
  <2>1. \A m \in 0..(n - 1) : m \in 0..w /\ ~(n <= m)
    BY <1>0
  <2> QED
    BY <1>2, <2>1
<1>4. \E k \in 0..Len(h.a) : /\ k = Len(h.a) \/ Live(Popped(h)[k].a[1])
                             /\ \A m \in 0..(k - 1) : ~Live(Popped(h)[m].a[1])
  BY <1>2, <1>3
<1> QED
  BY <1>4, Zenon DEF DeadRoots

(* ntt_timer_heap_compact.                                                 *)
LEMMA CompactedSound ==
    ASSUME Sound(heap)
    PROVE  /\ Sound(Compacted)
           /\ Of(Compacted.a) = {x \in Of(heap.a) : Live(x)}
<1> DEFINE h == heap.a
           L == LivePlaces
           k == H!Kept(h, L)
           g == H!Heapify(k)
           c == Shrink(heap.cap, Len(k))
<1>1. /\ h \in Seq(Entries) /\ heap.cap \in Nat /\ Distinct(h) /\ Len(h) <= heap.cap
      /\ Len(h) \in Nat
  BY LenProperties DEF Sound, Heaps
<1>2. Compacted = [a |-> g, cap |-> c]
  BY DEF Compacted
<1>3. L \in SUBSET (1..Len(h)) /\ \A q \in L : Live(h[q])
  BY DEF LivePlaces
<1>4. \A q \in 1..Len(h) : Live(h[q]) => q \in L
  BY DEF LivePlaces
<1> HIDE DEF h, L
<1>5. P!Kept(h, L) = k
  BY DEF P!Kept, H!Kept
<1>6. /\ P!Kept(h, L) \in Seq(Entries) /\ P!Selects(P!Kept(h, L), h, L)
      /\ Len(P!Kept(h, L)) <= Len(h)
  BY <1>1, <1>3, P!KeptSelects
<1> HIDE DEF k
<1>7. P!Heapify(k) = g /\ (P!IsHeap(g) <=> H!IsHeap(g))
  BY DEF P!Heapify, H!Heapify, P!SiftDown, H!SiftDown, P!SmallerChild, H!SmallerChild,
         P!IsHeap, H!IsHeap
<1>8. k \in Seq(Entries) /\ P!Selects(k, h, L) /\ Len(k) <= Len(h) /\ Len(k) \in Nat
  BY <1>5, <1>6, LenProperties
<1>9. P!Heapify(k) \in Seq(Entries) /\ P!Rearranges(P!Heapify(k), k) /\ P!IsHeap(P!Heapify(k))
  BY <1>8, EntriesOrdered, P!HeapifyBuilds
<1> HIDE DEF g
<1>10. g \in Seq(Entries) /\ P!Rearranges(g, k) /\ H!IsHeap(g)
  BY <1>7, <1>9
<1>11. Of(g) = Of(k) /\ (Distinct(k) => Distinct(g)) /\ Len(g) = Len(k)
  BY <1>10, RearrangedOf DEF P!Rearranges
<1>12. PICK f \in [1..Len(k) -> L] :
          /\ \A i, j \in 1..Len(k) : f[i] = f[j] => i = j
          /\ \A q \in L : \E i \in 1..Len(k) : f[i] = q
          /\ \A i \in 1..Len(k) : k[i] = h[f[i]]
  BY <1>8 DEF P!Selects
<1>13. Distinct(k)
  <2>1. \A i \in 1..Len(k) : f[i] \in 1..Len(h)
    BY <1>3, <1>12
  <2> QED
    BY <1>1, <1>12, <2>1 DEF Distinct
<1>14. ASSUME NEW x PROVE x \in Of(k) <=> x \in Of(h) /\ Live(x)
  <2>1. ASSUME x \in Of(k) PROVE x \in Of(h) /\ Live(x)
    <3>1. PICK i \in 1..Len(k) : x = k[i]
      BY <2>1 DEF Of
    <3>2. f[i] \in 1..Len(h) /\ h[f[i]] = x /\ Live(x)
      BY <1>3, <1>12, <3>1
    <3> QED
      BY <3>2, Zenon DEF Of
  <2>2. ASSUME x \in Of(h), Live(x) PROVE x \in Of(k)
    <3>1. PICK q \in 1..Len(h) : x = h[q]
      BY <2>2 DEF Of
    <3>2. PICK i \in 1..Len(k) : f[i] = q
      BY <1>4, <1>12, <2>2, <3>1
    <3>3. k[i] = x
      BY <1>12, <3>1, <3>2
    <3> QED
      BY <3>3, Zenon DEF Of
  <2> QED
    BY <2>1, <2>2
<1>15. c \in Nat /\ Len(k) <= c
  <2>1. Len(k) <= heap.cap
    BY <1>1, <1>8
  <2> QED
    BY <1>1, <1>8, <2>1, ShrinkFits
<1> HIDE DEF c
<1>16. Sound(Compacted) /\ Of(Compacted.a) = Of(k)
  BY <1>2, <1>10, <1>11, <1>13, <1>15 DEF Sound, Heaps
<1> QED
  BY <1>14, <1>16 DEF h

-----------------------------------------------------------------------------
(* What the invariant says of slots, entries and tags.                     *)
LEMMA Parity ==
    /\ Odd(1)
    /\ \A v \in Nat : /\ Odd(v + 1) <=> ~Odd(v)
                      /\ v % 2 = 0 <=> ~Odd(v)
  BY DEF Odd

Slot == [task : Ids \cup {None}, version : 1..(2 * MaxTimers)]

LEMMA Numbers ==
    /\ MaxTimers \in Nat /\ MaxDepth \in Nat /\ Deadlines \subseteq Nat \ {0}
    /\ Ids \subseteq Nat /\ \A t \in Nat : t < MaxTimers <=> t \in Ids
  BY TimerBounds DEF Ids

LEMMA EntryNumbers ==
    ASSUME NEW x \in Entries
    PROVE  /\ x.seq \in Nat /\ x.seq \in Ids /\ x.index \in Nat /\ x.version \in Nat
           /\ x.deadline \in Nat /\ x.deadline \in Deadlines /\ x.deadline > 0
<1>1. /\ x.seq \in Ids /\ x.deadline \in Deadlines /\ x.index \in 1..MaxTimers
      /\ x.version \in 1..(2 * MaxTimers)
  BY DEF Entries
<1>2. x.index \in Nat /\ x.version \in Nat
  BY <1>1, Numbers
<1>3. x.seq \in Nat /\ x.deadline \in Nat \ {0}
  BY <1>1, Numbers
<1> QED
  BY <1>1, <1>2, <1>3

LEMMA Lengths ==
    ASSUME TypeOK
    PROVE  /\ seq_next \in Nat /\ seq_next <= MaxTimers /\ Len(tags) = seq_next
           /\ Len(slots) \in Nat /\ Len(free) \in Nat /\ Len(stack) \in Nat
           /\ tombstones \in Nat /\ slot_cap \in Nat
           /\ stack # <<>> <=> Len(stack) > 0
           /\ free # <<>> <=> Len(free) > 0
<1>1. seq_next \in 0..MaxTimers /\ Len(tags) = seq_next /\ tombstones \in Nat /\ slot_cap \in Nat
  BY DEF TypeOK
<1>2. Len(slots) \in Nat /\ Len(free) \in Nat /\ Len(stack) \in Nat
  BY LenProperties DEF TypeOK
<1>3. (stack # <<>> <=> Len(stack) > 0) /\ (free # <<>> <=> Len(free) > 0)
  BY EmptySeq DEF TypeOK
<1> QED
  BY <1>1, <1>2, <1>3, Numbers

LEMMA SlotNumbers ==
    ASSUME TypeOK, NEW i \in 1..Len(slots)
    PROVE  slots[i] \in Slot /\ slots[i].version \in Nat /\ slots[i].version >= 1
<1>1. slots \in Seq(Slot)
  BY DEF TypeOK, Slot
<1>2. slots[i] \in Slot
  BY <1>1, ElementOfSeq
<1> QED
  BY <1>2, Numbers DEF Slot

(* Two live entries of a slot are the same entry.                          *)
LEMMA OneLive ==
    ASSUME Inv, NEW x \in Of(heap.a), NEW y \in Of(heap.a), Live(x), Live(y),
           x.index = y.index
    PROVE  x = y
<1>1. heap.a \in Seq(Entries) /\ Distinct(heap.a)
  BY DEF Inv, HeapOK, Sound, Heaps
<1>2. x \in Entries /\ y \in Entries
  BY <1>1, OfEntries
<1>3. EntryFine(x) /\ EntryFine(y)
  BY DEF Inv, EntriesOK
<1>4. x.version = y.version
  BY DEF Live, LiveIn
<1>5. x.seq + 1 \in 1..Len(tags) /\ y.seq + 1 \in 1..Len(tags)
  BY <1>2, <1>3, EntryNumbers, Lengths DEF EntryFine, Inv
<1>6. x.seq + 1 = y.seq + 1
  <2>1. /\ tags[x.seq + 1].index = x.index /\ tags[x.seq + 1].version = x.version
        /\ tags[y.seq + 1].index = y.index /\ tags[y.seq + 1].version = y.version
    BY <1>3 DEF EntryFine
  <2> QED
    BY <1>4, <1>5, <2>1 DEF Inv, TagsOK
<1>7. x.seq = y.seq
  BY <1>2, <1>6, EntryNumbers
<1> QED
  BY <1>1, <1>7 DEF Distinct, Of

(* The slot of a live entry is occupied by its timer.                      *)
LEMMA LiveSlot ==
    ASSUME Inv, NEW x \in Of(heap.a), Live(x)
    PROVE  /\ x.index \in 1..Len(slots) /\ Odd(slots[x.index].version)
           /\ slots[x.index].task = x.seq
           /\ slots[x.index].version <= 2 * seq_next - 1
<1>1. EntryFine(x)
  BY DEF Inv, EntriesOK
<1>2. x.index \in 1..Len(slots) /\ Odd(slots[x.index].version)
  BY <1>1 DEF EntryFine, Live, LiveIn
<1>3. Occupied(x.index)
  BY <1>2 DEF Inv, SlotsOK
<1>4. PICK y \in Of(heap.a) : /\ y.index = x.index /\ y.version = slots[x.index].version
                              /\ y.seq = slots[x.index].task
  BY <1>3 DEF Occupied
<1>5. y = x
  <2>1. Live(y)
    BY <1>4 DEF Live, LiveIn
  <2> QED
    BY <1>4, <2>1, OneLive
<1> QED
  BY <1>2, <1>3, <1>4, <1>5 DEF Occupied

(* The tag of a timer is live while the timer has its entry.               *)
LEMMA LiveTag ==
    ASSUME Inv, ~Gone, NEW t \in Ids, t < seq_next, TagLive(t)
    PROVE  \E x \in Of(heap.a) : Live(x) /\ x.seq = t /\ x.index = tags[t + 1].index
<1> DEFINE i == tags[t + 1].index
<1>1. seq_next \in Nat /\ Len(tags) = seq_next /\ t \in Nat
  BY Numbers DEF Inv, TypeOK
<1>2. t + 1 \in 1..Len(tags)
  BY <1>1
<1>3. i \in 1..Len(slots) /\ Odd(tags[t + 1].version)
  BY <1>2 DEF Inv, TagsOK
<1>4. Occupied(i)
  BY <1>3 DEF Inv, SlotsOK, TagLive
<1>5. PICK x \in Of(heap.a) : x.index = i /\ x.version = slots[i].version
  BY <1>4 DEF Occupied
<1>6. EntryFine(x) /\ x \in Entries
  BY OfEntries DEF Inv, EntriesOK, HeapOK, Sound, Heaps
<1>7. x.seq + 1 \in 1..Len(tags) /\ x.seq \in Nat
  BY <1>1, <1>6, EntryNumbers DEF EntryFine
<1>8. x.seq + 1 = t + 1
  BY <1>2, <1>5, <1>6, <1>7 DEF EntryFine, Inv, TagsOK, TagLive
<1>9. x.seq = t /\ Live(x)
  BY <1>1, <1>5, <1>7, <1>8 DEF Live, LiveIn
<1> QED
  BY <1>5, <1>9

(* Where the calls underway are: only the one at the bottom is a pass.     *)
LEMMA BottomFrame ==
    ASSUME Inv, At \in {"pass", "run", "drop"}
    PROVE  Len(stack) = 1 /\ stack # <<>> /\ ~Gone /\ Top = stack[1] /\ stack[1].now # 0
<1>1. stack # <<>> /\ Top.at \in {"pass", "run", "drop"}
  BY DEF At
<1>2. Len(stack) \in Nat /\ Len(stack) > 0
  BY <1>1, Lengths DEF Inv
<1>3. Len(stack) = 1
  <2>1. \A n \in Nat : n > 0 => n = 1 \/ n \in 2..n
    OBVIOUS
  <2>2. Len(stack) \in 2..Len(stack) => Top.at = "cancel"
    BY DEF Inv, StackOK, Top
  <2> QED
    BY <1>1, <1>2, <2>1, <2>2
<1> QED
  BY <1>1, <1>3 DEF Inv, StackOK, Top, Gone

(* No call once the heap is released.                                      *)
LEMMA GoneStops ==
    ASSUME Inv, Gone
    PROVE  Len(stack) = 1 /\ At = "gone"
<1>1. Len(stack) \in Nat /\ Len(stack) > 0 /\ stack # <<>> /\ stack[1].at = "gone"
  BY Lengths DEF Inv, Gone
<1>2. ~(Len(stack) > 1)
  BY <1>1 DEF Inv, StackOK
<1>3. Len(stack) = 1
  BY <1>1, <1>2
<1> QED
  BY <1>1, <1>3 DEF At, Top

-----------------------------------------------------------------------------
(* The invariant holds initially.                                          *)
LEMMA InitInv == Init => Inv
<1> SUFFICES ASSUME Init PROVE Inv
  OBVIOUS
<1> USE DEF Init
<1>1. heap.a = <<>> /\ heap.cap = 0 /\ Len(heap.a) = 0 /\ Len(stack) = 0 /\ ~Gone
  BY DEF Gone
<1>2. Of(heap.a) = {}
  BY <1>1 DEF Of
<1>3. TypeOK
  <2>1. heap.a \in Seq(Entries) /\ heap.cap \in Nat
    BY <1>1
  <2>2. seq_next \in 0..MaxTimers
    BY Numbers
  <2>3. destroyed \in [Ids -> Nat]
    OBVIOUS
  <2> QED
    BY <2>1, <2>2, <2>3 DEF TypeOK
<1>4. HeapOK
  <2>1. heap \in Heaps
    BY DEF Heaps
  <2>2. Distinct(heap.a) /\ H!IsHeap(heap.a)
    BY <1>1 DEF Distinct, H!IsHeap
  <2> QED
    BY <1>1, <2>1, <2>2 DEF HeapOK, Sound
<1>5. EntriesOK
  BY <1>2 DEF EntriesOK
<1>6. TagsOK
  BY <1>1 DEF TagsOK
<1>7. SlotsOK /\ FreeOK
  BY DEF SlotsOK, FreeOK
<1>8. StackOK
  BY <1>1 DEF StackOK
<1>9. DeadOK
  <2>1. DeadIn(heap.a, slots) = {}
    BY <1>2 DEF DeadIn
  <2> QED
    BY <2>1, FS_EmptySet DEF DeadOK
<1>10. DestroyedOK
  <2>1. \A t : ~Runs(stack, t)
    BY <1>1 DEF Runs
  <2>2. \A t \in Ids : ~(t < seq_next) /\ destroyed[t] = 0
    BY Numbers
  <2> QED
    BY <2>1, <2>2 DEF DestroyedOK
<1> QED
  BY <1>3, <1>4, <1>5, <1>6, <1>7, <1>8, <1>9, <1>10 DEF Inv

(* The calls underway: a frame more, a frame less, another bottom frame.   *)
Frames == [at : {"pass", "run", "drop", "cancel", "gone"},
           now : Deadlines \cup {0}, task : Ids \cup {None}]

LEMMA StackType == TypeOK => stack \in Seq(Frames)
  BY DEF TypeOK, Frames

(* A step that only takes dead entries out of the array.                   *)
LEMMA LosesDead ==
    ASSUME Inv, Sound(heap'), Of(heap'.a) \subseteq Of(heap.a),
           \A x \in Of(heap.a) : Live(x) => x \in Of(heap'.a),
           tombstones' = Cardinality(DeadIn(heap'.a, slots)),
           UNCHANGED <<slots, slot_cap, free, seq_next, tags>>, Gone' <=> Gone
    PROVE  /\ HeapOK' /\ EntriesOK' /\ TagsOK' /\ SlotsOK' /\ FreeOK' /\ DeadOK'
           /\ \A x \in Of(heap'.a) : Live(x)' <=> Live(x)
<1>1. HeapOK'
  BY DEF HeapOK, Inv
<1>2. EntriesOK'
  BY DEF EntriesOK, EntryFine, Inv
<1>3. TagsOK'
  BY DEF TagsOK, Inv
<1>4. FreeOK'
  BY DEF FreeOK, Inv
<1>5. DeadOK'
  BY DEF DeadOK
<1>6. \A x : Live(x)' <=> Live(x)
  BY DEF Live, LiveIn
<1>7. SlotsOK'
  <2>1. ASSUME NEW i \in 1..Len(slots) PROVE IF Odd(slots[i].version) THEN Occupied(i)' ELSE Vacant(i)'
    <3>1. CASE Odd(slots[i].version)
      <4>1. Occupied(i)
        BY <3>1 DEF Inv, SlotsOK
      <4>2. PICK x \in Of(heap.a) : /\ x.index = i /\ x.version = slots[i].version
                                    /\ x.seq = slots[i].task
        BY <4>1 DEF Occupied
      <4>3. x \in Of(heap'.a)
        BY <4>2 DEF Live, LiveIn
      <4> QED
        BY <3>1, <4>1, <4>2, <4>3 DEF Occupied
    <3>2. CASE ~Odd(slots[i].version)
      <4>1. Vacant(i)
        BY <3>2 DEF Inv, SlotsOK
      <4> QED
        BY <3>2, <4>1 DEF Vacant
    <3> QED
      BY <3>1, <3>2
  <2> QED
    BY <2>1 DEF SlotsOK, Inv
<1> QED
  BY <1>1, <1>2, <1>3, <1>4, <1>5, <1>6, <1>7

LEMMA SameWaits ==
    ASSUME Inv, UNCHANGED <<destroyed, seq_next>>,
           \A t : Armed(t)' <=> Armed(t), \A t : Runs(stack, t)' <=> Runs(stack, t)
    PROVE  DestroyedOK'
  BY DEF Inv, DestroyedOK

LEMMA SameArmed ==
    ASSUME Of(heap'.a) \subseteq Of(heap.a), slots' = slots,
           \A x \in Of(heap.a) : Live(x) => x \in Of(heap'.a)
    PROVE  \A t : Armed(t)' <=> Armed(t)
<1>1. \A x : Live(x)' <=> Live(x)
  BY DEF Live, LiveIn
<1> QED
  BY <1>1 DEF Armed

(* The steps that drop dead entries drop no other, and count them.         *)
DropsOnlyDead ==
    /\ Sound(heap') /\ Of(heap'.a) \subseteq Of(heap.a)
    /\ \A x \in Of(heap.a) : Live(x) => x \in Of(heap'.a)
    /\ tombstones' = Cardinality(DeadIn(heap'.a, slots))

LEMMA PeekDrops == Inv /\ Peek => DropsOnlyDead
<1> SUFFICES ASSUME Inv, Peek PROVE DropsOnlyDead
  OBVIOUS
<1> DEFINE n == DeadRoots(heap)
<1>1. heap' = Popped(heap)[n] /\ tombstones' = tombstones - n
  BY DEF Peek
<1>2. Sound(heap) /\ tombstones = Cardinality(DeadIn(heap.a, slots))
  BY DEF Inv, HeapOK, DeadOK
<1>3. n \in 0..Len(heap.a) /\ \A m \in 0..(n - 1) : ~Live(Popped(heap)[m].a[1])
  BY <1>2, DeadRootsDead
<1> HIDE DEF n
<1> QED
  BY <1>1, <1>2, <1>3, PoppedSound DEF DropsOnlyDead

LEMMA TombstoneDrops == Inv /\ SvcDropsTombstone => DropsOnlyDead
<1> SUFFICES ASSUME Inv, SvcDropsTombstone PROVE DropsOnlyDead
  OBVIOUS
<1> DEFINE x == heap.a[1]
           d == DeadIn(heap.a, slots)
<1>1. heap' = PopRoot(heap) /\ tombstones' = tombstones - 1 /\ heap.a # <<>> /\ ~Live(x)
  BY DEF SvcDropsTombstone, RootDue
<1>2. Sound(heap) /\ tombstones = Cardinality(d) /\ heap.a \in Seq(Entries)
  BY DEF Inv, HeapOK, DeadOK, Sound, Heaps
<1>3. Sound(heap') /\ Of(heap'.a) = Of(heap.a) \ {x}
  BY <1>1, <1>2, PopRootSound
<1>4. DeadIn(heap'.a, slots) = d \ {x} /\ x \in d
  BY <1>1, <1>2, <1>3, RootOf DEF DeadIn, Live
<1>5. Cardinality(d \ {x}) = Cardinality(d) - 1
  BY <1>2, <1>4, DeadFinite, FS_RemoveElement
<1>6. tombstones' = Cardinality(DeadIn(heap'.a, slots))
  BY <1>1, <1>2, <1>4, <1>5
<1> QED
  BY <1>1, <1>3, <1>6 DEF DropsOnlyDead

LEMMA CompactDrops == Inv /\ CancelReturns => DropsOnlyDead
<1> SUFFICES ASSUME Inv, CancelReturns PROVE DropsOnlyDead
  OBVIOUS
<1>1. Sound(heap) /\ tombstones = Cardinality(DeadIn(heap.a, slots))
  BY DEF Inv, HeapOK, DeadOK
<1>2. CASE MustCompact
  <2>1. heap' = Compacted /\ tombstones' = 0
    BY <1>2 DEF CancelReturns
  <2>2. Sound(heap') /\ Of(heap'.a) = {x \in Of(heap.a) : Live(x)}
    BY <1>1, <2>1, CompactedSound
  <2>3. DeadIn(heap'.a, slots) = {}
    BY <2>2 DEF DeadIn, Live
  <2> QED
    BY <2>1, <2>2, <2>3, FS_EmptySet DEF DropsOnlyDead
<1>3. CASE ~MustCompact
  BY <1>1, <1>3 DEF CancelReturns, DropsOnlyDead
<1> QED
  BY <1>2, <1>3

LEMMA PeekInv == Inv /\ Peek => Inv'
<1> SUFFICES ASSUME Inv, Peek PROVE Inv'
  OBVIOUS
<1>1. UNCHANGED <<slots, slot_cap, free, seq_next, stack, tags, fired, destroyed>>
  BY DEF Peek
<1>2. /\ Sound(heap') /\ Of(heap'.a) \subseteq Of(heap.a)
      /\ \A x \in Of(heap.a) : Live(x) => x \in Of(heap'.a)
      /\ tombstones' = Cardinality(DeadIn(heap'.a, slots))
  BY PeekDrops DEF DropsOnlyDead
<1>3. Gone' <=> Gone
  BY <1>1 DEF Gone
<1>4. HeapOK' /\ EntriesOK' /\ TagsOK' /\ SlotsOK' /\ FreeOK' /\ DeadOK'
  BY <1>1, <1>2, <1>3, LosesDead
<1>5. TypeOK'
  <2>1. heap'.a \in Seq(Entries) /\ heap'.cap \in Nat
    BY <1>2 DEF Sound, Heaps
  <2>2. tombstones' \in Nat
    BY <1>2, <2>1, DeadFinite
  <2> QED
    BY <1>1, <2>1, <2>2 DEF Inv, TypeOK
<1>6. StackOK'
  <2>1. ~Gone
    BY GoneStops DEF Peek, InApplication
  <2> QED
    BY <1>1, <1>3, <2>1 DEF Inv, StackOK
<1>7. DestroyedOK'
  <2>1. \A t : Armed(t)' <=> Armed(t)
    BY <1>1, <1>2, SameArmed
  <2>2. \A t : Runs(stack, t)' <=> Runs(stack, t)
    BY <1>1 DEF Runs
  <2> QED
    BY <1>1, <2>1, <2>2, SameWaits
<1> QED
  BY <1>4, <1>5, <1>6, <1>7 DEF Inv

LEMMA DropsTombstoneInv == Inv /\ SvcDropsTombstone => Inv'
<1> SUFFICES ASSUME Inv, SvcDropsTombstone PROVE Inv'
  OBVIOUS
<1>1. /\ UNCHANGED <<slots, slot_cap, free, seq_next, stack, tags, fired, destroyed>>
      /\ At = "pass"
  BY DEF SvcDropsTombstone, InPass
<1>2. Sound(heap')
  BY TombstoneDrops DEF DropsOnlyDead
<1>3. tombstones' = Cardinality(DeadIn(heap'.a, slots))
  BY TombstoneDrops DEF DropsOnlyDead
<1>4. Of(heap'.a) \subseteq Of(heap.a) /\ \A y \in Of(heap.a) : Live(y) => y \in Of(heap'.a)
  BY TombstoneDrops DEF DropsOnlyDead
<1>5. Gone' <=> Gone
  BY <1>1 DEF Gone
<1>6. HeapOK' /\ EntriesOK' /\ TagsOK' /\ SlotsOK' /\ FreeOK' /\ DeadOK'
  BY <1>1, <1>2, <1>3, <1>4, <1>5, LosesDead
<1>7. TypeOK'
  <2>1. heap'.a \in Seq(Entries) /\ heap'.cap \in Nat
    BY <1>2 DEF Sound, Heaps
  <2>2. tombstones' \in Nat
    BY <1>3, <2>1, DeadFinite
  <2> QED
    BY <1>1, <2>1, <2>2 DEF Inv, TypeOK
<1>8. StackOK'
  <2>1. ~Gone
    BY <1>1, GoneStops
  <2> QED
    BY <1>1, <1>5, <2>1 DEF Inv, StackOK
<1>9. DestroyedOK'
  <2>1. \A t : Armed(t)' <=> Armed(t)
    BY <1>1, <1>4, SameArmed
  <2>2. \A t : Runs(stack, t)' <=> Runs(stack, t)
    BY <1>1 DEF Runs
  <2> QED
    BY <1>1, <2>1, <2>2, SameWaits
<1> QED
  BY <1>6, <1>7, <1>8, <1>9 DEF Inv

(* A call returns that is not the run of a task.                           *)
LEMMA Returns ==
    ASSUME Inv, stack # <<>>, Top.at \notin {"run", "gone"}, Return, ~Gone
    PROVE  /\ stack' \in Seq(Frames) /\ StackOK' /\ ~Gone'
           /\ \A t : Runs(stack, t)' <=> Runs(stack, t)
<1>0. stack \in Seq(Frames) /\ Len(stack) \in Nat /\ Len(stack) > 0 /\ stack \in [1..Len(stack) -> Frames]
  BY StackType, Lengths, LenProperties DEF Inv
<1>1. /\ stack' \in Seq(Frames) /\ Len(stack') = Len(stack) - 1
      /\ \A k \in 1..Len(stack') : stack'[k] = stack[k]
  <2> DEFINE n == Len(stack) - 1
  <2>1. n \in Nat /\ \A i \in 1..n : i \in 1..Len(stack) /\ 1 + i - 1 = i
    BY <1>0
  <2>2. \A i \in 1..n : stack[i] \in Frames
    BY <1>0, <2>1
  <2>3. stack' = SubSeq(stack, 1, n)
    BY DEF Return
  <2> HIDE DEF n
  <2>4. /\ SubSeq(stack, 1, n) \in Seq(Frames)
        /\ Len(SubSeq(stack, 1, n)) = IF 1 <= n THEN n - 1 + 1 ELSE 0
        /\ \A i \in 1..(n - 1 + 1) : SubSeq(stack, 1, n)[i] = stack[1 + i - 1]
    BY <2>1, <2>2, SubSeqProperties
  <2>5. Len(SubSeq(stack, 1, n)) = n /\ n - 1 + 1 = n
    BY <2>1, <2>4
  <2> QED
    BY <2>1, <2>3, <2>4, <2>5 DEF n
<1>a. \A n \in Nat : n > 0 =>
         /\ \A k \in 1..(n - 1) : k \in 1..n /\ k # n
         /\ \A k \in 2..(n - 1) : k \in 2..n /\ k \in 1..(n - 1)
         /\ \A k \in 1..n : k = n \/ k \in 1..(n - 1)
  OBVIOUS
<1>2. \A k \in 1..Len(stack') : k \in 1..Len(stack) /\ k # Len(stack)
  BY <1>0, <1>1, <1>a
<1>3. \A k \in 1..Len(stack) : k = Len(stack) \/ k \in 1..Len(stack')
  BY <1>0, <1>1, <1>a
<1>4. \A t : Runs(stack, t)' <=> Runs(stack, t)
  BY <1>1, <1>2, <1>3 DEF Runs, Top
<1>5. stack' # <<>> => Len(stack') \in Nat /\ Len(stack') > 0 /\ stack'[1] = stack[1]
  BY <1>1, EmptySeq
<1>6. ~Gone'
  BY <1>5 DEF Gone
<1>7. StackOK'
  <2>1. \A k \in 2..Len(stack') : k \in 2..Len(stack) /\ stack'[k] = stack[k]
    BY <1>0, <1>1, <1>a
  <2>2. Len(stack') > 1 => Len(stack) > 1 /\ stack'[1] = stack[1]
    BY <1>0, <1>1
  <2> QED
    BY <1>5, <1>6, <2>1, <2>2 DEF Inv, StackOK
<1> QED
  BY <1>1, <1>4, <1>6, <1>7

LEMMA CancelReturnsInv == Inv /\ CancelReturns => Inv'
<1> SUFFICES ASSUME Inv, CancelReturns PROVE Inv'
  OBVIOUS
<1>1. /\ UNCHANGED <<slots, slot_cap, free, seq_next, tags, fired, destroyed>>
      /\ stack # <<>> /\ Top.at = "cancel" /\ Return /\ At = "cancel"
  BY DEF CancelReturns, At
<1>2. ~Gone
  BY <1>1, GoneStops
<1>3. /\ stack' \in Seq(Frames) /\ StackOK' /\ ~Gone'
      /\ \A t : Runs(stack, t)' <=> Runs(stack, t)
  BY <1>1, <1>2, Returns
<1>4. /\ Sound(heap') /\ Of(heap'.a) \subseteq Of(heap.a)
      /\ \A x \in Of(heap.a) : Live(x) => x \in Of(heap'.a)
      /\ tombstones' = Cardinality(DeadIn(heap'.a, slots))
  BY CompactDrops DEF DropsOnlyDead
<1>5. HeapOK' /\ EntriesOK' /\ TagsOK' /\ SlotsOK' /\ FreeOK' /\ DeadOK'
  BY <1>1, <1>2, <1>3, <1>4, LosesDead
<1>6. TypeOK'
  <2>1. heap'.a \in Seq(Entries) /\ heap'.cap \in Nat
    BY <1>4 DEF Sound, Heaps
  <2>2. tombstones' \in Nat
    BY <1>4, <2>1, DeadFinite
  <2> QED
    BY <1>1, <1>3, <2>1, <2>2 DEF Inv, TypeOK, Frames
<1>7. DestroyedOK'
  <2>1. \A t : Armed(t)' <=> Armed(t)
    BY <1>1, <1>4, SameArmed
  <2> QED
    BY <1>1, <1>3, <2>1, SameWaits
<1> QED
  BY <1>3, <1>5, <1>6, <1>7 DEF Inv

(* A step that leaves array, slots and tags alone.                         *)
LEMMA OnlyCalls ==
    ASSUME Inv, UNCHANGED <<heap, slots, slot_cap, free, tombstones, seq_next, tags>>,
           ~Gone, ~Gone'
    PROVE  /\ HeapOK' /\ EntriesOK' /\ TagsOK' /\ SlotsOK' /\ FreeOK' /\ DeadOK'
           /\ \A t : Armed(t)' <=> Armed(t)
<1>1. /\ Sound(heap') /\ Of(heap'.a) \subseteq Of(heap.a)
      /\ \A x \in Of(heap.a) : Live(x) => x \in Of(heap'.a)
      /\ tombstones' = Cardinality(DeadIn(heap'.a, slots))
  BY DEF Inv, HeapOK, DeadOK
<1>2. Gone' <=> Gone
  OBVIOUS
<1> QED
  BY <1>1, <1>2, LosesDead, SameArmed

LEMMA SvcEndsInv == Inv /\ SvcEnds => Inv'
<1> SUFFICES ASSUME Inv, SvcEnds PROVE Inv'
  OBVIOUS
<1>1. /\ UNCHANGED <<heap, slots, slot_cap, free, tombstones, seq_next, tags, fired, destroyed>>
      /\ stack # <<>> /\ Top.at = "pass" /\ Return /\ At = "pass"
  BY DEF SvcEnds, InPass, At
<1>2. ~Gone
  BY <1>1, GoneStops
<1>3. /\ stack' \in Seq(Frames) /\ StackOK' /\ ~Gone'
      /\ \A t : Runs(stack, t)' <=> Runs(stack, t)
  BY <1>1, <1>2, Returns
<1>4. HeapOK' /\ EntriesOK' /\ TagsOK' /\ SlotsOK' /\ FreeOK' /\ DeadOK' /\ DestroyedOK'
  BY <1>1, <1>2, <1>3, OnlyCalls, SameWaits
<1>5. TypeOK'
  BY <1>1, <1>3 DEF Inv, TypeOK, Frames
<1> QED
  BY <1>3, <1>4, <1>5 DEF Inv

(* A pass is the only call, in whatever state it is.                       *)
LEMMA PassAlone ==
    ASSUME stack' \in Seq(Frames), Len(stack') = 1, NEW f, stack'[1] = f,
           f.at \in {"pass", "run", "drop"}, f.now # 0
    PROVE  /\ StackOK' /\ ~Gone'
           /\ \A t : Runs(stack, t)' <=> f.at = "run" /\ f.task = t
<1>1. ~Gone'
  BY DEF Gone
<1>2. StackOK'
  <2>1. \A k \in 2..Len(stack') : FALSE
    OBVIOUS
  <2>2. ~(Len(stack') > 1)
    OBVIOUS
  <2> QED
    BY <1>1, <2>1, <2>2 DEF StackOK
<1>3. \A t : Runs(stack, t)' <=> f.at = "run" /\ f.task = t
  <2>1. \A k \in 1..Len(stack') : k = 1
    OBVIOUS
  <2>2. 1 \in 1..Len(stack')
    OBVIOUS
  <2> QED
    BY <2>1, <2>2 DEF Runs
<1> QED
  BY <1>1, <1>2, <1>3

LEMMA ContinuePass ==
    ASSUME Inv, At \in {"pass", "run", "drop"}, NEW at \in {"pass", "run", "drop"},
           NEW task \in Ids \cup {None}, Continue(at, task)
    PROVE  /\ stack' \in Seq(Frames) /\ Len(stack') = 1
           /\ stack'[1].now = stack[1].now
           /\ StackOK' /\ ~Gone'
           /\ \A t : Runs(stack, t)' <=> at = "run" /\ task = t
<1>1. stack \in Seq(Frames) /\ Len(stack) = 1 /\ stack[1].now # 0
  BY BottomFrame, StackType DEF Inv
<1>2. stack \in [1..1 -> Frames]
  BY <1>1, LenProperties
<1>3. stack' = [stack EXCEPT ![1].at = at, ![1].task = task]
  BY <1>1 DEF Continue
<1>4. stack' \in [1..1 -> Frames]
  BY <1>2, <1>3 DEF Frames
<1>5. stack'[1].at = at /\ stack'[1].now = stack[1].now /\ stack'[1].task = task
  BY <1>2, <1>3 DEF Frames
<1> DEFINE f == stack'[1]
<1>6. stack' \in Seq(Frames) /\ Len(stack') = 1
  <2>1. f \in Frames
    BY <1>4
  <2>2. stack' = [stack EXCEPT ![1] = f]
    BY <1>2, <1>4
  <2> HIDE DEF f
  <2> QED
    BY <1>1, <2>1, <2>2, ExceptSeq
<1>7. StackOK' /\ ~Gone' /\ \A t : Runs(stack, t)' <=> f.at = "run" /\ f.task = t
  <2>1. f.at \in {"pass", "run", "drop"} /\ f.now # 0 /\ stack'[1] = f
    BY <1>1, <1>5
  <2> HIDE DEF f
  <2> QED
    BY <1>6, <2>1, PassAlone
<1> QED
  BY <1>5, <1>6, <1>7

LEMMA SvcBeginInv == Inv /\ (\E now \in Deadlines : SvcBegin(now)) => Inv'
<1> SUFFICES ASSUME Inv, NEW now \in Deadlines, SvcBegin(now) PROVE Inv'
  OBVIOUS
<1> DEFINE f == [at |-> "pass", now |-> now, task |-> None]
<1>1. /\ UNCHANGED <<heap, slots, slot_cap, free, tombstones, seq_next, tags, fired, destroyed>>
      /\ stack = <<>> /\ stack' = <<f>>
  BY DEF SvcBegin, Frame
<1>2. f \in Frames /\ f.at = "pass" /\ f.now # 0
  BY Numbers DEF Frames
<1>3. stack' \in Seq(Frames) /\ Len(stack') = 1 /\ stack'[1] = f
  BY <1>1, <1>2
<1> HIDE DEF f
<1>4. StackOK' /\ ~Gone' /\ \A t : Runs(stack, t)' <=> f.at = "run" /\ f.task = t
  BY <1>2, <1>3, PassAlone
<1>5. \A t : Runs(stack, t)' <=> Runs(stack, t)
  <2>1. \A t : ~Runs(stack, t)
    BY <1>1 DEF Runs
  <2> QED
    BY <1>2, <1>4, <2>1
<1>6. ~Gone
  BY <1>1 DEF Gone
<1>7. HeapOK' /\ EntriesOK' /\ TagsOK' /\ SlotsOK' /\ FreeOK' /\ DeadOK' /\ DestroyedOK'
  BY <1>1, <1>4, <1>5, <1>6, OnlyCalls, SameWaits
<1>8. TypeOK'
  BY <1>1, <1>3 DEF Inv, TypeOK, Frames
<1> QED
  BY <1>4, <1>7, <1>8 DEF Inv

LEMMA DropReturnsInv == Inv /\ DropReturns => Inv'
<1> SUFFICES ASSUME Inv, DropReturns PROVE Inv'
  OBVIOUS
<1>1. /\ UNCHANGED <<heap, slots, slot_cap, free, tombstones, seq_next, tags, fired, destroyed>>
      /\ At = "drop" /\ Continue("pass", None)
  BY DEF DropReturns
<1>2. Len(stack) = 1 /\ stack # <<>> /\ ~Gone /\ Top = stack[1]
  BY <1>1, BottomFrame
<1>3. /\ stack' \in Seq(Frames) /\ StackOK' /\ ~Gone'
      /\ \A t : Runs(stack, t)' <=> "pass" = "run" /\ None = t
  BY <1>1, ContinuePass
<1>4. \A t : Runs(stack, t)' <=> Runs(stack, t)
  <2>1. \A t : ~Runs(stack, t)
    <3>1. \A k \in 1..Len(stack) : stack[k].at = "drop"
      BY <1>1, <1>2 DEF At
    <3> QED
      BY <3>1 DEF Runs
  <2> QED
    BY <1>3, <2>1
<1>5. HeapOK' /\ EntriesOK' /\ TagsOK' /\ SlotsOK' /\ FreeOK' /\ DeadOK' /\ DestroyedOK'
  BY <1>1, <1>2, <1>3, <1>4, OnlyCalls, SameWaits
<1>6. TypeOK'
  BY <1>1, <1>3 DEF Inv, TypeOK, Frames
<1> QED
  BY <1>3, <1>5, <1>6 DEF Inv

LEMMA TaskReturnsInv == Inv /\ TaskReturns => Inv'
<1> SUFFICES ASSUME Inv, TaskReturns PROVE Inv'
  OBVIOUS
<1> DEFINE t == stack[1].task
<1>1. /\ UNCHANGED <<heap, slots, slot_cap, free, tombstones, seq_next, tags, fired>>
      /\ At = "run" /\ Continue("drop", Top.task)
      /\ destroyed' = [destroyed EXCEPT ![Top.task] = @ + 1]
  BY DEF TaskReturns
<1>2. Len(stack) = 1 /\ stack # <<>> /\ ~Gone /\ Top = stack[1] /\ stack[1].at = "run"
  BY <1>1, BottomFrame DEF At
<1>3. Runs(stack, t) /\ \A u : Runs(stack, u) => u = t
  <2>1. \A k \in 1..Len(stack) : k = 1
    BY <1>2
  <2>2. 1 \in 1..Len(stack)
    BY <1>2
  <2> QED
    BY <1>2, <2>1, <2>2 DEF Runs
<1>4. t \in Ids \cup {None}
  <2>1. stack[1] \in Frames
    BY <1>2, StackType, ElementOfSeq DEF Inv
  <2> QED
    BY <2>1 DEF Frames
<1>5. t \in Ids /\ t < seq_next /\ ~Armed(t)
  BY <1>3, <1>4 DEF Inv, DestroyedOK
<1> HIDE DEF t
<1>6. Continue("drop", t) /\ destroyed' = [destroyed EXCEPT ![t] = @ + 1]
  BY <1>1, <1>2 DEF t
<1>7. /\ stack' \in Seq(Frames) /\ StackOK' /\ ~Gone'
      /\ \A u : Runs(stack, u)' <=> "drop" = "run" /\ t = u
  BY <1>1, <1>4, <1>6, ContinuePass
<1>8. /\ HeapOK' /\ EntriesOK' /\ TagsOK' /\ SlotsOK' /\ FreeOK' /\ DeadOK'
      /\ \A u : Armed(u)' <=> Armed(u)
  BY <1>1, <1>2, <1>7, OnlyCalls
<1>9. destroyed \in [Ids -> Nat] /\ destroyed[t] = 0
  BY <1>3, <1>5 DEF Inv, TypeOK, DestroyedOK
<1>10. TypeOK'
  <2>1. destroyed[t] + 1 \in Nat
    BY <1>9
  <2>2. destroyed' \in [Ids -> Nat]
    BY <1>6, <1>9, <2>1, Zenon
  <2> QED
    BY <1>1, <1>7, <2>2 DEF Inv, TypeOK, Frames
<1>11. DestroyedOK'
  <2>1. \A u : ~Runs(stack, u)'
    BY <1>7
  <2>2. \A u \in Ids : destroyed'[u] = IF u = t THEN 1 ELSE destroyed[u]
    BY <1>6, <1>9
  <2>3. ASSUME NEW u \in Ids
        PROVE  destroyed'[u] = IF u < seq_next /\ ~Armed(u) THEN 1 ELSE 0
    <3>1. CASE u = t
      BY <1>5, <2>2, <3>1
    <3>2. CASE u # t
      BY <1>3, <2>2, <3>2 DEF Inv, DestroyedOK
    <3> QED
      BY <3>1, <3>2
  <2> QED
    BY <1>1, <1>8, <2>1, <2>3 DEF DestroyedOK
<1> QED
  BY <1>7, <1>8, <1>10, <1>11 DEF Inv

-----------------------------------------------------------------------------
(* ntt_timer_heap_free_slot gives the slot of a live entry back: that      *)
(* entry is dead from then on, the others are what they were.              *)
LEMMA FreedSlotSlots ==
    ASSUME Inv, NEW i \in 1..Len(slots), slots[i].version <= 2 * seq_next - 1,
           slots' = FreedSlot(i)
    PROVE  /\ slots' \in Seq(Slot) /\ Len(slots') = Len(slots)
           /\ slots'[i].version = slots[i].version + 1 /\ slots'[i].task = None
           /\ \A j \in 1..Len(slots) : j # i => slots'[j] = slots[j]
<1> DEFINE e == [task |-> None, version |-> slots[i].version + 1]
<1>1. slots \in Seq(Slot) /\ slots[i].version \in Nat
  BY SlotNumbers DEF Inv, TypeOK, Slot
<1>2. e \in Slot
  <2>1. slots[i].version + 1 \in 1..(2 * MaxTimers)
    BY <1>1, Numbers, Lengths DEF Inv
  <2> QED
    BY <2>1 DEF Slot
<1>3. slots' = [slots EXCEPT ![i] = e]
  BY DEF FreedSlot
<1>4. e.version = slots[i].version + 1 /\ e.task = None
  OBVIOUS
<1> HIDE DEF e
<1>5. /\ [slots EXCEPT ![i] = e] \in Seq(Slot)
      /\ Len([slots EXCEPT ![i] = e]) = Len(slots)
      /\ \A j \in 1..Len(slots) : [slots EXCEPT ![i] = e][j] = IF j = i THEN e ELSE slots[j]
  BY <1>1, <1>2, ExceptSeq
<1> QED
  BY <1>3, <1>4, <1>5

(* The free list gets a new head.                                          *)
LEMMA NewHead ==
    ASSUME NEW S, NEW f \in Seq(S), NEW i \in S, NEW g, g = <<i>> \o f
    PROVE  /\ g \in Seq(S) /\ Len(g) = Len(f) + 1 /\ g[1] = i
           /\ \A k \in 1..Len(f) : g[k + 1] = f[k]
           /\ \A k \in 1..Len(g) : k = 1 \/ (k - 1 \in 1..Len(f) /\ g[k] = f[k - 1])
<1>1. <<i>> \in Seq(S) /\ Len(<<i>>) = 1 /\ <<i>>[1] = i /\ Len(f) \in Nat
  BY LenProperties
<1>2. /\ g \in Seq(S) /\ Len(g) = Len(<<i>>) + Len(f)
      /\ \A k \in 1..(Len(<<i>>) + Len(f)) :
            g[k] = IF k <= Len(<<i>>) THEN <<i>>[k] ELSE f[k - Len(<<i>>)]
  BY <1>1, ConcatProperties
<1>3. Len(g) = Len(f) + 1 /\ \A k \in 1..(Len(f) + 1) : g[k] = IF k <= 1 THEN <<i>>[k] ELSE f[k - 1]
  BY <1>1, <1>2
<1>4. \A n \in Nat : /\ \A k \in 1..n : k + 1 \in 1..(n + 1) /\ ~(k + 1 <= 1) /\ (k + 1) - 1 = k
                     /\ 1 \in 1..(n + 1) /\ 1 <= 1
                     /\ \A k \in 1..(n + 1) : k = 1 \/ (k - 1 \in 1..n /\ ~(k <= 1))
  OBVIOUS
<1>5. g[1] = i
  BY <1>1, <1>3, <1>4
<1>6. \A k \in 1..Len(f) : g[k + 1] = f[k]
  BY <1>1, <1>3, <1>4
<1>7. \A k \in 1..Len(g) : k = 1 \/ (k - 1 \in 1..Len(f) /\ g[k] = f[k - 1])
  BY <1>1, <1>3, <1>4
<1> QED
  BY <1>2, <1>3, <1>5, <1>6, <1>7

LEMMA FreesSlot ==
    ASSUME Inv, NEW x \in Of(heap.a), Live(x), UNCHANGED <<seq_next, tags>>,
           slots' = FreedSlot(x.index), free' = <<x.index>> \o free,
           Of(heap'.a) \subseteq Of(heap.a), Of(heap.a) \ {x} \subseteq Of(heap'.a), ~Gone, ~Gone'
    PROVE  /\ slots' \in Seq(Slot) /\ free' \in Seq(1..MaxTimers) /\ Len(slots') = Len(slots)
           /\ EntriesOK' /\ TagsOK' /\ SlotsOK' /\ FreeOK'
           /\ ~Live(x)' /\ \A y \in Of(heap.a) : y # x => (Live(y)' <=> Live(y))
<1> DEFINE i == x.index
           v == slots[i].version
<1>1. /\ i \in 1..Len(slots) /\ Odd(v) /\ v <= 2 * seq_next - 1 /\ x.version = v
  BY LiveSlot DEF Live, LiveIn
<1>2. v \in Nat /\ seq_next \in Nat /\ Len(slots) \in Nat
  BY <1>1, SlotNumbers, Lengths DEF Inv
<1>3. /\ slots' \in Seq(Slot) /\ Len(slots') = Len(slots)
      /\ slots'[i].version = v + 1 /\ slots'[i].task = None
      /\ \A j \in 1..Len(slots) : j # i => slots'[j] = slots[j]
  BY <1>1, FreedSlotSlots
<1>4. ~Odd(v + 1)
  BY <1>1, <1>2, Parity
<1>5. \A y \in Of(heap.a) : /\ y \in Entries /\ y.version \in Nat /\ EntryFine(y)
                            /\ y.index \in 1..Len(slots) /\ y.version <= slots[y.index].version
  BY OfEntries, EntryNumbers DEF Inv, EntriesOK, HeapOK, Sound, Heaps, EntryFine
<1>6. ~Live(x)'
  BY <1>1, <1>2, <1>3 DEF Live, LiveIn
<1>7. ASSUME NEW y \in Of(heap.a), y # x PROVE Live(y)' <=> Live(y)
  <2>1. CASE y.index = i
    <3>1. ~Live(y)
      BY <1>7, <2>1, OneLive
    <3>2. y.version <= v
      BY <1>5, <2>1
    <3>3. y.version # v + 1
      BY <1>2, <1>5, <3>2
    <3> QED
      BY <1>3, <2>1, <3>1, <3>3 DEF Live, LiveIn
  <2>2. CASE y.index # i
    BY <1>3, <1>5, <2>2 DEF Live, LiveIn
  <2> QED
    BY <2>1, <2>2
<1>8. \A j \in 1..Len(slots) : \A w \in Nat : w <= slots[j].version => w <= slots'[j].version
  BY <1>2, <1>3
<1>9. EntriesOK'
  <2>1. ASSUME NEW y \in Of(heap'.a) PROVE EntryFine(y)'
    <3>1. EntryFine(y) /\ y.index \in 1..Len(slots) /\ y.version <= slots'[y.index].version
      BY <1>5, <1>8
    <3> QED
      BY <1>3, <3>1 DEF EntryFine
  <2> QED
    BY <2>1 DEF EntriesOK
<1>10. TagsOK'
  <2>1. ASSUME NEW t \in 1..Len(tags)
        PROVE  tags[t].index \in 1..Len(slots') /\ tags[t].version <= slots'[tags[t].index].version
    <3>1. tags[t] \in Tags
      BY ElementOfSeq DEF Inv, TagsOK
    <3>2. tags[t].version \in Nat
      BY <3>1, Numbers DEF Tags
    <3>3. tags[t].index \in 1..Len(slots) /\ tags[t].version <= slots[tags[t].index].version
      BY DEF Inv, TagsOK
    <3> QED
      BY <1>3, <1>8, <3>2, <3>3
  <2> QED
    BY <2>1 DEF Inv, TagsOK
<1>11. i \in 1..MaxTimers /\ free \in Seq(1..MaxTimers) /\ Len(free) \in Nat
  <2>1. Len(slots) <= MaxTimers
    BY <1>2, Lengths, Numbers DEF Inv, SlotsOK
  <2> QED
    BY <1>1, <1>2, <2>1, Numbers, Lengths DEF Inv, TypeOK
<1>12. /\ free' \in Seq(1..MaxTimers) /\ Len(free') = Len(free) + 1 /\ free'[1] = i
       /\ \A k \in 1..Len(free) : free'[k + 1] = free[k]
       /\ \A k \in 1..Len(free') : k = 1 \/ (k - 1 \in 1..Len(free) /\ free'[k] = free[k - 1])
  BY <1>11, NewHead
<1> HIDE DEF i, v
<1>13. FreeOK'
  <2>1. \A k \in 1..Len(free) : free[k] \in 1..Len(slots) /\ ~Odd(slots[free[k]].version)
    BY DEF Inv, FreeOK
  <2>2. \A k \in 1..Len(free) : free[k] # i
    BY <1>1, <2>1 DEF v
  <2>3. \A k \in 1..Len(free') : free'[k] \in 1..Len(slots') /\ ~Odd(slots'[free'[k]].version)
    BY <1>1, <1>3, <1>4, <1>12, <2>1, <2>2
  <2>4. ASSUME NEW j \in 1..Len(free'), NEW k \in 1..Len(free'), free'[j] = free'[k] PROVE j = k
    <3>1. CASE j = 1 \/ k = 1
      BY <1>12, <2>2, <2>4, <3>1
    <3>2. CASE j # 1 /\ k # 1
      <4>1. j - 1 = k - 1
        BY <1>12, <2>4, <3>2 DEF Inv, FreeOK
      <4> QED
        BY <4>1
    <3> QED
      BY <3>1, <3>2
  <2> QED
    BY <2>3, <2>4 DEF FreeOK
<1>14. SlotsOK'
  <2>1. ASSUME NEW j \in 1..Len(slots)
        PROVE  IF Odd(slots'[j].version) THEN Occupied(j)' ELSE Vacant(j)'
    <3>1. CASE j = i
      <4>1. 1 \in 1..Len(free')
        BY <1>11, <1>12
      <4>2. v + 1 <= 2 * seq_next
        BY <1>1, <1>2
      <4> QED
        BY <1>3, <1>4, <1>12, <3>1, <4>1, <4>2 DEF Vacant
    <3>2. CASE j # i /\ Odd(slots[j].version)
      <4>1. Occupied(j)
        BY <3>2 DEF Inv, SlotsOK
      <4>2. PICK y \in Of(heap.a) : /\ y.index = j /\ y.version = slots[j].version
                                    /\ y.seq = slots[j].task
        BY <4>1 DEF Occupied
      <4>3. y \in Of(heap'.a)
        BY <3>2, <4>2 DEF i
      <4> QED
        BY <1>3, <3>2, <4>1, <4>2, <4>3 DEF Occupied
    <3>3. CASE j # i /\ ~Odd(slots[j].version)
      <4>1. Vacant(j)
        BY <3>3 DEF Inv, SlotsOK
      <4>2. PICK k \in 1..Len(free) : free[k] = j
        BY <4>1 DEF Vacant
      <4>3. k + 1 \in 1..Len(free') /\ free'[k + 1] = j
        BY <1>11, <1>12, <4>2
      <4> QED
        BY <1>3, <3>3, <4>1, <4>3 DEF Vacant
    <3> QED
      BY <3>1, <3>2, <3>3
  <2> QED
    BY <1>3, <2>1 DEF Inv, SlotsOK
<1> QED
  BY <1>3, <1>6, <1>7, <1>9, <1>10, <1>12, <1>13, <1>14

(* The application calls ntt_timer_heap_cancel, from a callback or not.    *)
LEMMA Calls ==
    ASSUME Inv, InApplication, NEW t \in Ids, stack' = Append(stack, Frame("cancel", 0, t))
    PROVE  /\ stack' \in Seq(Frames) /\ StackOK' /\ ~Gone /\ ~Gone'
           /\ stack # <<>> => stack'[1] = stack[1]
           /\ stack = <<>> => stack'[1].now = 0
           /\ \A u : Runs(stack, u)' <=> Runs(stack, u)
<1> DEFINE f == Frame("cancel", 0, t)
           n == Len(stack)
<1>1. f \in Frames /\ f.at = "cancel" /\ f.now = 0
  BY DEF Frame, Frames
<1>2. stack \in Seq(Frames) /\ n \in Nat /\ (stack # <<>> <=> n > 0)
  BY StackType, Lengths DEF Inv
<1> HIDE DEF f
<1>3. /\ stack' \in Seq(Frames) /\ Len(stack') = n + 1
      /\ \A k \in 1..n : stack'[k] = stack[k]
      /\ stack'[n + 1] = f
  BY <1>1, <1>2, AppendProperties DEF f
<1>4. ~Gone
  BY GoneStops DEF InApplication
<1>5. stack # <<>> => stack[1].at \in {"run", "drop", "cancel"}
  <2>1. n > 1 => stack[1].at \in {"run", "drop", "cancel"}
    BY DEF Inv, StackOK
  <2>2. stack # <<>> => stack[n].at \in {"app", "run", "drop", "cancel"}
    BY DEF InApplication, At, Top
  <2>3. stack # <<>> /\ n = 1 => stack[1].at # "app"
    <3>1. stack # <<>> /\ n = 1 => stack[1] \in Frames
      BY <1>2, ElementOfSeq
    <3> QED
      BY <3>1 DEF Frames
  <2>4. stack # <<>> /\ n = 1 => stack[1].at \in {"app", "run", "drop", "cancel"}
    BY <2>2
  <2>5. stack # <<>> => n = 1 \/ n > 1
    <3>1. \A m \in Nat : m > 0 => m = 1 \/ m > 1
      OBVIOUS
    <3> QED
      BY <1>2, <3>1
  <2> HIDE DEF n
  <2> QED
    BY <2>1, <2>3, <2>4, <2>5
<1> HIDE DEF n
<1>6. /\ stack # <<>> => stack'[1] = stack[1]
      /\ stack = <<>> => stack'[1] = f
  BY <1>2, <1>3
<1>7. stack' # <<>> /\ stack'[1].at \in {"run", "drop", "cancel"}
  BY <1>1, <1>3, <1>5, <1>6, AppendProperties, EmptySeq, <1>2
<1>8. ~Gone'
  BY <1>7 DEF Gone
<1>9. StackOK'
  <2>1. ASSUME NEW k \in 2..Len(stack') PROVE stack'[k].at = "cancel" /\ stack'[k].now = 0
    <3>1. CASE k = n + 1
      BY <1>1, <1>3, <3>1
    <3>2. CASE k # n + 1
      <4>1. k \in 2..Len(stack) /\ stack'[k] = stack[k]
        BY <1>2, <1>3, <3>2 DEF n
      <4> QED
        BY <4>1 DEF Inv, StackOK
    <3> QED
      BY <3>1, <3>2
  <2>2. stack'[1].at \in {"pass", "run", "drop"} <=> stack'[1].now # 0
    BY <1>1, <1>6 DEF Inv, StackOK
  <2> QED
    BY <1>7, <1>8, <2>1, <2>2 DEF StackOK
<1>10. ASSUME NEW u PROVE Runs(stack, u)' <=> Runs(stack, u)
  <2>1. \A k \in 1..Len(stack') : k \in 1..Len(stack) \/ stack'[k].at = "cancel"
    BY <1>1, <1>2, <1>3 DEF n
  <2>2. \A k \in 1..Len(stack) : k \in 1..Len(stack') /\ stack'[k] = stack[k]
    BY <1>2, <1>3 DEF n
  <2> QED
    BY <2>1, <2>2 DEF Runs
<1> QED
  BY <1>1, <1>3, <1>4, <1>6, <1>8, <1>9, <1>10

(* What a cancel finds and does.                                           *)
LEMMA CancelSteps ==
    ASSUME Inv, NEW t \in Ids, Cancel(t)
    PROVE  \E x \in Of(heap.a) :
              /\ Live(x) /\ x.seq = t
              /\ slots' = FreedSlot(x.index) /\ free' = <<x.index>> \o free
              /\ destroyed' = [destroyed EXCEPT ![t] = @ + 1]
              /\ stack' = Append(stack, Frame("cancel", 0, t))
<1>1. ~Gone
  BY GoneStops DEF Cancel, InApplication
<1>2. t < seq_next /\ TagLive(t)
  BY DEF Cancel
<1>3. PICK x \in Of(heap.a) : Live(x) /\ x.seq = t /\ x.index = tags[t + 1].index
  BY <1>1, <1>2, LiveTag
<1>4. slots[x.index].task = t
  BY <1>3, LiveSlot
<1> QED
  BY <1>3, <1>4 DEF Cancel

LEMMA CancelInv == Inv /\ (\E t \in Ids : Cancel(t)) => Inv'
<1> SUFFICES ASSUME Inv, NEW t \in Ids, Cancel(t) PROVE Inv'
  OBVIOUS
<1>1. PICK x \in Of(heap.a) :
         /\ Live(x) /\ x.seq = t
         /\ slots' = FreedSlot(x.index) /\ free' = <<x.index>> \o free
         /\ destroyed' = [destroyed EXCEPT ![t] = @ + 1]
         /\ stack' = Append(stack, Frame("cancel", 0, t))
  BY CancelSteps
<1>2. /\ InApplication /\ t < seq_next /\ tombstones' = tombstones + 1
      /\ UNCHANGED <<heap, slot_cap, seq_next, tags, fired>>
  BY DEF Cancel
<1>3. /\ stack' \in Seq(Frames) /\ StackOK' /\ ~Gone /\ ~Gone'
      /\ \A u : Runs(stack, u)' <=> Runs(stack, u)
  BY <1>1, <1>2, Calls
<1>4. /\ slots' \in Seq(Slot) /\ free' \in Seq(1..MaxTimers) /\ Len(slots') = Len(slots)
      /\ EntriesOK' /\ TagsOK' /\ SlotsOK' /\ FreeOK'
      /\ ~Live(x)' /\ \A y \in Of(heap.a) : y # x => (Live(y)' <=> Live(y))
  BY <1>1, <1>2, <1>3, FreesSlot
<1>5. HeapOK'
  BY <1>2, <1>4 DEF Inv, HeapOK
<1>6. DeadOK' /\ tombstones' \in Nat
  <2> DEFINE d == DeadIn(heap.a, slots)
  <2>1. DeadIn(heap.a, slots') = d \cup {x} /\ x \notin d
    BY <1>1, <1>4 DEF DeadIn, Live
  <2>2. heap.a \in Seq(Entries)
    BY DEF Inv, HeapOK, Sound, Heaps
  <2>3. Cardinality(d \cup {x}) = Cardinality(d) + 1 /\ Cardinality(d) \in Nat
    BY <2>1, <2>2, DeadFinite, FS_AddElement
  <2> QED
    BY <1>2, <2>1, <2>3 DEF Inv, DeadOK
<1>7. Armed(t) /\ ~Armed(t)' /\ \A u : u # t => (Armed(u)' <=> Armed(u))
  <2>1. \A y \in Of(heap.a) : y.seq = t => y = x
    BY <1>1 DEF Inv, HeapOK, Sound, Distinct, Of
  <2> QED
    BY <1>1, <1>2, <1>4, <2>1 DEF Armed
<1>8. destroyed \in [Ids -> Nat] /\ destroyed[t] = 0
  BY <1>7 DEF Inv, TypeOK, DestroyedOK
<1>9. TypeOK'
  <2>1. destroyed[t] + 1 \in Nat
    BY <1>8
  <2>2. destroyed' \in [Ids -> Nat]
    BY <1>1, <1>8, <2>1, Zenon
  <2> QED
    BY <1>2, <1>3, <1>4, <1>6, <2>2 DEF Inv, TypeOK, Frames, Slot
<1>10. DestroyedOK'
  <2>1. ~Runs(stack, t)
    BY <1>7 DEF Inv, DestroyedOK
  <2>2. \A u \in Ids : destroyed'[u] = IF u = t THEN 1 ELSE destroyed[u]
    BY <1>1, <1>8
  <2>3. ASSUME NEW u \in Ids
        PROVE  destroyed'[u] = IF u < seq_next /\ ~Armed(u)' /\ ~Runs(stack, u) THEN 1 ELSE 0
    <3>1. CASE u = t
      BY <1>2, <1>7, <2>1, <2>2, <3>1
    <3>2. CASE u # t
      BY <1>7, <2>2, <3>2 DEF Inv, DestroyedOK
    <3> QED
      BY <3>1, <3>2
  <2>4. ASSUME NEW u \in Ids \cup {None}, Runs(stack, u)
        PROVE  u \in Ids /\ u < seq_next /\ ~Armed(u)'
    BY <1>7, <2>4 DEF Inv, DestroyedOK
  <2> QED
    BY <1>2, <1>3, <2>3, <2>4 DEF DestroyedOK
<1> QED
  BY <1>3, <1>4, <1>5, <1>6, <1>9, <1>10 DEF Inv

(* A pass fires its root: the root is the entry of the timer whose task    *)
(* the slot has.                                                           *)
LEMMA FireSteps ==
    ASSUME Inv, SvcFires, NEW x, x = heap.a[1]
    PROVE  /\ x \in Of(heap.a) /\ x \in Entries /\ Live(x) /\ heap.a # <<>>
           /\ At = "pass" /\ ~Gone /\ x.deadline <= stack[1].now
           /\ slots' = FreedSlot(x.index) /\ free' = <<x.index>> \o free
           /\ fired' = Append(fired, [deadline |-> x.deadline, seq |-> x.seq])
           /\ Continue("run", x.seq)
           /\ Sound(heap') /\ Of(heap'.a) = Of(heap.a) \ {x}
           /\ UNCHANGED <<slot_cap, tombstones, seq_next, tags, destroyed>>
<1>1. Sound(heap) /\ heap.a \in Seq(Entries) /\ heap.a # <<>> /\ heap' = PopRoot(heap) /\ Live(x)
  BY DEF Inv, HeapOK, Sound, Heaps, SvcFires, RootDue
<1>2. x \in Of(heap.a) /\ x \in Entries
  BY <1>1, RootOf
<1>3. Sound(heap') /\ Of(heap'.a) = Of(heap.a) \ {x}
  BY <1>1, PopRootSound
<1>4. At = "pass" /\ x.deadline <= Top.now
  BY DEF SvcFires, InPass, RootDue
<1>5. Top = stack[1] /\ ~Gone
  BY <1>4, BottomFrame
<1>6. slots[x.index].task = x.seq
  BY <1>1, <1>2, LiveSlot
<1> QED
  BY <1>1, <1>2, <1>3, <1>4, <1>5, <1>6 DEF SvcFires

LEMMA SvcFiresInv == Inv /\ SvcFires => Inv'
<1> SUFFICES ASSUME Inv, SvcFires PROVE Inv'
  OBVIOUS
<1>0. PICK x : x = heap.a[1]
  OBVIOUS
<1> DEFINE t == x.seq
<1>1. /\ x \in Of(heap.a) /\ x \in Entries /\ Live(x) /\ At = "pass" /\ ~Gone
      /\ slots' = FreedSlot(x.index) /\ free' = <<x.index>> \o free
      /\ fired' = Append(fired, [deadline |-> x.deadline, seq |-> t])
      /\ Continue("run", t)
      /\ Sound(heap') /\ Of(heap'.a) = Of(heap.a) \ {x}
      /\ UNCHANGED <<slot_cap, tombstones, seq_next, tags, destroyed>>
  BY <1>0, FireSteps
<1>2. t \in Ids /\ x.deadline \in Deadlines /\ t < seq_next
  BY <1>1, EntryNumbers DEF Inv, EntriesOK, EntryFine
<1>3. /\ stack' \in Seq(Frames) /\ StackOK' /\ ~Gone'
      /\ \A u : Runs(stack, u)' <=> "run" = "run" /\ t = u
  BY <1>1, <1>2, ContinuePass
<1>4. /\ slots' \in Seq(Slot) /\ free' \in Seq(1..MaxTimers) /\ Len(slots') = Len(slots)
      /\ EntriesOK' /\ TagsOK' /\ SlotsOK' /\ FreeOK'
      /\ ~Live(x)' /\ \A y \in Of(heap.a) : y # x => (Live(y)' <=> Live(y))
  BY <1>1, <1>3, FreesSlot
<1>5. HeapOK'
  BY <1>1, <1>4 DEF Inv, HeapOK
<1>6. DeadOK'
  <2>1. DeadIn(heap'.a, slots') = DeadIn(heap.a, slots)
    BY <1>1, <1>4 DEF DeadIn, Live
  <2> QED
    BY <1>1, <2>1 DEF Inv, DeadOK
<1>7. \A y \in Of(heap.a) : y.seq = t => y = x
  BY <1>1 DEF Inv, HeapOK, Sound, Distinct, Of
<1>8. Armed(t) /\ ~Armed(t)' /\ \A u : u # t => (Armed(u)' <=> Armed(u))
  BY <1>1, <1>4, <1>7 DEF Armed
<1>9. TypeOK'
  <2>1. heap'.a \in Seq(Entries) /\ heap'.cap \in Nat
    BY <1>1 DEF Sound, Heaps
  <2>2. fired' \in Seq([deadline : Deadlines, seq : Ids])
    <3>1. fired \in Seq([deadline : Deadlines, seq : Ids])
      BY DEF Inv, TypeOK
    <3>2. [deadline |-> x.deadline, seq |-> t] \in [deadline : Deadlines, seq : Ids]
      BY <1>2
    <3> QED
      BY <1>1, <3>1, <3>2, AppendProperties
  <2> QED
    BY <1>1, <1>3, <1>4, <2>1, <2>2 DEF Inv, TypeOK, Frames, Slot
<1>10. DestroyedOK'
  <2>1. \A u : ~Runs(stack, u)
    <3>1. Len(stack) = 1 /\ stack[1].at = "pass"
      BY <1>1, BottomFrame DEF At
    <3> QED
      BY <3>1 DEF Runs
  <2>2. ASSUME NEW u \in Ids
        PROVE  destroyed'[u] = IF u < seq_next /\ ~Armed(u)' /\ ~Runs(stack, u)' THEN 1 ELSE 0
    <3>1. CASE u = t
      BY <1>1, <1>3, <1>8, <3>1 DEF Inv, DestroyedOK
    <3>2. CASE u # t
      BY <1>1, <1>3, <1>8, <2>1, <3>2 DEF Inv, DestroyedOK
    <3> QED
      BY <3>1, <3>2
  <2>3. ASSUME NEW u \in Ids \cup {None}, Runs(stack, u)'
        PROVE  u \in Ids /\ u < seq_next /\ ~Armed(u)'
    BY <1>2, <1>3, <1>8, <2>3
  <2> QED
    BY <1>1, <2>2, <2>3 DEF DestroyedOK
<1> QED
  BY <1>3, <1>4, <1>5, <1>6, <1>9, <1>10 DEF Inv

-----------------------------------------------------------------------------
(* ntt_timer_heap_alloc_slot: the slot it gives, by its number, has a new  *)
(* odd version; the other slots and the rest of the free list stay.        *)
Gives(i) ==
    /\ i \in 1..Len(slots') /\ i \in 1..MaxTimers
    /\ slots' \in Seq(Slot) /\ Len(slots') <= seq_next + 1 /\ Len(slots) <= Len(slots')
    /\ slots'[i].task = seq_next /\ Odd(slots'[i].version)
    /\ slots'[i].version \in 1..(2 * seq_next + 1)
    /\ \A j \in 1..Len(slots') : j # i => j \in 1..Len(slots) /\ slots'[j] = slots[j]
    /\ i \in 1..Len(slots) => /\ slots'[i].version = slots[i].version + 1
                              /\ ~Odd(slots[i].version)
    /\ free' \in Seq(1..MaxTimers)
    /\ \A k \in 1..Len(free') : free'[k] # i /\ \E m \in 1..Len(free) : free[m] = free'[k]
    /\ \A j, k \in 1..Len(free') : free'[j] = free'[k] => j = k
    /\ \A k \in 1..Len(free) : free[k] = i \/ \E m \in 1..Len(free') : free'[m] = free[k]

LEMMA ReusedSlot ==
    ASSUME Inv, seq_next < MaxTimers, free # <<>>, NEW i, i = Head(free),
           slots' = AllocatedSlot(i, seq_next), free' = Tail(free)
    PROVE  Gives(i)
<1> DEFINE n == Len(free)
           e == [task |-> seq_next, version |-> slots[i].version + 1]
<1>1. /\ seq_next \in Nat /\ Len(slots) \in Nat /\ n \in Nat /\ n > 0 /\ MaxTimers \in Nat
      /\ free \in Seq(1..MaxTimers) /\ slots \in Seq(Slot) /\ Len(slots) <= seq_next
  BY Lengths, Numbers DEF Inv, TypeOK, Slot, SlotsOK
<1>2. i = free[1] /\ 1 \in 1..n
  BY <1>1
<1>3. i \in 1..Len(slots) /\ ~Odd(slots[i].version)
  BY <1>2 DEF Inv, FreeOK
<1>4. Vacant(i) /\ slots[i].version \in Nat /\ slots[i].version >= 1
  BY <1>3, SlotNumbers DEF Inv, SlotsOK
<1>5. slots[i].version <= 2 * seq_next
  BY <1>4 DEF Vacant
<1>6. i \in 1..MaxTimers /\ seq_next \in Ids
  BY <1>1, <1>3, Numbers
<1>7. e \in Slot /\ e.task = seq_next /\ e.version = slots[i].version + 1
  <2>1. slots[i].version + 1 \in 1..(2 * MaxTimers)
    BY <1>1, <1>4, <1>5
  <2> QED
    BY <1>6, <2>1 DEF Slot
<1>8. slots' = [slots EXCEPT ![i] = e]
  BY <1>1, <1>3 DEF AllocatedSlot
<1> HIDE DEF e, n
<1>9. /\ slots' \in Seq(Slot) /\ Len(slots') = Len(slots) /\ slots'[i] = e
      /\ \A j \in 1..Len(slots) : j # i => slots'[j] = slots[j]
  <2>1. /\ [slots EXCEPT ![i] = e] \in Seq(Slot)
        /\ Len([slots EXCEPT ![i] = e]) = Len(slots)
        /\ \A j \in 1..Len(slots) : [slots EXCEPT ![i] = e][j] = IF j = i THEN e ELSE slots[j]
    BY <1>1, <1>3, <1>7, ExceptSeq
  <2> QED
    BY <1>3, <1>8, <2>1
<1>10. Odd(e.version) /\ e.version \in 1..(2 * seq_next + 1)
  <2>1. Odd(slots[i].version + 1)
    BY <1>3, <1>4, Parity
  <2>2. slots[i].version + 1 \in 1..(2 * seq_next + 1)
    BY <1>1, <1>4, <1>5
  <2> QED
    BY <1>7, <2>1, <2>2
<1>11. /\ free' \in Seq(1..MaxTimers) /\ Len(free') = n - 1
       /\ \A k \in 1..Len(free') : free'[k] = free[k + 1]
  BY <1>1, HeadTailProperties DEF n
<1>12. \A m \in Nat : m > 0 =>
          /\ \A k \in 1..(m - 1) : k + 1 \in 1..m /\ k + 1 # 1
          /\ \A k \in 1..m : k = 1 \/ (k - 1 \in 1..(m - 1) /\ (k - 1) + 1 = k)
  OBVIOUS
<1>13. \A k \in 1..Len(free') : k + 1 \in 1..n /\ free'[k] = free[k + 1] /\ k + 1 # 1
  BY <1>1, <1>11, <1>12
<1>14. \A j, k \in 1..n : free[j] = free[k] => j = k
  BY DEF Inv, FreeOK, n
<1>15. \A k \in 1..Len(free') : free'[k] # i /\ \E m \in 1..n : free[m] = free'[k]
  BY <1>2, <1>13, <1>14
<1>16. ASSUME NEW j \in 1..Len(free'), NEW k \in 1..Len(free'), free'[j] = free'[k] PROVE j = k
  <2>1. j + 1 = k + 1
    BY <1>13, <1>14, <1>16
  <2> QED
    BY <2>1
<1>17. ASSUME NEW k \in 1..n PROVE free[k] = i \/ \E m \in 1..Len(free') : free'[m] = free[k]
  <2>1. k = 1 \/ (k - 1 \in 1..Len(free') /\ (k - 1) + 1 = k)
    BY <1>1, <1>11, <1>12
  <2> QED
    BY <1>2, <1>11, <2>1
<1>18. Len(slots') <= seq_next + 1 /\ Len(slots) <= Len(slots')
  BY <1>1, <1>9
<1> QED
  BY <1>3, <1>6, <1>7, <1>9, <1>10, <1>11, <1>15, <1>16, <1>17, <1>18 DEF Gives, n

LEMMA AddedSlot ==
    ASSUME Inv, seq_next < MaxTimers, free = <<>>, NEW i, i = Len(slots) + 1,
           slots' = AllocatedSlot(i, seq_next), free' = free
    PROVE  Gives(i)
<1> DEFINE e == [task |-> seq_next, version |-> 1]
<1>1. /\ seq_next \in Nat /\ Len(slots) \in Nat /\ MaxTimers \in Nat
      /\ slots \in Seq(Slot) /\ Len(slots) <= seq_next
  BY Lengths, Numbers DEF Inv, TypeOK, Slot, SlotsOK
<1>2. i \in 1..MaxTimers /\ seq_next \in Ids
  BY <1>1, Numbers
<1>3. e \in Slot /\ e.task = seq_next /\ e.version = 1
  BY <1>1, <1>2 DEF Slot
<1>4. slots' = Append(slots, e)
  <2>1. ~(i <= Len(slots))
    BY <1>1
  <2> QED
    BY <2>1 DEF AllocatedSlot
<1> HIDE DEF e
<1>5. /\ slots' \in Seq(Slot) /\ Len(slots') = Len(slots) + 1 /\ slots'[i] = e
      /\ \A j \in 1..Len(slots) : slots'[j] = slots[j]
  BY <1>1, <1>3, <1>4, AppendProperties
<1>6. \A m \in Nat : /\ \A j \in 1..(m + 1) : j = m + 1 \/ j \in 1..m
                     /\ m + 1 \in 1..(m + 1) /\ m + 1 \notin 1..m
  OBVIOUS
<1>7. /\ \A j \in 1..Len(slots') : j # i => j \in 1..Len(slots) /\ slots'[j] = slots[j]
      /\ i \in 1..Len(slots') /\ i \notin 1..Len(slots)
  BY <1>1, <1>5, <1>6
<1>8. Odd(e.version) /\ e.version \in 1..(2 * seq_next + 1)
  BY <1>1, <1>3, Parity
<1>9. free' \in Seq(1..MaxTimers) /\ Len(free') = 0 /\ Len(free) = 0
  BY EmptySeq
<1>10. Len(slots') <= seq_next + 1 /\ Len(slots) <= Len(slots')
  BY <1>1, <1>5
<1> QED
  BY <1>2, <1>3, <1>5, <1>7, <1>8, <1>9, <1>10 DEF Gives

(* What a push does: the slot it takes and the entry it adds.              *)
LEMMA PushSteps ==
    ASSUME Inv, NEW d \in Deadlines, Push(d)
    PROVE  \E e \in Entries :
              /\ e.deadline = d /\ e.seq = seq_next /\ e.version = slots'[e.index].version
              /\ Gives(e.index) /\ Len(slots') <= slot_cap' /\ slot_cap' \in Nat
              /\ Sound(heap') /\ Of(heap'.a) = Of(heap.a) \cup {e}
              /\ tags' = Append(tags, [index |-> e.index, version |-> e.version, deadline |-> d])
              /\ \A x \in Of(heap.a) : x.seq # seq_next
<1>1. PICK i : i = IF free # <<>> THEN Head(free) ELSE Len(slots) + 1
  OBVIOUS
<1>2. PICK v : v = slots'[i].version
  OBVIOUS
<1> DEFINE e == [deadline |-> d, seq |-> seq_next, index |-> i, version |-> v]
<1>3. /\ InApplication /\ seq_next < MaxTimers
      /\ slots' = AllocatedSlot(i, seq_next)
      /\ free' = IF free # <<>> THEN Tail(free) ELSE free
      /\ slot_cap' = Reserve(slot_cap, i)
      /\ heap' = [a |-> H!Insert(heap.a, e), cap |-> Reserve(heap.cap, Len(heap.a) + 1)]
      /\ tags' = Append(tags, [index |-> i, version |-> v, deadline |-> d])
  BY <1>1, <1>2 DEF Push
<1>4. Gives(i)
  <2>1. CASE free # <<>>
    BY <1>1, <1>3, <2>1, ReusedSlot
  <2>2. CASE free = <<>>
    BY <1>1, <1>3, <2>2, AddedSlot
  <2> QED
    BY <2>1, <2>2
<1>5. seq_next \in Nat /\ seq_next \in Ids /\ MaxTimers \in Nat
  BY <1>3, Lengths, Numbers DEF Inv
<1>6. e \in Entries
  <2>0. v \in 1..(2 * seq_next + 1) /\ i \in 1..MaxTimers
    BY <1>2, <1>4 DEF Gives
  <2>1. v \in 1..(2 * MaxTimers) /\ i \in 1..MaxTimers
    BY <1>3, <1>5, <2>0
  <2> QED
    BY <1>5, <2>1 DEF Entries
<1>7. e.deadline = d /\ e.seq = seq_next /\ e.index = i /\ e.version = v
  OBVIOUS
<1> HIDE DEF e
<1>8. Len(slots') <= slot_cap' /\ slot_cap' \in Nat
  <2>1. /\ slot_cap \in Nat /\ i \in Nat /\ Len(slots) \in Nat /\ Len(slots) <= slot_cap
        /\ Len(slots') \in Nat
    BY <1>4, Lengths, LenProperties DEF Gives, Inv, HeapOK
  <2>2. slot_cap' \in Nat /\ slot_cap' >= i /\ slot_cap' >= slot_cap
    BY <1>3, <2>1, ReserveFits
  <2>3. Len(slots') <= Len(slots) \/ Len(slots') <= i
    <3>1. Len(slots') \in 1..Len(slots')
      BY <1>4, <2>1 DEF Gives
    <3>2. Len(slots') # i => Len(slots') \in 1..Len(slots)
      BY <1>4, <3>1 DEF Gives
    <3> QED
      BY <2>1, <3>2
  <2> QED
    BY <2>1, <2>2, <2>3
<1>9. ASSUME NEW x \in Of(heap.a) PROVE x.seq # seq_next
  <2>1. x.seq < seq_next
    BY DEF Inv, EntriesOK, EntryFine
  <2>2. x \in Entries
    BY OfEntries DEF Inv, HeapOK, Sound, Heaps
  <2>3. x.seq \in Nat
    BY <2>2, EntryNumbers
  <2> QED
    BY <1>5, <2>1, <2>3
<1>10. Sound(heap') /\ Of(heap'.a) = Of(heap.a) \cup {e}
  <2> DEFINE g == H!Insert(heap.a, e)
             c == Reserve(heap.cap, Len(heap.a) + 1)
  <2>1. /\ heap.a \in Seq(Entries) /\ heap.cap \in Nat /\ Distinct(heap.a) /\ H!IsHeap(heap.a)
        /\ Len(heap.a) \in Nat
    BY LenProperties DEF Inv, HeapOK, Sound, Heaps
  <2>2. /\ g \in Seq(Entries) /\ Len(g) = Len(heap.a) + 1 /\ H!IsHeap(g)
        /\ Of(g) = Of(heap.a) \cup {e} /\ Distinct(g)
    BY <1>6, <1>7, <1>9, <2>1, InsertOf
  <2>3. c \in Nat /\ Len(heap.a) + 1 <= c
    <3>1. Len(heap.a) + 1 \in Nat
      BY <2>1
    <3>2. c \in Nat /\ c >= Len(heap.a) + 1
      BY <2>1, <3>1, ReserveFits
    <3> HIDE DEF c
    <3> QED
      BY <2>1, <3>2
  <2>4. heap' = [a |-> g, cap |-> c]
    BY <1>3
  <2> HIDE DEF g, c
  <2> QED
    BY <2>2, <2>3, <2>4 DEF Sound, Heaps
<1> QED
  BY <1>2, <1>3, <1>4, <1>6, <1>7, <1>8, <1>9, <1>10

(* An old entry of the slot taken is dead and stays dead.                  *)
LEMMA OldEntries ==
    ASSUME Inv, NEW i, Gives(i)
    PROVE  /\ \A j \in 1..Len(slots) : /\ j \in 1..Len(slots') /\ slots[j].version \in Nat
                                       /\ j # i => slots'[j] = slots[j]
                                       /\ j = i => slots'[j].version = slots[j].version + 1
           /\ \A w \in Nat : \A j \in 1..Len(slots) :
                 Odd(w) /\ w <= slots[j].version =>
                    /\ w <= slots'[j].version
                    /\ w = slots'[j].version <=> w = slots[j].version
           /\ \A x \in Of(heap.a) :
                 /\ x \in Entries /\ x.version \in Nat /\ EntryFine(x) /\ x.index \in 1..Len(slots)
                 /\ x.seq \in Nat /\ x.seq < seq_next /\ Odd(x.version)
                 /\ x.version <= slots[x.index].version
           /\ \A x \in Of(heap.a) : Live(x)' <=> Live(x)
<1>1. Len(slots) \in Nat /\ Len(slots') \in Nat
  BY Lengths, LenProperties DEF Inv, Gives
<1>2. \A j \in 1..Len(slots) : /\ j \in 1..Len(slots') /\ slots[j].version \in Nat
                               /\ j # i => slots'[j] = slots[j]
                               /\ j = i => slots'[j].version = slots[j].version + 1
  <2>1. \A j \in 1..Len(slots) : j \in 1..Len(slots')
    BY <1>1 DEF Gives
  <2> QED
    BY <2>1, SlotNumbers DEF Gives, Inv
<1>3. \A w \in Nat : \A j \in 1..Len(slots) :
         Odd(w) /\ w <= slots[j].version =>
            /\ w <= slots'[j].version
            /\ w = slots'[j].version <=> w = slots[j].version
  <2>1. i \in 1..Len(slots) => ~Odd(slots[i].version)
    BY DEF Gives
  <2> QED
    BY <1>2, <2>1
<1>4. \A x \in Of(heap.a) :
         /\ x \in Entries /\ x.version \in Nat /\ EntryFine(x) /\ x.index \in 1..Len(slots)
         /\ x.seq \in Nat /\ x.seq < seq_next /\ Odd(x.version)
         /\ x.version <= slots[x.index].version
  BY OfEntries, EntryNumbers DEF Inv, EntriesOK, HeapOK, Sound, Heaps, EntryFine
<1>5. \A x \in Of(heap.a) : Live(x)' <=> Live(x)
  BY <1>3, <1>4 DEF Live, LiveIn
<1> QED
  BY <1>2, <1>3, <1>4, <1>5

LEMMA PushInv == Inv /\ (\E d \in Deadlines : Push(d)) => Inv'
<1> SUFFICES ASSUME Inv, NEW d \in Deadlines, Push(d) PROVE Inv'
  OBVIOUS
<1>1. PICK e \in Entries :
         /\ e.deadline = d /\ e.seq = seq_next /\ e.version = slots'[e.index].version
         /\ Gives(e.index) /\ Len(slots') <= slot_cap' /\ slot_cap' \in Nat
         /\ Sound(heap') /\ Of(heap'.a) = Of(heap.a) \cup {e}
         /\ tags' = Append(tags, [index |-> e.index, version |-> e.version, deadline |-> d])
         /\ \A x \in Of(heap.a) : x.seq # seq_next
  BY PushSteps
<1> DEFINE i == e.index
           f == [index |-> i, version |-> e.version, deadline |-> d]
<1>2. /\ InApplication /\ seq_next < MaxTimers /\ seq_next' = seq_next + 1
      /\ UNCHANGED <<tombstones, stack, fired, destroyed>>
  BY DEF Push
<1>3. ~Gone /\ ~Gone'
  BY <1>2, GoneStops DEF InApplication, Gone
<1>4. /\ seq_next \in Nat /\ Len(slots) \in Nat /\ Len(tags) = seq_next
      /\ tags \in Seq(Tags) /\ MaxTimers \in Nat /\ Len(slots') \in Nat
  BY <1>1, Lengths, Numbers, LenProperties DEF Inv, TagsOK, Gives
<1>5. e.version \in Nat /\ Odd(e.version) /\ i \in 1..Len(slots') /\ e.version <= 2 * seq_next + 1
  BY <1>1, EntryNumbers DEF Gives
<1>6. \A j \in 1..Len(slots) : /\ j \in 1..Len(slots') /\ slots[j].version \in Nat
                               /\ j # i => slots'[j] = slots[j]
                               /\ j = i => slots'[j].version = slots[j].version + 1
  BY <1>1, OldEntries
<1>7. \A w \in Nat : \A j \in 1..Len(slots) :
         Odd(w) /\ w <= slots[j].version =>
            /\ w <= slots'[j].version
            /\ w = slots'[j].version <=> w = slots[j].version
  BY <1>1, OldEntries
<1>8. \A x \in Of(heap.a) :
         /\ x \in Entries /\ x.version \in Nat /\ EntryFine(x) /\ x.index \in 1..Len(slots)
         /\ x.seq \in Nat /\ x.seq < seq_next /\ Odd(x.version)
         /\ x.version <= slots[x.index].version
  BY <1>1, OldEntries
<1>9. \A x \in Of(heap.a) : Live(x)' <=> Live(x)
  BY <1>1, OldEntries
<1>10. Live(e)'
  BY <1>1 DEF Live, LiveIn
<1>11. /\ tags' \in Seq(Tags) /\ Len(tags') = seq_next + 1
       /\ \A t \in 1..Len(tags) : tags'[t] = tags[t]
       /\ tags'[seq_next + 1] = f
  <2>1. f \in Tags
    BY <1>1 DEF Tags, Entries
  <2> HIDE DEF f
  <2>2. tags' = Append(tags, f)
    BY <1>1 DEF f
  <2> QED
    BY <1>4, <2>1, <2>2, AppendProperties
<1>12. EntriesOK'
  <2>1. ASSUME NEW x \in Of(heap.a) PROVE EntryFine(x)'
    <3>1. x.index \in 1..Len(slots') /\ x.version <= slots'[x.index].version
      BY <1>6, <1>7, <1>8
    <3>2. x.seq < seq_next'
      BY <1>2, <1>4, <1>8
    <3>3. x.seq + 1 \in 1..Len(tags)
      BY <1>4, <1>8
    <3>4. tags'[x.seq + 1] = [index |-> x.index, version |-> x.version, deadline |-> x.deadline]
      BY <1>8, <1>11, <3>3 DEF EntryFine
    <3> QED
      BY <1>8, <3>1, <3>2, <3>4 DEF EntryFine
  <2>2. EntryFine(e)'
    <3>1. e.seq < seq_next' /\ tags'[e.seq + 1] = f
      BY <1>1, <1>2, <1>4, <1>11
    <3>2. e.version <= slots'[i].version
      BY <1>1, <1>5
    <3> QED
      BY <1>1, <1>5, <3>1, <3>2 DEF EntryFine
  <2> QED
    BY <1>1, <2>1, <2>2 DEF EntriesOK
<1>13. \A t \in 1..Len(tags) : /\ tags[t].version \in Nat /\ Odd(tags[t].version)
                               /\ tags[t].index \in 1..Len(slots)
                               /\ tags[t].version <= slots[tags[t].index].version
  <2>1. ASSUME NEW t \in 1..Len(tags) PROVE tags[t].version \in Nat
    <3>1. tags[t] \in Tags
      BY <1>4, ElementOfSeq
    <3> QED
      BY <3>1, Numbers DEF Tags
  <2> QED
    BY <1>3, <2>1 DEF Inv, TagsOK
<1>14. \A t \in 1..Len(tags') : t = seq_next + 1 \/ t \in 1..Len(tags)
  BY <1>4, <1>11
<1>15. TagsOK'
  <2>1. ASSUME NEW t \in 1..Len(tags')
        PROVE  /\ tags'[t].index \in 1..Len(slots') /\ Odd(tags'[t].version)
               /\ tags'[t].version <= slots'[tags'[t].index].version
    <3>1. CASE t = seq_next + 1
      BY <1>1, <1>5, <1>11, <3>1
    <3>2. CASE t \in 1..Len(tags)
      BY <1>6, <1>7, <1>11, <1>13, <3>2
    <3> QED
      BY <1>14, <3>1, <3>2
  <2>2. ASSUME NEW t \in 1..Len(tags), tags[t].index = i PROVE tags[t].version # e.version
    <3>1. tags[t].version \in Nat /\ i \in 1..Len(slots) /\ tags[t].version <= slots[i].version
      BY <1>13, <2>2
    <3>2. e.version = slots[i].version + 1 /\ slots[i].version \in Nat
      BY <1>1, <1>6, <3>1
    <3> QED
      BY <3>1, <3>2
  <2>3. ASSUME NEW t \in 1..Len(tags'), NEW u \in 1..Len(tags'),
               tags'[t].index = tags'[u].index, tags'[t].version = tags'[u].version
        PROVE  t = u
    <3>1. CASE t \in 1..Len(tags) /\ u \in 1..Len(tags)
      BY <1>11, <2>3, <3>1 DEF Inv, TagsOK
    <3>2. CASE t \in 1..Len(tags) /\ u = seq_next + 1
      BY <1>11, <2>2, <2>3, <3>2
    <3>3. CASE t = seq_next + 1 /\ u \in 1..Len(tags)
      BY <1>11, <2>2, <2>3, <3>3
    <3> QED
      BY <1>14, <3>1, <3>2, <3>3
  <2> QED
    BY <1>11, <2>1, <2>3 DEF TagsOK
<1>16. SlotsOK'
  <2>1. ASSUME NEW j \in 1..Len(slots')
        PROVE  IF Odd(slots'[j].version) THEN Occupied(j)' ELSE Vacant(j)'
    <3>1. CASE j = i
      <4>1. slots'[i].version <= 2 * seq_next' - 1
        BY <1>1, <1>2, <1>4, <1>5
      <4>2. e \in Of(heap'.a) /\ e.index = i /\ e.version = slots'[i].version
            /\ e.seq = slots'[i].task
        BY <1>1 DEF Gives
      <4> QED
        BY <1>1, <1>5, <3>1, <4>1, <4>2 DEF Occupied
    <3>2. CASE j # i
      <4>1. j \in 1..Len(slots) /\ slots'[j] = slots[j] /\ slots[j].version \in Nat
        BY <1>1, <1>6, <3>2 DEF Gives
      <4>2. CASE Odd(slots[j].version)
        <5>1. Occupied(j)
          BY <4>1, <4>2 DEF Inv, SlotsOK
        <5>2. slots[j].version <= 2 * seq_next' - 1
          BY <1>2, <1>4, <4>1, <5>1 DEF Occupied
        <5>3. \E x \in Of(heap'.a) : /\ x.index = j /\ x.version = slots[j].version
                                     /\ x.seq = slots[j].task
          BY <1>1, <5>1 DEF Occupied
        <5> QED
          BY <4>1, <4>2, <5>2, <5>3 DEF Occupied
      <4>3. CASE ~Odd(slots[j].version)
        <5>1. Vacant(j)
          BY <4>1, <4>3 DEF Inv, SlotsOK
        <5>2. slots[j].version <= 2 * seq_next' /\ slots[j].task = None
          BY <1>2, <1>4, <4>1, <5>1 DEF Vacant
        <5>3. PICK k \in 1..Len(free) : free[k] = j
          BY <5>1 DEF Vacant
        <5>4. \E m \in 1..Len(free') : free'[m] = j
          BY <1>1, <3>2, <5>3 DEF Gives
        <5> QED
          BY <4>1, <4>3, <5>2, <5>4 DEF Vacant
      <4> QED
        BY <4>2, <4>3
    <3> QED
      BY <3>1, <3>2
  <2>2. Len(slots') <= seq_next'
    BY <1>1, <1>2 DEF Gives
  <2> QED
    BY <2>1, <2>2 DEF SlotsOK
<1>17. FreeOK'
  <2>1. ASSUME NEW k \in 1..Len(free')
        PROVE  free'[k] \in 1..Len(slots') /\ ~Odd(slots'[free'[k]].version)
    <3>1. free'[k] # i /\ \E m \in 1..Len(free) : free[m] = free'[k]
      BY <1>1 DEF Gives
    <3>2. free'[k] \in 1..Len(slots) /\ ~Odd(slots[free'[k]].version)
      BY <3>1 DEF Inv, FreeOK
    <3> QED
      BY <1>6, <3>1, <3>2
  <2>2. \A j, k \in 1..Len(free') : free'[j] = free'[k] => j = k
    BY <1>1 DEF Gives
  <2> QED
    BY <2>1, <2>2 DEF FreeOK
<1>18. StackOK' /\ HeapOK'
  BY <1>1, <1>2, <1>3 DEF Inv, StackOK, HeapOK
<1>19. DeadOK'
  <2>1. DeadIn(heap'.a, slots') = DeadIn(heap.a, slots)
    BY <1>1, <1>9, <1>10 DEF DeadIn, Live
  <2> QED
    BY <1>2, <2>1 DEF Inv, DeadOK
<1>20. TypeOK'
  <2>1. heap'.a \in Seq(Entries) /\ heap'.cap \in Nat
    BY <1>1 DEF Sound, Heaps
  <2>2. slots' \in Seq(Slot) /\ free' \in Seq(1..MaxTimers)
    BY <1>1 DEF Gives
  <2>3. seq_next' \in 0..MaxTimers /\ Len(tags') = seq_next'
    BY <1>2, <1>4, <1>11
  <2> QED
    BY <1>1, <1>2, <2>1, <2>2, <2>3 DEF Inv, TypeOK, Slot
<1>21. DestroyedOK'
  <2>1. \A t : Armed(t)' <=> Armed(t) \/ t = seq_next
    BY <1>1, <1>9, <1>10 DEF Armed
  <2>2. \A t : Runs(stack, t)' <=> Runs(stack, t)
    BY <1>2 DEF Runs
  <2>3. \A t \in Ids : t \in Nat /\ (t < seq_next' <=> t < seq_next \/ t = seq_next)
    BY <1>2, <1>4, Numbers
  <2>4. ASSUME NEW t \in Ids
        PROVE  destroyed'[t] = IF t < seq_next' /\ ~Armed(t)' /\ ~Runs(stack, t)' THEN 1 ELSE 0
    <3>1. CASE t = seq_next
      <4>1. ~(t < seq_next) /\ Armed(t)'
        BY <1>4, <2>1, <3>1
      <4> QED
        BY <1>2, <4>1 DEF Inv, DestroyedOK
    <3>2. CASE t # seq_next
      BY <1>2, <2>1, <2>2, <2>3, <3>2 DEF Inv, DestroyedOK
    <3> QED
      BY <3>1, <3>2
  <2>5. ASSUME NEW t \in Ids \cup {None}, Runs(stack, t)'
        PROVE  t \in Ids /\ t < seq_next' /\ ~Armed(t)'
    <3>1. t \in Ids /\ t < seq_next /\ ~Armed(t)
      BY <2>2, <2>5 DEF Inv, DestroyedOK
    <3>2. t # seq_next
      BY <1>4, <3>1
    <3> QED
      BY <2>1, <2>3, <3>1, <3>2
  <2> QED
    BY <2>4, <2>5 DEF DestroyedOK
<1> QED
  BY <1>12, <1>15, <1>16, <1>17, <1>18, <1>19, <1>20, <1>21 DEF Inv

-----------------------------------------------------------------------------
LEMMA RemainingArmed == Inv => \A t : t \in Remaining <=> Armed(t)
<1> SUFFICES ASSUME Inv, NEW t PROVE t \in Remaining <=> Armed(t)
  OBVIOUS
<1>1. ASSUME t \in Remaining PROVE Armed(t)
  <2>1. PICK p \in LivePlaces : t = slots[heap.a[p].index].task
    BY <1>1 DEF Remaining
  <2>2. heap.a[p] \in Of(heap.a) /\ Live(heap.a[p])
    BY DEF LivePlaces, Of
  <2>3. heap.a[p].seq = t
    BY <2>1, <2>2, LiveSlot
  <2> QED
    BY <2>2, <2>3 DEF Armed
<1>2. ASSUME Armed(t) PROVE t \in Remaining
  <2>1. PICK x \in Of(heap.a) : Live(x) /\ x.seq = t
    BY <1>2 DEF Armed
  <2>2. PICK p \in 1..Len(heap.a) : x = heap.a[p]
    BY DEF Of
  <2>3. p \in LivePlaces /\ slots[heap.a[p].index].task = t
    BY <2>1, <2>2, LiveSlot DEF LivePlaces
  <2> QED
    BY <2>3 DEF Remaining
<1> QED
  BY <1>1, <1>2

LEMMA DeinitInv == Inv /\ Deinit => Inv'
<1> SUFFICES ASSUME Inv, Deinit PROVE Inv'
  OBVIOUS
<1> DEFINE f == Frame("gone", 0, None)
<1>1. /\ stack = <<>> /\ stack' = <<f>>
      /\ destroyed' = [t \in Ids |-> IF t \in Remaining THEN destroyed[t] + 1 ELSE destroyed[t]]
      /\ heap' = [a |-> <<>>, cap |-> 0]
      /\ slots' = <<>> /\ free' = <<>> /\ slot_cap' = 0 /\ tombstones' = 0
      /\ UNCHANGED <<seq_next, tags, fired>>
  BY DEF Deinit
<1>2. f \in Frames /\ f.at = "gone" /\ f.now = 0
  BY DEF Frame, Frames
<1>3. stack' \in Seq(Frames) /\ Len(stack') = 1 /\ stack'[1] = f /\ stack' # <<>>
  BY <1>1, <1>2
<1> HIDE DEF f
<1>4. Gone'
  BY <1>2, <1>3 DEF Gone
<1>5. heap'.a = <<>> /\ heap'.cap = 0 /\ Len(heap'.a) = 0 /\ Len(slots') = 0 /\ Len(free') = 0
  BY <1>1
<1>6. Of(heap'.a) = {}
  BY <1>5 DEF Of
<1>7. HeapOK'
  <2>1. heap' \in Heaps
    BY <1>1 DEF Heaps
  <2>2. Distinct(heap'.a) /\ H!IsHeap(heap'.a)
    BY <1>5 DEF Distinct, H!IsHeap
  <2> QED
    BY <1>1, <1>5, <2>1, <2>2 DEF HeapOK, Sound
<1>8. EntriesOK' /\ FreeOK'
  BY <1>5, <1>6 DEF EntriesOK, FreeOK
<1>9. TagsOK'
  BY <1>1, <1>4 DEF Inv, TagsOK
<1>10. SlotsOK'
  BY <1>1, <1>5, Lengths DEF SlotsOK, Inv
<1>11. StackOK'
  <2>1. \A k \in 2..Len(stack') : FALSE
    BY <1>3
  <2>2. ~(Len(stack') > 1)
    BY <1>3
  <2> QED
    BY <1>1, <1>2, <1>3, <1>5, <2>1, <2>2 DEF StackOK
<1>12. DeadOK'
  <2>1. DeadIn(heap'.a, slots') = {}
    BY <1>6 DEF DeadIn
  <2> QED
    BY <1>1, <2>1, FS_EmptySet DEF DeadOK
<1>13. destroyed \in [Ids -> Nat]
  BY DEF Inv, TypeOK
<1>14. TypeOK'
  <2>1. destroyed' \in [Ids -> Nat]
    BY <1>1, <1>13
  <2>2. heap'.a \in Seq(Entries) /\ heap'.cap \in Nat
    BY <1>5
  <2> QED
    BY <1>1, <1>3, <2>1, <2>2 DEF Inv, TypeOK, Frames
<1>15. DestroyedOK'
  <2>1. \A t : ~Armed(t)'
    BY <1>6 DEF Armed
  <2>2. \A t : ~Runs(stack, t) /\ ~Runs(stack, t)'
    <3>1. \A k \in 1..Len(stack') : stack'[k].at = "gone"
      BY <1>2, <1>3
    <3>2. Len(stack) = 0
      BY <1>1
    <3> QED
      BY <3>1, <3>2 DEF Runs
  <2>3. ASSUME NEW t \in Ids PROVE destroyed'[t] = IF t < seq_next THEN 1 ELSE 0
    <3>1. destroyed'[t] = IF Armed(t) THEN destroyed[t] + 1 ELSE destroyed[t]
      BY <1>1, RemainingArmed
    <3>2. destroyed[t] = IF t < seq_next /\ ~Armed(t) THEN 1 ELSE 0
      BY <2>2 DEF Inv, DestroyedOK
    <3>3. Armed(t) => t < seq_next
      BY DEF Armed, Inv, EntriesOK, EntryFine
    <3> QED
      BY <3>1, <3>2, <3>3
  <2> QED
    BY <1>1, <2>1, <2>2, <2>3 DEF DestroyedOK
<1> QED
  BY <1>7, <1>8, <1>9, <1>10, <1>11, <1>12, <1>14, <1>15 DEF Inv

-----------------------------------------------------------------------------
LEMMA NextInv == Inv /\ [Next]_vars => Inv'
<1> SUFFICES ASSUME Inv, [Next]_vars PROVE Inv'
  OBVIOUS
<1>1. CASE UNCHANGED vars
  <2>1. UNCHANGED <<heap, slots, slot_cap, free, tombstones, seq_next, stack, tags, fired, destroyed>>
    BY <1>1 DEF vars
  <2>2. Gone' <=> Gone
    BY <2>1 DEF Gone
  <2>3. \A x : Live(x)' <=> Live(x)
    BY <2>1 DEF Live, LiveIn
  <2>4. HeapOK' /\ EntriesOK' /\ TagsOK' /\ FreeOK' /\ DeadOK'
    BY <2>1, <2>2 DEF Inv, HeapOK, EntriesOK, EntryFine, TagsOK, FreeOK, DeadOK
  <2>5. SlotsOK' /\ StackOK'
    BY <2>1, <2>2 DEF Inv, SlotsOK, Occupied, Vacant, StackOK
  <2>6. \A t : (Armed(t)' <=> Armed(t)) /\ (Runs(stack, t)' <=> Runs(stack, t))
    BY <2>1, <2>3 DEF Armed, Runs
  <2>7. DestroyedOK'
    BY <2>1, <2>6, SameWaits
  <2>8. TypeOK'
    BY <2>1 DEF Inv, TypeOK
  <2> QED
    BY <2>4, <2>5, <2>7, <2>8 DEF Inv
<1>2. CASE \E d \in Deadlines : Push(d)
  BY <1>2, PushInv
<1>3. CASE \E d \in Deadlines : SvcBegin(d)
  BY <1>3, SvcBeginInv
<1>4. CASE \E t \in Ids : Cancel(t)
  BY <1>4, CancelInv
<1>5. CASE Peek
  BY <1>5, PeekInv
<1>6. CASE CancelReturns
  BY <1>6, CancelReturnsInv
<1>7. CASE SvcDropsTombstone
  BY <1>7, DropsTombstoneInv
<1>8. CASE SvcFires
  BY <1>8, SvcFiresInv
<1>9. CASE TaskReturns
  BY <1>9, TaskReturnsInv
<1>10. CASE DropReturns
  BY <1>10, DropReturnsInv
<1>11. CASE SvcEnds
  BY <1>11, SvcEndsInv
<1>12. CASE Deinit
  BY <1>12, DeinitInv
<1> QED
  BY <1>1, <1>2, <1>3, <1>4, <1>5, <1>6, <1>7, <1>8, <1>9, <1>10, <1>11, <1>12 DEF Next

(* Every reachable state of the heap satisfies the inductive invariant:    *)
(* entries, tags, slots, free list, tombstone counter, calls underway and  *)
(* destroyed tasks tell the same story.                                    *)
THEOREM TimersInvariant == Spec => []Inv
<1>1. Init => Inv
  BY InitInv
<1>2. Inv /\ [Next]_vars => Inv'
  BY NextInv
<1> QED
  BY <1>1, <1>2, PTL DEF Spec

LEMMA InvCounts == Inv => TombstonesCounted
<1> SUFFICES ASSUME Inv PROVE TombstonesCounted
  OBVIOUS
<1> DEFINE S == (1..Len(heap.a)) \ LivePlaces
           T == DeadIn(heap.a, slots)
           f == [p \in S |-> heap.a[p]]
<1>1. heap.a \in Seq(Entries) /\ Distinct(heap.a)
  BY DEF Inv, HeapOK, Sound, Heaps
<1>2. IsFiniteSet(S)
  <2>1. IsFiniteSet(1..Len(heap.a)) /\ S \in SUBSET (1..Len(heap.a))
    BY <1>1, LenProperties, PlacesFinite
  <2> QED
    BY <2>1, FS_Subset
<1>3. \A p \in S : p \in 1..Len(heap.a) /\ ~Live(heap.a[p])
  BY DEF LivePlaces
<1>4. f \in [S -> T]
  <2>1. \A p \in S : heap.a[p] \in T
    BY <1>3 DEF DeadIn, Of, Live
  <2> HIDE DEF S, T
  <2> QED
    BY <2>1
<1>5. \A p, q \in S : f[p] = f[q] => p = q
  BY <1>1, <1>3 DEF Distinct
<1>6. ASSUME NEW x \in T PROVE \E p \in S : f[p] = x
  <2>1. x \in Of(heap.a) /\ ~Live(x)
    BY DEF DeadIn, Live
  <2>2. PICK p \in 1..Len(heap.a) : x = heap.a[p]
    BY <2>1 DEF Of
  <2>3. p \in S
    BY <2>1, <2>2 DEF LivePlaces
  <2> HIDE DEF S
  <2> QED
    BY <2>2, <2>3
<1>7. Cardinality(T) = Cardinality(S)
  <2> HIDE DEF S, T, f
  <2> QED
    BY <1>2, <1>4, <1>5, <1>6, OneForOne
<1> QED
  BY <1>7 DEF Inv, DeadOK, TombstonesCounted

LEMMA InvMatches == Inv => SlotsMatchEntries
<1> SUFFICES ASSUME Inv PROVE SlotsMatchEntries
  OBVIOUS
<1>0. heap.a \in Seq(Entries) /\ Distinct(heap.a)
  BY DEF Inv, HeapOK, Sound, Heaps
<1>1. \A p \in LivePlaces : p \in 1..Len(heap.a) /\ heap.a[p] \in Of(heap.a) /\ Live(heap.a[p])
  BY DEF LivePlaces, Of
<1>2. \A p \in LivePlaces : slots[heap.a[p].index].task = heap.a[p].seq
  BY <1>1, LiveSlot
<1>3. ASSUME NEW i \in 1..Len(slots), Odd(slots[i].version)
      PROVE  Cardinality({p \in LivePlaces : heap.a[p].index = i}) = 1
  <2>1. Occupied(i)
    BY <1>3 DEF Inv, SlotsOK
  <2>2. PICK x \in Of(heap.a) : x.index = i /\ x.version = slots[i].version
    BY <2>1 DEF Occupied
  <2>3. PICK p \in 1..Len(heap.a) : x = heap.a[p]
    BY DEF Of
  <2>4. Live(x) /\ p \in LivePlaces
    BY <2>2, <2>3 DEF LivePlaces, Live, LiveIn
  <2>5. ASSUME NEW q \in LivePlaces, heap.a[q].index = i PROVE q = p
    <3>1. heap.a[q] = x
      BY <1>1, <2>2, <2>4, <2>5, OneLive
    <3> QED
      BY <1>0, <1>1, <2>3, <3>1 DEF Distinct
  <2>6. {q \in LivePlaces : heap.a[q].index = i} = {p}
    BY <2>2, <2>3, <2>4, <2>5
  <2> QED
    BY <2>6, FS_Singleton
<1>4. ASSUME NEW i \in 1..Len(slots), ~Odd(slots[i].version)
      PROVE  Cardinality({k \in 1..Len(free) : free[k] = i}) = 1
  <2>1. Vacant(i)
    BY <1>4 DEF Inv, SlotsOK
  <2>2. PICK k \in 1..Len(free) : free[k] = i
    BY <2>1 DEF Vacant
  <2>3. {m \in 1..Len(free) : free[m] = i} = {k}
    BY <2>2 DEF Inv, FreeOK
  <2> QED
    BY <2>3, FS_Singleton
<1>5. Len(free) = Cardinality({i \in 1..Len(slots) : slots[i].version % 2 = 0})
  <2> DEFINE T == {i \in 1..Len(slots) : slots[i].version % 2 = 0}
             S == 1..Len(free)
             f == [k \in S |-> free[k]]
  <2>1. \A i \in 1..Len(slots) : slots[i].version % 2 = 0 <=> ~Odd(slots[i].version)
    BY SlotNumbers, Parity DEF Inv
  <2>2. IsFiniteSet(S) /\ Cardinality(S) = Len(free)
    BY Lengths, PlacesFinite DEF Inv
  <2>3. \A k \in S : free[k] \in T
    BY <2>1 DEF Inv, FreeOK
  <2>4. \A j, k \in S : f[j] = f[k] => j = k
    BY DEF Inv, FreeOK
  <2>5. ASSUME NEW i \in T PROVE \E k \in S : f[k] = i
    BY <2>1 DEF Inv, SlotsOK, Vacant
  <2>6. f \in [S -> T]
    <3> HIDE DEF S, T
    <3> QED
      BY <2>3
  <2>7. Cardinality(T) = Cardinality(S)
    <3> HIDE DEF S, T, f
    <3> QED
      BY <2>2, <2>4, <2>5, <2>6, OneForOne
  <2> QED
    BY <2>2, <2>7
<1> QED
  BY <1>2, <1>3, <1>4, <1>5 DEF SlotsMatchEntries, Odd

(* For every number of timers, depth of callbacks and capacity: the array  *)
(* of ntt_timer_heap stays a heap that fits its memory, its tombstone      *)
(* counter is exact, and slots, free list and entries agree, whatever      *)
(* calls back into it.                                                     *)
THEOREM HeapAlwaysConsistent == Spec => []HeapConsistent
<1>1. Inv => HeapConsistent
  BY InvCounts, InvMatches DEF Inv, HeapConsistent, HeapOrdered, HeapOK, Sound
<1> QED
  BY <1>1, TimersInvariant, PTL

(* The task of every timer is destroyed once: not while it is armed or     *)
(* runs, and no later than ntt_timer_heap_deinit.                          *)
THEOREM TasksDestroyedOnce == Spec => []TaskDestroyedOnce
<1>1. Inv => TaskDestroyedOnce
  <2> SUFFICES ASSUME Inv, NEW t \in 0..(seq_next - 1)
               PROVE  destroyed[t] = IF \/ \E p \in LivePlaces : heap.a[p].seq = t
                                        \/ \E k \in 1..Len(stack) :
                                              stack[k].at = "run" /\ stack[k].task = t
                                     THEN 0 ELSE 1
    BY DEF TaskDestroyedOnce
  <2>1. t \in Ids /\ t < seq_next
    BY Lengths, Numbers DEF Inv
  <2>2. (\E p \in LivePlaces : heap.a[p].seq = t) <=> Armed(t)
    BY DEF LivePlaces, Armed, Of
  <2>3. destroyed[t] = IF Armed(t) \/ Runs(stack, t) THEN 0 ELSE 1
    BY <2>1 DEF Inv, DestroyedOK
  <2> QED
    BY <2>2, <2>3 DEF Runs
<1> QED
  BY <1>1, TimersInvariant, PTL

(* A tag cancels the timer it was returned for and no other: its version   *)
(* tells it from every other timer its slot has served.                    *)
THEOREM TagsCancelTheirOwn == Spec => CancelsItsOwn
<1>1. ASSUME Inv, NEW t \in Ids, Cancel(t)
      PROVE  (\E p \in LivePlaces : heap.a[p].seq = t) /\ destroyed'[t] = 1
  <2>1. PICK x \in Of(heap.a) : /\ Live(x) /\ x.seq = t
                                /\ destroyed' = [destroyed EXCEPT ![t] = @ + 1]
    BY <1>1, CancelSteps
  <2>2. \E p \in LivePlaces : heap.a[p].seq = t
    BY <2>1 DEF LivePlaces, Of
  <2>3. destroyed \in [Ids -> Nat] /\ destroyed[t] = 0
    BY <1>1, <2>1 DEF Inv, TypeOK, DestroyedOK, Armed
  <2> QED
    BY <2>1, <2>2, <2>3
<1>2. Inv => [\A t \in Ids : Cancel(t) =>
                 /\ \E p \in LivePlaces : heap.a[p].seq = t
                 /\ destroyed'[t] = 1]_vars
  BY <1>1
<1> QED
  BY <1>2, TimersInvariant, PTL DEF CancelsItsOwn

-----------------------------------------------------------------------------
(* The heap implements Timers: its armed timers are those of the live      *)
(* entries, its pass is the call at the bottom.                            *)
Timer(x) == [deadline |-> x.deadline, seq |-> x.seq]
LiveOf(h, ss) == {x \in Of(h) : LiveIn(ss, x)}
TimersOf(h, ss) == {Timer(x) : x \in LiveOf(h, ss)}

ArmedTimers == {[deadline |-> heap.a[p].deadline, seq |-> heap.a[p].seq] : p \in LivePlaces}
Pass == IF stack # <<>> /\ stack[1].now # 0 THEN stack[1].now ELSE 0

LEMMA ArmedAre ==
    ArmedTimers = TimersOf(heap.a, slots) /\ ArmedTimers' = TimersOf(heap'.a, slots')
<1>1. ASSUME NEW h, NEW ss
      PROVE  {[deadline |-> h[p].deadline, seq |-> h[p].seq] :
                 p \in {q \in 1..Len(h) : LiveIn(ss, h[q])}} = TimersOf(h, ss)
  <2> DEFINE L == {q \in 1..Len(h) : LiveIn(ss, h[q])}
             A == {[deadline |-> h[p].deadline, seq |-> h[p].seq] : p \in L}
  <2>1. ASSUME NEW u \in A PROVE u \in TimersOf(h, ss)
    <3>1. PICK p \in L : u = [deadline |-> h[p].deadline, seq |-> h[p].seq]
      OBVIOUS
    <3>2. h[p] \in LiveOf(h, ss) /\ u = Timer(h[p])
      BY <3>1 DEF LiveOf, Of, Timer
    <3> QED
      BY <3>2 DEF TimersOf
  <2>2. ASSUME NEW u \in TimersOf(h, ss) PROVE u \in A
    <3>1. PICK x \in LiveOf(h, ss) : u = Timer(x)
      BY DEF TimersOf
    <3>2. PICK p \in 1..Len(h) : x = h[p]
      BY DEF LiveOf, Of
    <3>3. p \in L
      BY <3>1, <3>2 DEF LiveOf
    <3> QED
      BY <3>1, <3>2, <3>3 DEF Timer
  <2> HIDE DEF A
  <2>3. A = TimersOf(h, ss)
    BY <2>1, <2>2
  <2> QED
    BY <2>3 DEF A
<1> QED
  BY <1>1, Zenon DEF ArmedTimers, LivePlaces, Live

(* The steps of Timers, as the mapping reads them.                         *)
LEMMA IsArm ==
    ASSUME NEW d \in Deadlines, seq_next < MaxTimers, seq_next' = seq_next + 1,
           ArmedTimers' = ArmedTimers \cup {[deadline |-> d, seq |-> seq_next]},
           fired' = fired, Pass' = Pass
    PROVE  Abstract!Next
<1>1. Abstract!Arm(d)
  BY DEF Abstract!Arm, ArmedTimers, Pass
<1> QED
  BY <1>1 DEF Abstract!Next

LEMMA IsCancel ==
    ASSUME NEW t \in ArmedTimers, ArmedTimers' = ArmedTimers \ {t},
           seq_next' = seq_next, fired' = fired, Pass' = Pass
    PROVE  Abstract!Next
<1>1. Abstract!Cancel(t)
  BY DEF Abstract!Cancel, ArmedTimers, Pass
<1> QED
  BY <1>1, Zenon DEF Abstract!Next, ArmedTimers

LEMMA IsBegin ==
    ASSUME NEW d \in Deadlines, Pass = 0, Pass' = d, ArmedTimers' = ArmedTimers,
           seq_next' = seq_next, fired' = fired
    PROVE  Abstract!Next
<1>1. Abstract!Begin(d)
  BY DEF Abstract!Begin, ArmedTimers, Pass
<1> QED
  BY <1>1 DEF Abstract!Next

LEMMA IsFire ==
    ASSUME NEW t \in ArmedTimers, Pass # 0, t.deadline <= Pass,
           \A u \in ArmedTimers \ {t} : Abstract!Before(t, u),
           ArmedTimers' = ArmedTimers \ {t}, fired' = Append(fired, t),
           seq_next' = seq_next, Pass' = Pass
    PROVE  Abstract!Next
<1>1. Abstract!Fire(t)
  BY DEF Abstract!Fire, ArmedTimers, Pass
<1> QED
  BY <1>1, Zenon DEF Abstract!Next, ArmedTimers

LEMMA IsEnd ==
    ASSUME Pass # 0, Pass' = 0, \A t \in ArmedTimers : t.deadline > Pass,
           ArmedTimers' = ArmedTimers, seq_next' = seq_next, fired' = fired
    PROVE  Abstract!Next
<1>1. Abstract!End
  BY DEF Abstract!End, ArmedTimers, Pass
<1> QED
  BY <1>1 DEF Abstract!Next

LEMMA IsDrop ==
    ASSUME Pass = 0, Pass' = 0, ArmedTimers' = {}, seq_next' = seq_next, fired' = fired
    PROVE  Abstract!Next
<1>1. Abstract!Drop
  BY DEF Abstract!Drop, ArmedTimers, Pass
<1> QED
  BY <1>1 DEF Abstract!Next

LEMMA IsStutter ==
    ASSUME ArmedTimers' = ArmedTimers, seq_next' = seq_next, fired' = fired, Pass' = Pass
    PROVE  UNCHANGED Abstract!vars
  BY DEF Abstract!vars, ArmedTimers, Pass

(* The steps inside, which Timers does not see.                            *)
LEMMA DropsUnseen ==
    ASSUME DropsOnlyDead, slots' = slots
    PROVE  ArmedTimers' = ArmedTimers
<1>1. LiveOf(heap'.a, slots') = LiveOf(heap.a, slots)
  BY DEF DropsOnlyDead, LiveOf, Live
<1> QED
  BY <1>1, ArmedAre DEF TimersOf

LEMMA SameTimers ==
    ASSUME UNCHANGED <<heap, slots>>
    PROVE  ArmedTimers' = ArmedTimers
  BY ArmedAre

LEMMA NotEmpty ==
    ASSUME NEW s, Len(s) >= 1
    PROVE  s # <<>>
<1>1. Len(<<>>) = 0
  OBVIOUS
<1> QED
  BY <1>1

LEMMA ReturnPass ==
    ASSUME Inv, At = "cancel", Return
    PROVE  Pass' = Pass
<1>1. stack # <<>> /\ stack[Len(stack)].at = "cancel" /\ stack' = SubSeq(stack, 1, Len(stack) - 1)
  BY DEF At, Top, Return
<1>2. stack \in Seq(Frames) /\ Len(stack) \in Nat /\ Len(stack) > 0
  BY <1>1, StackType, Lengths DEF Inv
<1>3. CASE Len(stack) = 1
  <2>1. stack' = <<>>
    BY <1>1, <1>3, SubSeqEmpty
  <2>2. stack[1].now = 0
    BY <1>1, <1>3 DEF Inv, StackOK
  <2> QED
    BY <2>1, <2>2 DEF Pass
<1>4. CASE Len(stack) # 1
  <2> DEFINE n == Len(stack) - 1
  <2>0. \A m \in Nat : m > 0 /\ m # 1 =>
           m - 1 \in Nat /\ m - 1 >= 1 /\ \A i \in 1..(m - 1) : i \in 1..m
    OBVIOUS
  <2>1. n \in Nat /\ n >= 1 /\ \A i \in 1..n : i \in 1..Len(stack)
    BY <1>2, <1>4, <2>0
  <2>2. \A i \in 1..n : stack[i] \in Frames
    BY <1>2, <2>1, ElementOfSeq
  <2>3. /\ SubSeq(stack, 1, n) \in Seq(Frames)
        /\ Len(SubSeq(stack, 1, n)) = IF 1 <= n THEN n - 1 + 1 ELSE 0
        /\ \A i \in 1..(n - 1 + 1) : SubSeq(stack, 1, n)[i] = stack[1 + i - 1]
    <3> HIDE DEF n
    <3> QED
      BY <2>1, <2>2, SubSeqProperties
  <2> HIDE DEF n
  <2>4. Len(SubSeq(stack, 1, n)) = n /\ SubSeq(stack, 1, n)[1] = stack[1]
    BY <2>1, <2>3
  <2>5. stack' # <<>> /\ stack'[1] = stack[1]
    <3>1. stack' = SubSeq(stack, 1, n)
      BY <1>1 DEF n
    <3>2. Len(stack') = n /\ stack'[1] = stack[1]
      BY <2>4, <3>1
    <3> QED
      BY <2>1, <3>2, NotEmpty
  <2> QED
    BY <1>1, <2>5 DEF Pass
<1> QED
  BY <1>3, <1>4

LEMMA PassGoesOn ==
    ASSUME Inv, At \in {"pass", "run", "drop"}, NEW at \in {"pass", "run", "drop"},
           NEW task \in Ids \cup {None}, Continue(at, task)
    PROVE  Pass' = Pass /\ Pass = stack[1].now /\ Pass # 0
<1>1. stack # <<>> /\ stack[1].now # 0
  BY BottomFrame
<1>2. stack' \in Seq(Frames) /\ Len(stack') = 1 /\ stack'[1].now = stack[1].now
  BY ContinuePass
<1>3. stack' # <<>>
  <2>1. Len(stack') >= 1
    BY <1>2
  <2> QED
    BY <2>1, NotEmpty, Zenon
<1> QED
  BY <1>1, <1>2, <1>3 DEF Pass

(* A push is an arming.                                                    *)
LEMMA PushArms == Inv /\ (\E d \in Deadlines : Push(d)) => Abstract!Next
<1> SUFFICES ASSUME Inv, NEW d \in Deadlines, Push(d) PROVE Abstract!Next
  OBVIOUS
<1>1. PICK e \in Entries :
         /\ e.deadline = d /\ e.seq = seq_next /\ e.version = slots'[e.index].version
         /\ Gives(e.index) /\ Of(heap'.a) = Of(heap.a) \cup {e}
  BY PushSteps
<1>2. \A x \in Of(heap.a) : LiveIn(slots', x) <=> LiveIn(slots, x)
  BY <1>1, OldEntries DEF Live
<1>3. LiveIn(slots', e)
  BY <1>1 DEF LiveIn
<1>4. LiveOf(heap'.a, slots') = LiveOf(heap.a, slots) \cup {e}
  BY <1>1, <1>2, <1>3 DEF LiveOf
<1>5. TimersOf(heap'.a, slots') = TimersOf(heap.a, slots) \cup {Timer(e)}
  BY <1>4 DEF TimersOf
<1>6. Timer(e) = [deadline |-> d, seq |-> seq_next]
  BY <1>1 DEF Timer
<1>7. ArmedTimers' = ArmedTimers \cup {[deadline |-> d, seq |-> seq_next]}
  BY <1>5, <1>6, ArmedAre
<1>8. Pass' = Pass /\ seq_next < MaxTimers /\ seq_next' = seq_next + 1 /\ fired' = fired
  BY DEF Push, Pass
<1> QED
  BY <1>7, <1>8, IsArm

(* The timer of an entry that goes is no other entry's.                    *)
LEMMA TimerGoes ==
    ASSUME Inv, NEW x \in Of(heap.a), Live(x),
           LiveOf(heap'.a, slots') = LiveOf(heap.a, slots) \ {x}
    PROVE  Timer(x) \in ArmedTimers /\ ArmedTimers' = ArmedTimers \ {Timer(x)}
<1>1. x \in LiveOf(heap.a, slots)
  BY DEF LiveOf, Live
<1>2. Timer(x) \in ArmedTimers
  BY <1>1, ArmedAre DEF TimersOf
<1>3. \A y \in LiveOf(heap.a, slots) : y # x => Timer(y) # Timer(x)
  <2>1. \A y \in Of(heap.a) : y.seq = x.seq => y = x
    BY DEF Inv, HeapOK, Sound, Distinct, Of
  <2>2. ASSUME NEW y, Timer(y) = Timer(x) PROVE y.seq = x.seq
    <3>1. Timer(y).seq = y.seq /\ Timer(x).seq = x.seq
      BY DEF Timer
    <3> QED
      BY <2>2, <3>1
  <2> QED
    BY <2>1, <2>2 DEF LiveOf
<1>4. TimersOf(heap'.a, slots') = TimersOf(heap.a, slots) \ {Timer(x)}
  BY <1>3 DEF TimersOf
<1> QED
  BY <1>2, <1>4, ArmedAre

LEMMA CancelCancels == Inv /\ (\E t \in Ids : Cancel(t)) => Abstract!Next
<1> SUFFICES ASSUME Inv, NEW t \in Ids, Cancel(t) PROVE Abstract!Next
  OBVIOUS
<1>1. PICK x \in Of(heap.a) :
         /\ Live(x) /\ slots' = FreedSlot(x.index) /\ free' = <<x.index>> \o free
         /\ stack' = Append(stack, Frame("cancel", 0, t))
  BY CancelSteps
<1>2. InApplication /\ UNCHANGED <<heap, seq_next, tags, fired>>
  BY DEF Cancel
<1>3. /\ stack' \in Seq(Frames) /\ ~Gone /\ ~Gone'
      /\ stack # <<>> => stack'[1] = stack[1]
      /\ stack = <<>> => stack'[1].now = 0
  BY <1>1, <1>2, Calls
<1>4. ~Live(x)' /\ \A y \in Of(heap.a) : y # x => (Live(y)' <=> Live(y))
  BY <1>1, <1>2, <1>3, FreesSlot
<1>5. LiveOf(heap'.a, slots') = LiveOf(heap.a, slots) \ {x}
  BY <1>2, <1>4 DEF LiveOf, Live
<1>6. Timer(x) \in ArmedTimers /\ ArmedTimers' = ArmedTimers \ {Timer(x)}
  BY <1>1, <1>5, TimerGoes
<1>7. Pass' = Pass
  <2>1. stack' # <<>>
    BY <1>1, <1>3, Lengths, EmptySeq, StackType DEF Inv
  <2> QED
    BY <1>3, <2>1 DEF Pass
<1> QED
  BY <1>2, <1>6, <1>7, IsCancel

(* The root comes before every other entry of the array.                   *)
LEMMA RootFirst ==
    ASSUME Inv, heap.a # <<>>, NEW y \in Of(heap.a)
    PROVE  /\ heap.a[1].deadline <= y.deadline
           /\ y # heap.a[1] => /\ y.seq # heap.a[1].seq
                               /\ Abstract!Before(Timer(heap.a[1]), Timer(y))
<1> DEFINE x == heap.a[1]
<1>1. heap.a \in Seq(Entries) /\ H!IsHeap(heap.a) /\ Distinct(heap.a)
  BY DEF Inv, HeapOK, Sound, Heaps
<1>2. x \in Of(heap.a) /\ x \in Entries /\ y \in Entries
  BY <1>1, RootOf, OfEntries
<1>3. PICK p \in 1..Len(heap.a) : y = heap.a[p]
  BY DEF Of
<1>4. ~EntryLess(y, x)
  <2>1. P!IsHeap(heap.a)
    BY <1>1 DEF P!IsHeap, H!IsHeap
  <2>2. ~EntryLess(heap.a[p], heap.a[1])
    BY <1>1, <2>1, EntriesOrdered, P!RootIsLeast
  <2> QED
    BY <1>3, <2>2
<1>5. y.seq = x.seq => y = x
  BY <1>1, <1>2 DEF Distinct, Of
<1>6. /\ x.deadline \in Nat /\ y.deadline \in Nat /\ x.seq \in Nat /\ y.seq \in Nat
  BY <1>2, EntryNumbers
<1>7. /\ Timer(x).deadline = x.deadline /\ Timer(x).seq = x.seq
      /\ Timer(y).deadline = y.deadline /\ Timer(y).seq = y.seq
  BY DEF Timer
<1> HIDE DEF x
<1>8. x.deadline <= y.deadline /\ (y # x => y.seq # x.seq /\ Abstract!Before(Timer(x), Timer(y)))
  BY <1>4, <1>5, <1>6, <1>7 DEF EntryLess, Abstract!Before
<1> QED
  BY <1>8 DEF x

LEMMA FireFires == Inv /\ SvcFires => Abstract!Next
<1> SUFFICES ASSUME Inv, SvcFires PROVE Abstract!Next
  OBVIOUS
<1>0. PICK x : x = heap.a[1]
  OBVIOUS
<1>1. /\ x \in Of(heap.a) /\ x \in Entries /\ Live(x) /\ heap.a # <<>>
      /\ At = "pass" /\ ~Gone /\ x.deadline <= stack[1].now
      /\ slots' = FreedSlot(x.index) /\ free' = <<x.index>> \o free
      /\ fired' = Append(fired, [deadline |-> x.deadline, seq |-> x.seq])
      /\ Continue("run", x.seq)
      /\ Of(heap'.a) = Of(heap.a) \ {x}
      /\ UNCHANGED <<seq_next, tags>>
  BY <1>0, FireSteps
<1>2. x.seq \in Ids
  BY <1>1, EntryNumbers
<1>3. ~Gone'
  BY <1>1, <1>2, ContinuePass
<1>4. Pass' = Pass /\ Pass = stack[1].now /\ Pass # 0
  BY <1>1, <1>2, PassGoesOn
<1>5. \A y \in Of(heap.a) : y # x => (Live(y)' <=> Live(y))
  BY <1>1, <1>3, FreesSlot
<1>6. LiveOf(heap'.a, slots') = LiveOf(heap.a, slots) \ {x}
  BY <1>1, <1>5 DEF LiveOf, Live
<1>7. Timer(x) \in ArmedTimers /\ ArmedTimers' = ArmedTimers \ {Timer(x)}
  BY <1>1, <1>6, TimerGoes
<1>8. ASSUME NEW u \in ArmedTimers \ {Timer(x)} PROVE Abstract!Before(Timer(x), u)
  <2>1. PICK y \in LiveOf(heap.a, slots) : u = Timer(y)
    BY ArmedAre DEF TimersOf
  <2>2. y \in Of(heap.a) /\ y # x
    BY <1>8, <2>1 DEF LiveOf
  <2> QED
    BY <1>0, <1>1, <2>1, <2>2, RootFirst
<1>9. fired' = Append(fired, Timer(x)) /\ Timer(x).deadline = x.deadline
  BY <1>1 DEF Timer
<1> QED
  BY <1>1, <1>4, <1>7, <1>8, <1>9, IsFire

LEMMA EndEnds == Inv /\ SvcEnds => Abstract!Next
<1> SUFFICES ASSUME Inv, SvcEnds PROVE Abstract!Next
  OBVIOUS
<1>1. /\ At = "pass" /\ ~RootDue /\ Return /\ UNCHANGED <<heap, slots, seq_next, fired>>
  BY DEF SvcEnds, InPass
<1>2. Len(stack) = 1 /\ stack # <<>> /\ Top = stack[1] /\ stack[1].now # 0
  BY <1>1, BottomFrame
<1>3. Pass = stack[1].now /\ Pass # 0
  BY <1>2 DEF Pass
<1>4. Pass' = 0
  <2>1. stack' = <<>>
    BY <1>1, <1>2, SubSeqEmpty DEF Return
  <2> QED
    BY <2>1 DEF Pass
<1>5. stack[1].now \in Nat
  <2>1. stack[1] \in Frames
    BY <1>2, StackType, ElementOfSeq DEF Inv
  <2>2. stack[1].now \in Deadlines \cup {0}
    BY <2>1 DEF Frames
  <2>3. \A d \in Deadlines \cup {0} : d \in Nat
    BY Numbers
  <2> QED
    BY <2>2, <2>3, Zenon
<1>6. ASSUME NEW t \in ArmedTimers PROVE t.deadline > Pass
  <2>1. PICK y \in LiveOf(heap.a, slots) : t = Timer(y)
    BY ArmedAre DEF TimersOf
  <2>2. y \in Of(heap.a) /\ t.deadline = y.deadline
    BY <2>1 DEF LiveOf, Timer
  <2>3. heap.a \in Seq(Entries) /\ y \in Entries
    BY <2>2, OfEntries DEF Inv, HeapOK, Sound, Heaps
  <2>4. heap.a # <<>>
    BY <2>2 DEF Of
  <2>5. heap.a[1].deadline <= y.deadline /\ ~(heap.a[1].deadline <= stack[1].now)
    BY <1>1, <1>2, <2>2, <2>4, RootFirst DEF RootDue
  <2>6. heap.a[1].deadline \in Nat /\ y.deadline \in Nat
    BY <2>3, <2>4, RootOf, EntryNumbers
  <2> QED
    BY <1>3, <1>5, <2>2, <2>5, <2>6
<1>7. ArmedTimers' = ArmedTimers
  BY <1>1, SameTimers
<1> QED
  BY <1>1, <1>3, <1>4, <1>6, <1>7, IsEnd

LEMMA DeinitDrops == Deinit => Abstract!Next
<1> SUFFICES ASSUME Deinit PROVE Abstract!Next
  OBVIOUS
<1>1. /\ stack = <<>> /\ stack' = <<Frame("gone", 0, None)>> /\ heap'.a = <<>>
      /\ UNCHANGED <<seq_next, fired>>
  BY DEF Deinit
<1>2. Pass = 0 /\ Pass' = 0
  BY <1>1 DEF Pass, Frame
<1>3. ArmedTimers' = {}
  <2>1. LiveOf(heap'.a, slots') = {}
    BY <1>1 DEF LiveOf, Of
  <2> QED
    BY <2>1, ArmedAre DEF TimersOf
<1> QED
  BY <1>1, <1>2, <1>3, IsDrop

LEMMA BeginBegins == (\E now \in Deadlines : SvcBegin(now)) => Abstract!Next
<1> SUFFICES ASSUME NEW now \in Deadlines, SvcBegin(now) PROVE Abstract!Next
  OBVIOUS
<1>1. /\ stack = <<>> /\ stack' = <<Frame("pass", now, None)>>
      /\ UNCHANGED <<heap, slots, seq_next, fired>>
  BY DEF SvcBegin
<1>2. Pass = 0 /\ Pass' = now
  BY <1>1 DEF Pass, Frame
<1> QED
  BY <1>1, <1>2, SameTimers, IsBegin

LEMMA HiddenSteps ==
    ASSUME Inv, Peek \/ CancelReturns \/ SvcDropsTombstone \/ TaskReturns \/ DropReturns
    PROVE  UNCHANGED Abstract!vars
<1>1. CASE Peek
  <2>1. UNCHANGED <<slots, seq_next, stack, fired>> /\ DropsOnlyDead
    BY <1>1, PeekDrops DEF Peek
  <2> QED
    BY <2>1, DropsUnseen, IsStutter DEF Pass
<1>2. CASE CancelReturns
  <2>1. UNCHANGED <<slots, seq_next, fired>> /\ DropsOnlyDead /\ At = "cancel" /\ Return
    BY <1>2, CompactDrops DEF CancelReturns
  <2>2. ArmedTimers' = ArmedTimers /\ Pass' = Pass
    BY <2>1, DropsUnseen, ReturnPass
  <2> QED
    BY <2>1, <2>2, IsStutter
<1>3. CASE SvcDropsTombstone
  <2>1. UNCHANGED <<slots, seq_next, stack, fired>> /\ DropsOnlyDead
    BY <1>3, TombstoneDrops DEF SvcDropsTombstone
  <2> QED
    BY <2>1, DropsUnseen, IsStutter DEF Pass
<1>4. CASE TaskReturns
  <2>1. /\ UNCHANGED <<heap, slots, seq_next, fired>> /\ At = "run"
        /\ Continue("drop", Top.task)
    BY <1>4 DEF TaskReturns
  <2>2. Top.task \in Ids \cup {None}
    <3>1. Top = stack[1] /\ Len(stack) = 1
      BY <2>1, BottomFrame
    <3>2. stack[1] \in Frames
      BY <3>1, StackType, ElementOfSeq DEF Inv
    <3> QED
      BY <3>1, <3>2 DEF Frames
  <2>3. Pass' = Pass
    BY <2>1, <2>2, PassGoesOn
  <2> QED
    BY <2>1, <2>3, SameTimers, IsStutter
<1>5. CASE DropReturns
  <2>1. /\ UNCHANGED <<heap, slots, seq_next, fired>> /\ At = "drop" /\ Continue("pass", None)
    BY <1>5 DEF DropReturns
  <2>2. Pass' = Pass
    BY <2>1, PassGoesOn
  <2> QED
    BY <2>1, <2>2, SameTimers, IsStutter
<1> QED
  BY <1>1, <1>2, <1>3, <1>4, <1>5

(* ntt_timer_heap keeps the promise of timer.h: whatever its callbacks do, *)
(* every step is a step of Timers or invisible to it, so timers fire in    *)
(* the order of deadline and arming, all that are due in a pass, and none  *)
(* that is not due or was cancelled.                                       *)
THEOREM HeapImplementsTimers == Spec => ImplementsTimers
<1>1. Init => Abstract!Init
  <2> SUFFICES ASSUME Init PROVE Abstract!Init
    OBVIOUS
  <2>1. heap.a = <<>> /\ stack = <<>> /\ fired = <<>> /\ seq_next = 0
    BY DEF Init
  <2>2. LivePlaces = {}
    BY <2>1 DEF LivePlaces
  <2> QED
    BY <2>1, <2>2 DEF Abstract!Init
<1>2. Inv /\ [Next]_vars => [Abstract!Next]_(Abstract!vars)
  <2> SUFFICES ASSUME Inv, [Next]_vars PROVE Abstract!Next \/ UNCHANGED Abstract!vars
    OBVIOUS
  <2>1. CASE UNCHANGED vars
    <3>1. UNCHANGED <<heap, slots, seq_next, stack, fired>>
      BY <2>1 DEF vars
    <3> QED
      BY <3>1, SameTimers, IsStutter DEF Pass
  <2>2. CASE Next
    BY <2>2, PushArms, CancelCancels, FireFires, EndEnds, DeinitDrops, BeginBegins,
       HiddenSteps DEF Next
  <2> QED
    BY <2>1, <2>2
<1> QED
  BY <1>1, <1>2, TimersInvariant, PTL DEF Spec, ImplementsTimers, Abstract!Spec
=============================================================================
