----------------------------- MODULE BinaryHeap -----------------------------
(***************************************************************************)
(* The array algorithms of a binary min-heap, as timer_heap.c and          *)
(* queue_heap.c both carry them. A heap is a sequence; the entry at p has  *)
(* its parent at p \div 2 and its children at 2p and 2p + 1 (the C arrays  *)
(* start at 0). Less is the comparison of the entries.                     *)
(***************************************************************************)
EXTENDS Integers, Sequences

CONSTANT Less(_, _)

(* sift_up: entry e looks for its place from the hole at pos upwards.      *)
SiftUp(h, pos, e) ==
    LET up[p \in 1..Len(h)] ==
          IF p > 1 /\ Less(e, h[p \div 2])
          THEN [up[p \div 2] EXCEPT ![p] = h[p \div 2]]
          ELSE [h EXCEPT ![p] = e]
    IN  up[pos]

(* The child sift_down compares with: the left one unless the right one is *)
(* smaller.                                                                *)
SmallerChild(h, p) ==
    IF 2 * p + 1 <= Len(h) /\ Less(h[2 * p + 1], h[2 * p])
    THEN 2 * p + 1 ELSE 2 * p

(* sift_down: entry e looks for its place from the hole at pos downwards.  *)
SiftDown(h, pos, e) ==
    LET down[p \in 1..Len(h)] ==
          IF 2 * p <= Len(h) /\ Less(h[SmallerChild(h, p)], e)
          THEN [down[SmallerChild(h, p)] EXCEPT ![p] = h[SmallerChild(h, p)]]
          ELSE [h EXCEPT ![p] = e]
    IN  down[pos]

Insert(h, e) == SiftUp(Append(h, e), Len(h) + 1, e)

(* pop_root: the last entry takes the place of the root.                   *)
WithoutRoot(h) ==
    LET last == Len(h)
    IN  IF last = 1 THEN <<>>
        ELSE SiftDown(SubSeq(h, 1, last - 1), 1, h[last])

(* compact: the entries at the places that stay, in their order.           *)
Kept(h, places) ==
    LET kept[n \in 0..Len(h)] ==
          IF n = 0 THEN <<>>
          ELSE IF n \in places THEN Append(kept[n - 1], h[n])
          ELSE kept[n - 1]
    IN  kept[Len(h)]

(* Floyd: sift every inner entry down, from the last one to the root.      *)
Heapify(h) ==
    LET inner == Len(h) \div 2
        sifted[n \in 0..inner] ==
          IF n = 0 THEN h
          ELSE LET g == sifted[n - 1]
                   p == inner - n + 1
               IN  SiftDown(g, p, g[p])
    IN  sifted[inner]

(* What the algorithms keep: no entry is smaller than its parent.          *)
IsHeap(h) == \A p \in 2..Len(h) : ~Less(h[p], h[p \div 2])
=============================================================================
