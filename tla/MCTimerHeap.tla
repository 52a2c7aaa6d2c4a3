----------------------------- MODULE MCTimerHeap -----------------------------
(***************************************************************************)
(* Instances of TimerHeap for TLC, and the array algorithms of BinaryHeap  *)
(* against what they should do, on every array of up to six keys.          *)
(***************************************************************************)
EXTENDS TimerHeap, TLC

KeyLess(x, y) == x < y
K == INSTANCE BinaryHeap WITH Less <- KeyLess

Keys == 1..3
Arrays == UNION {[1..n -> Keys] : n \in 0..6}
Count(s) == [k \in Keys |-> Cardinality({p \in 1..Len(s) : s[p] = k})]

(* The rebuild leaves a heap of the same keys, and inserting or popping    *)
(* one leaves a heap of one more or one less.                              *)
ASSUME HeapAlgorithms ==
    \A s \in Arrays :
        LET h == K!Heapify(s)
        IN  /\ K!IsHeap(h) /\ Count(h) = Count(s)
            /\ \A k \in Keys :
                  /\ K!IsHeap(K!Insert(h, k))
                  /\ Count(K!Insert(h, k)) = [Count(h) EXCEPT ![k] = @ + 1]
            /\ h # <<>> =>
                  /\ \A p \in 1..Len(h) : h[1] <= h[p]
                  /\ K!IsHeap(K!WithoutRoot(h))
                  /\ Count(K!WithoutRoot(h)) = [Count(h) EXCEPT ![h[1]] = @ - 1]
=============================================================================
