--------------------------- MODULE ContainerProofs ---------------------------
(***************************************************************************)
(* What the two containers compute, for every content.                     *)
(*                                                                         *)
(* The array algorithms of BinaryHeap, for arrays of every length: each    *)
(* moves entries without losing or repeating one, and each leaves a heap.  *)
(* The proofs are inductions over the positions of the array; an induction *)
(* is a set of numbers without a least element, and that a recursive       *)
(* function exists is such an induction too.                               *)
(*                                                                         *)
(* The intrusive list of List is the sequence it stands for, whatever its  *)
(* nodes: a push appends, next drops the head, and whoever reads the head  *)
(* without the lock during a push or a next meets the old head or the new  *)
(* one.                                                                    *)
(***************************************************************************)
EXTENDS BinaryHeap, List, WellFoundedInduction, SequenceTheorems, TLAPS

-----------------------------------------------------------------------------
(* Induction, and functions defined by it.                                 *)
Below == {ss \in Nat \X Nat : ss[1] < ss[2]}

(* Every set of numbers has a least one.                                   *)
LEMMA Least ==
    ASSUME NEW T, T \subseteq Nat, T # {}
    PROVE  \E x \in T : \A y \in T : x <= y
<1>1. IsWellFoundedOn(Below, Nat)
  BY NatLessThanWellFounded, Zenon DEF OpToRel, Below
<1>2. PICK x \in T : \A y \in T : ~(<<y, x>> \in Below)
  BY <1>1, WFMin, Zenon
<1>3. \A y \in T : ~(y < x)
  BY <1>2 DEF Below
<1> QED
  BY <1>3

(* A set with the numbers from a to b, one after the other.                *)
LEMMA UpTo ==
    ASSUME NEW a \in Nat, NEW b \in Nat, NEW S,
           a <= b => a \in S, \A n \in a..b : n \in S /\ n < b => n + 1 \in S
    PROVE  \A n \in a..b : n \in S
<1> DEFINE B == {n \in a..b : n \notin S}
<1>1. SUFFICES ASSUME B # {} PROVE FALSE
  OBVIOUS
<1>2. B \subseteq Nat
  OBVIOUS
<1>3. PICK x \in B : \A y \in B : x <= y
  <2> HIDE DEF B
  <2> QED
    BY <1>1, <1>2, Least
<1>4. x > a /\ x - 1 \in a..b
  BY <1>3
<1>5. x - 1 \in S
  BY <1>3, <1>4
<1> QED
  BY <1>3, <1>4, <1>5

(* The same where a number needs all before it.                            *)
LEMMA UpToAll ==
    ASSUME NEW a \in Nat, NEW b \in Nat, NEW S,
           \A n \in a..b : (\A m \in a..(n - 1) : m \in S) => n \in S
    PROVE  \A n \in a..b : n \in S
<1> DEFINE B == {n \in a..b : n \notin S}
<1>1. SUFFICES ASSUME B # {} PROVE FALSE
  OBVIOUS
<1>2. B \subseteq Nat
  OBVIOUS
<1>3. PICK x \in B : \A y \in B : x <= y
  <2> HIDE DEF B
  <2> QED
    BY <1>1, <1>2, Least
<1>4. \A m \in a..(x - 1) : m \in S
  BY <1>3
<1> QED
  BY <1>3, <1>4

(* The same from above.                                                    *)
LEMMA DownToAll ==
    ASSUME NEW a \in Nat, NEW b \in Nat, NEW S,
           \A n \in a..b : (\A m \in (n + 1)..b : m \in S) => n \in S
    PROVE  \A n \in a..b : n \in S
<1> DEFINE B == {b - n : n \in {m \in a..b : m \notin S}}
<1>1. SUFFICES ASSUME \E n \in a..b : n \notin S PROVE FALSE
  OBVIOUS
<1>2. B \subseteq Nat /\ B # {}
  BY <1>1
<1>3. PICK x \in B : \A y \in B : x <= y
  <2> HIDE DEF B
  <2> QED
    BY <1>2, Least
<1>4. PICK n \in a..b : n \notin S /\ x = b - n
  BY <1>3
<1>5. \A m \in (n + 1)..b : m \in S
  <2>1. SUFFICES ASSUME NEW m \in (n + 1)..b, m \notin S PROVE FALSE
    OBVIOUS
  <2>2. b - m \in B /\ b - m < b - n
    BY <2>1, <1>4
  <2> QED
    BY <1>3, <1>4, <2>2
<1> QED
  BY <1>4, <1>5

(* A recursion that goes down in rank: the value at a place of C comes     *)
(* from the value at its next place, that at another place is known.       *)
Descends(D, X, N, rank, C, next, G, base) ==
    /\ N \in Nat /\ rank \in [D -> 0..N]
    /\ C \in SUBSET D /\ next \in [C -> D]
    /\ \A p \in C : rank[next[p]] < rank[p]
    /\ G \in [C -> [X -> X]] /\ base \in [D -> X]

Solved(D, X, C, next, G, base) ==
    \E f \in [D -> X] :
       \A p \in D : f[p] = IF p \in C THEN G[p][f[next[p]]] ELSE base[p]

(* It defines a function.                                                  *)
LEMMA Recursion ==
    ASSUME NEW D, NEW X, NEW N, NEW rank, NEW C, NEW next, NEW G, NEW base,
           Descends(D, X, N, rank, C, next, G, base)
    PROVE  Solved(D, X, C, next, G, base)
<1> USE DEF Descends
<1> DEFINE Value(f, p) == IF p \in C THEN G[p][f[next[p]]] ELSE base[p]
           Good(k) == \E f \in [D -> X] : \A p \in D : rank[p] <= k => f[p] = Value(f, p)
           S == {k \in 0..N : Good(k)}
<1>1. Good(0)
  <2>1. \A p \in D : rank[p] <= 0 => p \notin C
    OBVIOUS
  <2>2. \A p \in D : rank[p] <= 0 => base[p] = Value(base, p)
    BY <2>1
  <2> QED
    BY <2>2
<1>2. ASSUME NEW k \in 0..N, k < N, Good(k) PROVE Good(k + 1)
  <2>1. PICK f \in [D -> X] : \A p \in D : rank[p] <= k => f[p] = Value(f, p)
    BY <1>2
  <2> DEFINE g == [p \in D |-> Value(f, p)]
  <2>2. g \in [D -> X]
    OBVIOUS
  <2>3. \A p \in D : rank[p] <= k => g[p] = f[p]
    BY <2>1
  <2>4. ASSUME NEW p \in D, rank[p] <= k + 1 PROVE g[p] = Value(g, p)
    <3>1. CASE p \in C
      <4>1. next[p] \in D /\ rank[next[p]] <= k
        BY <2>4, <3>1
      <4> QED
        BY <2>3, <3>1, <4>1
    <3> QED
      BY <3>1
  <2> HIDE DEF g, Value
  <2> QED
    BY <2>2, <2>4
<1>3. \A n \in 0..N : n \in S
  <2> HIDE DEF Good
  <2>1. 0 \in S /\ \A n \in 0..N : n \in S /\ n < N => n + 1 \in S
    BY <1>1, <1>2
  <2> HIDE DEF S
  <2> QED
    BY <2>1, UpTo
<1>4. Good(N)
  BY <1>3
<1> QED
  BY <1>4 DEF Solved

-----------------------------------------------------------------------------
(* One array holds the entries of another, in some order.                  *)
Perms(n) == {f \in [1..n -> 1..n] :
                /\ \A i, j \in 1..n : f[i] = f[j] => i = j
                /\ \A j \in 1..n : \E i \in 1..n : f[i] = j}

Rearranges(g, h) ==
    /\ Len(g) = Len(h)
    /\ \E f \in Perms(Len(h)) : \A i \in 1..Len(h) : g[i] = h[f[i]]

LEMMA RearrangesItself ==
    ASSUME NEW E, NEW h \in Seq(E)
    PROVE  Rearranges(h, h)
<1> DEFINE f == [i \in 1..Len(h) |-> i]
<1>1. f \in Perms(Len(h))
  BY DEF Perms
<1>2. \A i \in 1..Len(h) : h[i] = h[f[i]]
  OBVIOUS
<1> QED
  BY <1>1, <1>2, Zenon DEF Rearranges

LEMMA RearrangesTwice ==
    ASSUME NEW E, NEW a \in Seq(E), NEW b \in Seq(E), NEW c \in Seq(E),
           Rearranges(a, b), Rearranges(b, c)
    PROVE  Rearranges(a, c)
<1> DEFINE n == Len(c)
<1>1. n \in Nat /\ Len(b) = n /\ Len(a) = n
  BY DEF Rearranges
<1>2. PICK f \in Perms(n) : \A i \in 1..n : a[i] = b[f[i]]
  BY <1>1 DEF Rearranges
<1>3. PICK g \in Perms(n) : \A i \in 1..n : b[i] = c[g[i]]
  BY <1>1 DEF Rearranges
<1> DEFINE k == [i \in 1..n |-> g[f[i]]]
<1>4. k \in Perms(n)
  <2>1. f \in [1..n -> 1..n] /\ g \in [1..n -> 1..n]
    BY DEF Perms
  <2>2. k \in [1..n -> 1..n]
    BY <2>1
  <2>3. \A i, j \in 1..n : k[i] = k[j] => i = j
    BY <2>1 DEF Perms
  <2>4. ASSUME NEW j \in 1..n PROVE \E i \in 1..n : k[i] = j
    <3>1. PICK m \in 1..n : g[m] = j
      BY DEF Perms
    <3>2. PICK i \in 1..n : f[i] = m
      BY DEF Perms
    <3> QED
      BY <3>1, <3>2
  <2> HIDE DEF k
  <2> QED
    BY <2>2, <2>3, <2>4 DEF Perms
<1>5. \A i \in 1..n : a[i] = c[k[i]]
  BY <1>2, <1>3 DEF Perms
<1> HIDE DEF k
<1> QED
  BY <1>1, <1>4, <1>5 DEF Rearranges

(* A rearrangement has the entries of the array and no other.              *)
LEMMA RearrangesEntries ==
    ASSUME NEW g, NEW h, Rearranges(g, h)
    PROVE  /\ \A i \in 1..Len(g) : \E j \in 1..Len(h) : g[i] = h[j]
           /\ \A j \in 1..Len(h) : \E i \in 1..Len(g) : g[i] = h[j]
<1>1. Len(g) = Len(h)
  BY DEF Rearranges
<1>2. PICK f \in Perms(Len(h)) : \A i \in 1..Len(h) : g[i] = h[f[i]]
  BY DEF Rearranges
<1>3. \A i \in 1..Len(h) : f[i] \in 1..Len(h)
  BY DEF Perms
<1>4. \A j \in 1..Len(h) : \E i \in 1..Len(h) : f[i] = j
  BY DEF Perms
<1>5. \A i \in 1..Len(g) : \E j \in 1..Len(h) : g[i] = h[j]
  BY <1>1, <1>2, <1>3, Zenon
<1>6. ASSUME NEW j \in 1..Len(h) PROVE \E i \in 1..Len(g) : g[i] = h[j]
  <2>1. PICK i \in 1..Len(h) : f[i] = j
    BY <1>4
  <2> QED
    BY <1>1, <1>2, <2>1, Zenon
<1> QED
  BY <1>5, <1>6

(* The hole moves from q to p, and the entry at q takes its place.         *)
LEMMA HoleMoves ==
    ASSUME NEW n \in Nat, NEW p \in 1..n, NEW q \in 1..n, p # q,
           NEW f \in Perms(n), f[p] = p
    PROVE  [i \in 1..n |-> IF i = p THEN q ELSE IF f[i] = q THEN p ELSE f[i]] \in Perms(n)
<1> DEFINE k == [i \in 1..n |-> IF i = p THEN q ELSE IF f[i] = q THEN p ELSE f[i]]
<1>1. f \in [1..n -> 1..n] /\ \A i, j \in 1..n : f[i] = f[j] => i = j
  BY DEF Perms
<1>2. k \in [1..n -> 1..n]
  BY <1>1
<1>3. ASSUME NEW i \in 1..n, NEW j \in 1..n, k[i] = k[j] PROVE i = j
  BY <1>1, <1>3
<1>4. ASSUME NEW j \in 1..n PROVE \E i \in 1..n : k[i] = j
  <2>1. CASE j = q
    BY <2>1
  <2>2. CASE j = p
    <3>1. PICK i \in 1..n : f[i] = q
      BY DEF Perms
    <3> QED
      BY <1>1, <2>2, <3>1
  <2>3. CASE j # p /\ j # q
    <3>1. PICK i \in 1..n : f[i] = j
      BY DEF Perms
    <3> QED
      BY <1>1, <2>3, <3>1
  <2> QED
    BY <2>1, <2>2, <2>3
<1> HIDE DEF k
<1>5. k \in Perms(n)
  BY <1>2, <1>3, <1>4 DEF Perms
<1> QED
  BY <1>5 DEF k

-----------------------------------------------------------------------------
(* The comparison: an order in which any two entries compare, equal ones   *)
(* among them.                                                             *)
Ordered(E) ==
    /\ \A x, y \in E : Less(x, y) => ~Less(y, x)
    /\ \A x, y, z \in E : ~Less(x, y) /\ ~Less(y, z) => ~Less(x, z)

(* sift_up as the function its recursion defines.                          *)
UpValue(h, e, u, p) ==
    IF p > 1 /\ Less(e, h[p \div 2]) THEN [u[p \div 2] EXCEPT ![p] = h[p \div 2]]
                                     ELSE [h EXCEPT ![p] = e]
Up(h, e) == CHOOSE u : u = [p \in 1..Len(h) |-> UpValue(h, e, u, p)]

LEMMA SiftUpIsUp ==
    ASSUME NEW h, NEW pos, NEW e
    PROVE  SiftUp(h, pos, e) = Up(h, e)[pos]
  BY DEF SiftUp, Up, UpValue

LEMMA UpExists ==
    ASSUME NEW E, NEW h \in Seq(E), NEW e \in E
    PROVE  Up(h, e) = [p \in 1..Len(h) |-> UpValue(h, e, Up(h, e), p)]
<1> DEFINE n == Len(h)
           X == [1..n -> E]
           D == 1..n
           C == {p \in D : p > 1 /\ Less(e, h[p \div 2])}
           rank == [p \in D |-> p]
           next == [p \in C |-> p \div 2]
           G == [p \in C |-> [v \in X |-> [v EXCEPT ![p] = h[p \div 2]]]]
           base == [p \in D |-> [h EXCEPT ![p] = e]]
<1>0. n \in Nat /\ h \in X /\ \A p \in D : h[p] \in E
  BY LenProperties
<1>1. \A p \in C : p \in D /\ p > 1 /\ p \div 2 \in D /\ p \div 2 < p
  BY <1>0
<1>2. next \in [C -> D] /\ rank \in [D -> 0..n] /\ C \in SUBSET D
  BY <1>0, <1>1
<1>3. \A p \in C : rank[next[p]] < rank[p]
  BY <1>1
<1>4. \A p \in C : [v \in X |-> [v EXCEPT ![p] = h[p \div 2]]] \in [X -> X]
  BY <1>0, <1>1
<1>5. G \in [C -> [X -> X]]
  BY <1>4
<1>6. base \in [D -> X]
  BY <1>0
<1>7. PICK f \in [D -> X] : \A p \in D : f[p] = IF p \in C THEN G[p][f[next[p]]] ELSE base[p]
  <2>1. Descends(D, X, n, rank, C, next, G, base)
    BY <1>0, <1>2, <1>3, <1>5, <1>6 DEF Descends
  <2>2. Solved(D, X, C, next, G, base)
    <3> HIDE DEF D, X, C, next, G, base, rank, n
    <3> QED
      BY <2>1, Recursion
  <2> QED
    BY <2>2 DEF Solved
<1>8. ASSUME NEW p \in D PROVE f[p] = UpValue(h, e, f, p)
  <2>1. CASE p \in C
    <3>1. next[p] = p \div 2 /\ f[p \div 2] \in X
      BY <1>1, <2>1
    <3>2. G[p][f[p \div 2]] = [f[p \div 2] EXCEPT ![p] = h[p \div 2]]
      BY <2>1, <3>1
    <3> QED
      BY <1>7, <2>1, <3>1, <3>2 DEF UpValue
  <2>2. CASE p \notin C
    BY <1>7, <2>2 DEF UpValue
  <2> QED
    BY <2>1, <2>2
<1>9. f = [p \in 1..Len(h) |-> UpValue(h, e, f, p)]
  BY <1>8
<1> QED
  BY <1>9, Zenon DEF Up

(* The array of n entries as a function.                                   *)
LEMMA SeqIsFunction ==
    ASSUME NEW E, NEW h
    PROVE  h \in Seq(E) <=> Len(h) \in Nat /\ h \in [1..Len(h) -> E]
  OBVIOUS

LEMMA FunctionIsSeq ==
    ASSUME NEW E, NEW n \in Nat, NEW h \in [1..n -> E]
    PROVE  h \in Seq(E) /\ Len(h) = n
  OBVIOUS

(* How far the recursion has rearranged the array with the hole at p: the  *)
(* places in Fixed are as they were.                                       *)
Moved(h, e, u, p, Fixed) ==
    \E f \in Perms(Len(h)) :
       /\ \A i \in Fixed : f[i] = i
       /\ \A i \in 1..Len(h) : u[i] = [h EXCEPT ![p] = e][f[i]]

(* One step of a sift, up or down, from the hole at p to the hole at q.    *)
LEMMA StepMoves ==
    ASSUME NEW E, NEW h \in Seq(E), NEW e \in E, NEW p \in 1..Len(h), NEW q \in 1..Len(h),
           p # q, NEW u \in [1..Len(h) -> E], NEW F, NEW K, F \subseteq 1..Len(h),
           K \subseteq F, p \in F, q \notin F, p \notin K,
           Moved(h, e, u, q, F)
    PROVE  Moved(h, e, [u EXCEPT ![p] = h[q]], p, K)
<1> DEFINE n == Len(h)
           v == [u EXCEPT ![p] = h[q]]
<1>0. n \in Nat /\ h \in [1..n -> E]
  BY LenProperties
<1>1. PICK f \in Perms(n) : /\ \A i \in F : f[i] = i
                            /\ \A i \in 1..n : u[i] = [h EXCEPT ![q] = e][f[i]]
  BY DEF Moved
<1> DEFINE k == [i \in 1..n |-> IF i = p THEN q ELSE IF f[i] = q THEN p ELSE f[i]]
<1>2. k \in Perms(n)
  BY <1>0, <1>1, HoleMoves
<1>3. f \in [1..n -> 1..n] /\ \A i, j \in 1..n : f[i] = f[j] => i = j
  BY DEF Perms
<1>4. \A i \in K : k[i] = i
  <2>1. ASSUME NEW i \in K PROVE k[i] = i
    <3>1. i \in 1..n /\ i \in F /\ i # p /\ i # q /\ f[i] = i
      BY <1>1
    <3> QED
      BY <3>1
  <2> QED
    BY <2>1
<1>5. ASSUME NEW i \in 1..n PROVE v[i] = [h EXCEPT ![p] = e][k[i]]
  <2>1. CASE i = p
    BY <1>0, <2>1
  <2>2. CASE i # p /\ f[i] = q
    BY <1>0, <1>1, <1>3, <2>2
  <2>3. CASE i # p /\ f[i] # q
    <3>1. f[i] # p /\ f[i] \in 1..n
      BY <1>1, <1>3, <2>3
    <3>2. v[i] = h[f[i]]
      BY <1>0, <1>1, <2>3, <3>1
    <3> QED
      BY <1>0, <2>3, <3>1, <3>2
  <2> QED
    BY <2>1, <2>2, <2>3
<1> HIDE DEF k, v
<1>6. Moved(h, e, v, p, K)
  BY <1>2, <1>4, <1>5 DEF Moved
<1> QED
  BY <1>6 DEF v

LEMMA NoStepMoves ==
    ASSUME NEW E, NEW h \in Seq(E), NEW e \in E, NEW p \in 1..Len(h), NEW K, K \subseteq 1..Len(h)
    PROVE  Moved(h, e, [h EXCEPT ![p] = e], p, K)
<1> DEFINE f == [i \in 1..Len(h) |-> i]
           g == [h EXCEPT ![p] = e]
<1>1. f \in Perms(Len(h))
  BY DEF Perms
<1>2. /\ \A i \in K : f[i] = i
      /\ \A i \in 1..Len(h) : g[i] = g[f[i]]
  OBVIOUS
<1> HIDE DEF f
<1> QED
  BY <1>1, <1>2 DEF Moved

(* sift_up puts the entry in, and only moves the others.                   *)
LEMMA SiftUpMoves ==
    ASSUME NEW E, NEW h \in Seq(E), NEW e \in E, NEW pos \in 1..Len(h)
    PROVE  /\ SiftUp(h, pos, e) \in Seq(E)
           /\ Rearranges(SiftUp(h, pos, e), [h EXCEPT ![pos] = e])
<1> DEFINE n == Len(h)
           u == Up(h, e)
           Good(p) == u[p] \in [1..n -> E] /\ Moved(h, e, u[p], p, (p + 1)..n)
           S == {p \in 1..n : Good(p)}
<1>0. n \in Nat /\ h \in [1..n -> E] /\ \A p \in 1..n : u[p] = UpValue(h, e, u, p)
  BY LenProperties, UpExists
<1>1. ASSUME NEW p \in 1..n, \A m \in 1..(p - 1) : m \in S PROVE p \in S
  <2>1. CASE p > 1 /\ Less(e, h[p \div 2])
    <3> DEFINE q == p \div 2
    <3>1. q \in 1..(p - 1) /\ q \in 1..n /\ q # p
      BY <1>0, <2>1
    <3>2. u[q] \in [1..n -> E] /\ Moved(h, e, u[q], q, (q + 1)..n)
      BY <1>1, <3>1
    <3>3. u[p] = [u[q] EXCEPT ![p] = h[q]]
      BY <1>0, <2>1 DEF UpValue
    <3>4. /\ (q + 1)..n \subseteq 1..n /\ (p + 1)..n \subseteq (q + 1)..n
          /\ p \in (q + 1)..n /\ q \notin (q + 1)..n /\ p \notin (p + 1)..n
      BY <1>0, <3>1
    <3>5. Moved(h, e, [u[q] EXCEPT ![p] = h[q]], p, (p + 1)..n)
      <4> HIDE DEF q, u
      <4> QED
        BY <3>1, <3>2, <3>4, StepMoves
    <3>6. u[p] \in [1..n -> E]
      BY <1>0, <3>1, <3>2, <3>3
    <3> QED
      BY <3>3, <3>5, <3>6
  <2>2. CASE ~(p > 1 /\ Less(e, h[p \div 2]))
    <3>1. u[p] = [h EXCEPT ![p] = e]
      BY <1>0, <2>2 DEF UpValue
    <3>2. u[p] \in [1..n -> E]
      BY <1>0, <3>1
    <3>3. (p + 1)..n \subseteq 1..n
      BY <1>0
    <3>4. Moved(h, e, [h EXCEPT ![p] = e], p, (p + 1)..n)
      BY <3>3, NoStepMoves
    <3> QED
      BY <3>1, <3>2, <3>4
  <2> QED
    BY <2>1, <2>2
<1>2. \A p \in 1..n : p \in S
  <2> HIDE DEF S
  <2> QED
    BY <1>0, <1>1, UpToAll
<1>3. u[pos] \in [1..n -> E] /\ Moved(h, e, u[pos], pos, (pos + 1)..n)
  BY <1>2
<1> HIDE DEF u
<1>4. u[pos] \in Seq(E) /\ Len(u[pos]) = n
  BY <1>0, <1>3, FunctionIsSeq
<1>5. Len([h EXCEPT ![pos] = e]) = n
  BY <1>0, ExceptSeq
<1>6. Rearranges(u[pos], [h EXCEPT ![pos] = e])
  BY <1>3, <1>4, <1>5 DEF Moved, Rearranges
<1>7. SiftUp(h, pos, e) = u[pos]
  BY SiftUpIsUp DEF u
<1> QED
  BY <1>4, <1>6, <1>7

(* An entry at the end of a heap finds its place by a sift_up.             *)
LEMMA SiftUpHeap ==
    ASSUME NEW E, Ordered(E), NEW h \in Seq(E), NEW e \in E, Len(h) > 0,
           \A i \in 2..(Len(h) - 1) : ~Less(h[i], h[i \div 2])
    PROVE  IsHeap(SiftUp(h, Len(h), e))
<1> DEFINE n == Len(h)
           u == Up(h, e)
           Good(p) ==
             /\ u[p] \in [1..n -> E]
             /\ \A i \in (p + 1)..n : u[p][i] = h[i]
             /\ u[p][p] = e \/ (p > 1 /\ u[p][p] = h[p \div 2])
             /\ \A i \in 2..p : ~Less(u[p][i], u[p][i \div 2])
             /\ \A i \in (p + 1)..(n - 1) : i \div 2 # p => ~Less(h[i], u[p][i \div 2])
           S == {p \in 1..n : Good(p)}
<1>0. n \in Nat /\ n > 0 /\ h \in [1..n -> E] /\ \A p \in 1..n : u[p] = UpValue(h, e, u, p)
  BY LenProperties, UpExists
<1>1. ASSUME NEW p \in 1..n, \A m \in 1..(p - 1) : m \in S PROVE p \in S
  <2>1. CASE p > 1 /\ Less(e, h[p \div 2])
    <3> DEFINE q == p \div 2
               v == u[q]
    <3>1. q \in 1..(p - 1) /\ q \in 1..n /\ q # p /\ (q > 1 => q \div 2 \in 1..(q - 1))
      BY <1>0, <2>1
    <3>2. Good(q)
      BY <1>1, <3>1
    <3>3. u[p] = [v EXCEPT ![p] = h[q]]
      BY <1>0, <2>1 DEF UpValue
    <3>4. Less(e, h[q]) /\ h[q] \in E
      BY <1>0, <2>1, <3>1
    <3> HIDE DEF q, u
    <3>5. v \in [1..n -> E] /\ v[q] \in E
      BY <3>1, <3>2
    <3> HIDE DEF v
    <3>6. ~Less(h[q], v[q])
      <4>1. CASE v[q] = e
        BY <3>4, <4>1 DEF Ordered
      <4>2. CASE q > 1 /\ v[q] = h[q \div 2]
        BY <1>0, <3>1, <4>2
      <4> QED
        BY <3>2, <4>1, <4>2 DEF v
    <3>7. \A i \in 1..n : u[p][i] = IF i = p THEN h[q] ELSE v[i]
      BY <3>3, <3>5
    <3>8. \A i \in (p + 1)..n : u[p][i] = h[i]
      BY <3>1, <3>2, <3>7 DEF v
    <3>9. ASSUME NEW i \in 2..(n - 1), i \div 2 = q, i # p PROVE ~Less(h[i], v[q])
      <4>1. ~Less(h[i], h[q]) /\ h[i] \in E
        BY <1>0, <3>9
      <4> QED
        BY <3>4, <3>5, <3>6, <4>1 DEF Ordered
    <3>10. ASSUME NEW i \in 2..p PROVE ~Less(u[p][i], u[p][i \div 2])
      <4>0. i \div 2 \in 1..(p - 1) /\ i \div 2 \in 1..n /\ i \in 1..n
        BY <1>0
      <4>1. CASE i = p
        <5>1. i \div 2 = q
          BY <4>1 DEF q
        <5> QED
          BY <3>1, <3>6, <3>7, <4>0, <4>1, <5>1
      <4>2. CASE i # p
        <5>1. u[p][i] = v[i] /\ u[p][i \div 2] = v[i \div 2]
          BY <3>7, <4>0, <4>2
        <5>2. CASE i <= q
          BY <3>2, <5>1, <5>2 DEF v
        <5>3. CASE i > q /\ i \div 2 = q
          <6>1. v[i] = h[i]
            BY <3>1, <3>2, <4>0, <5>3 DEF v
          <6> QED
            BY <3>9, <4>2, <5>1, <5>3, <6>1
        <5>4. CASE i > q /\ i \div 2 # q
          <6>1. v[i] = h[i] /\ i \in (q + 1)..(n - 1)
            BY <3>1, <3>2, <4>0, <4>2, <5>4 DEF v
          <6> QED
            BY <3>2, <5>1, <5>4, <6>1 DEF v
        <5> QED
          BY <5>2, <5>3, <5>4, <3>1
      <4> QED
        BY <4>1, <4>2
    <3>11. ASSUME NEW i \in (p + 1)..(n - 1), i \div 2 # p PROVE ~Less(h[i], u[p][i \div 2])
      <4>0. i \div 2 \in 1..n /\ i \in 2..(n - 1) /\ i \in (q + 1)..(n - 1) /\ i # p
        BY <1>0, <3>1
      <4>1. u[p][i \div 2] = v[i \div 2]
        BY <3>7, <3>11, <4>0
      <4>2. CASE i \div 2 = q
        BY <3>9, <4>0, <4>1, <4>2
      <4>3. CASE i \div 2 # q
        BY <3>2, <4>0, <4>1, <4>3 DEF v
      <4> QED
        BY <4>2, <4>3
    <3>12. u[p][p] = h[p \div 2] /\ u[p] \in [1..n -> E]
      BY <3>3, <3>4, <3>5, <3>7 DEF q
    <3> QED
      BY <2>1, <3>8, <3>10, <3>11, <3>12
  <2>2. CASE ~(p > 1 /\ Less(e, h[p \div 2]))
    <3>1. u[p] = [h EXCEPT ![p] = e]
      BY <1>0, <2>2 DEF UpValue
    <3> HIDE DEF u
    <3>2. u[p] \in [1..n -> E] /\ \A i \in 1..n : u[p][i] = IF i = p THEN e ELSE h[i]
      BY <1>0, <3>1
    <3>3. ASSUME NEW i \in 2..p PROVE ~Less(u[p][i], u[p][i \div 2])
      <4>1. i \div 2 \in 1..n /\ i \div 2 # p /\ i \in 1..n
        BY <1>0
      <4> QED
        BY <1>0, <2>2, <3>2, <4>1
    <3>4. ASSUME NEW i \in (p + 1)..(n - 1), i \div 2 # p PROVE ~Less(h[i], u[p][i \div 2])
      <4>1. i \div 2 \in 1..n /\ i \in 2..(n - 1)
        BY <1>0
      <4> QED
        BY <1>0, <3>2, <3>4, <4>1
    <3> QED
      BY <1>0, <3>2, <3>3, <3>4
  <2> QED
    BY <2>1, <2>2
<1>2. \A p \in 1..n : p \in S
  <2> HIDE DEF S
  <2> QED
    BY <1>0, <1>1, UpToAll
<1>3. n \in S
  <2> HIDE DEF S
  <2> QED
    BY <1>0, <1>2
<1>4. SiftUp(h, n, e) = u[n]
  BY SiftUpIsUp
<1> HIDE DEF u
<1>5. u[n] \in [1..n -> E] /\ \A i \in 2..n : ~Less(u[n][i], u[n][i \div 2])
  BY <1>3
<1>6. Len(u[n]) = n
  BY <1>0, <1>5, FunctionIsSeq
<1> QED
  BY <1>4, <1>5, <1>6 DEF IsHeap

-----------------------------------------------------------------------------
(* sift_down as the function its recursion defines.                        *)
DownValue(h, e, u, p) ==
    IF 2 * p <= Len(h) /\ Less(h[SmallerChild(h, p)], e)
    THEN [u[SmallerChild(h, p)] EXCEPT ![p] = h[SmallerChild(h, p)]]
    ELSE [h EXCEPT ![p] = e]
Down(h, e) == CHOOSE u : u = [p \in 1..Len(h) |-> DownValue(h, e, u, p)]

LEMMA SiftDownIsDown ==
    ASSUME NEW h, NEW pos, NEW e
    PROVE  SiftDown(h, pos, e) = Down(h, e)[pos]
  BY DEF SiftDown, Down, DownValue

(* The child it compares with is one of the two, and not the larger one.   *)
LEMMA SmallerChildIsChild ==
    ASSUME NEW E, Ordered(E), NEW h \in Seq(E), NEW p \in 1..Len(h), 2 * p <= Len(h)
    PROVE  /\ SmallerChild(h, p) \in {2 * p, 2 * p + 1} \cap (1..Len(h))
           /\ SmallerChild(h, p) > p /\ SmallerChild(h, p) \div 2 = p
           /\ \A i \in 2..Len(h) : i \div 2 = p => ~Less(h[i], h[SmallerChild(h, p)])
<1> DEFINE n == Len(h)
           c == SmallerChild(h, p)
<1>0. n \in Nat /\ h \in [1..n -> E]
  BY LenProperties
<1>1. c \in {2 * p, 2 * p + 1} /\ c \in 1..n
  BY <1>0 DEF SmallerChild
<1>2. c > p /\ c \div 2 = p
  BY <1>0, <1>1
<1>3. ASSUME NEW i \in 2..n, i \div 2 = p PROVE ~Less(h[i], h[c])
  <2>1. i = 2 * p \/ i = 2 * p + 1
    BY <1>0, <1>3
  <2>2. h[2 * p] \in E /\ (2 * p + 1 <= n => h[2 * p + 1] \in E)
    BY <1>0
  <2>3. CASE 2 * p + 1 <= n /\ Less(h[2 * p + 1], h[2 * p])
    <3>1. c = 2 * p + 1
      BY <2>3 DEF SmallerChild
    <3> QED
      BY <2>1, <2>2, <2>3, <3>1 DEF Ordered
  <2>4. CASE ~(2 * p + 1 <= n /\ Less(h[2 * p + 1], h[2 * p]))
    <3>1. c = 2 * p
      BY <2>4 DEF SmallerChild
    <3> QED
      BY <1>0, <2>1, <2>2, <2>4, <3>1 DEF Ordered
  <2> QED
    BY <2>3, <2>4
<1> QED
  BY <1>1, <1>2, <1>3

LEMMA DownExists ==
    ASSUME NEW E, Ordered(E), NEW h \in Seq(E), NEW e \in E
    PROVE  Down(h, e) = [p \in 1..Len(h) |-> DownValue(h, e, Down(h, e), p)]
<1> DEFINE n == Len(h)
           X == [1..n -> E]
           D == 1..n
           c(p) == SmallerChild(h, p)
           C == {p \in D : 2 * p <= n /\ Less(h[c(p)], e)}
           rank == [p \in D |-> n - p]
           next == [p \in C |-> c(p)]
           G == [p \in C |-> [v \in X |-> [v EXCEPT ![p] = h[c(p)]]]]
           base == [p \in D |-> [h EXCEPT ![p] = e]]
<1>0. n \in Nat /\ h \in X /\ \A p \in D : h[p] \in E
  BY LenProperties
<1>1. ASSUME NEW p \in C PROVE p \in D /\ c(p) \in D /\ c(p) > p
  BY SmallerChildIsChild
<1> HIDE DEF c
<1>2. next \in [C -> D] /\ rank \in [D -> 0..n] /\ C \in SUBSET D
  BY <1>0, <1>1
<1>3. \A p \in C : rank[next[p]] < rank[p]
  BY <1>0, <1>1
<1>4. \A p \in C : [v \in X |-> [v EXCEPT ![p] = h[c(p)]]] \in [X -> X]
  BY <1>0, <1>1
<1>5. G \in [C -> [X -> X]]
  BY <1>4
<1>6. base \in [D -> X]
  BY <1>0
<1>7. PICK f \in [D -> X] : \A p \in D : f[p] = IF p \in C THEN G[p][f[next[p]]] ELSE base[p]
  <2>1. Descends(D, X, n, rank, C, next, G, base)
    BY <1>0, <1>2, <1>3, <1>5, <1>6 DEF Descends
  <2>2. Solved(D, X, C, next, G, base)
    <3> HIDE DEF D, X, C, next, G, base, rank, n
    <3> QED
      BY <2>1, Recursion
  <2> QED
    BY <2>2 DEF Solved
<1>8. ASSUME NEW p \in D PROVE f[p] = DownValue(h, e, f, p)
  <2>1. CASE p \in C
    <3>1. next[p] = c(p) /\ f[c(p)] \in X
      BY <1>1, <2>1
    <3>2. G[p][f[c(p)]] = [f[c(p)] EXCEPT ![p] = h[c(p)]]
      BY <2>1, <3>1
    <3> QED
      BY <1>7, <2>1, <3>1, <3>2 DEF DownValue, c
  <2>2. CASE p \notin C
    BY <1>7, <2>2 DEF DownValue, c
  <2> QED
    BY <2>1, <2>2
<1>9. f = [p \in 1..Len(h) |-> DownValue(h, e, f, p)]
  BY <1>8
<1> QED
  BY <1>9, Zenon DEF Down

(* sift_down puts the entry in, and only moves the others.                 *)
LEMMA SiftDownMoves ==
    ASSUME NEW E, Ordered(E), NEW h \in Seq(E), NEW e \in E, NEW pos \in 1..Len(h)
    PROVE  /\ SiftDown(h, pos, e) \in Seq(E)
           /\ Rearranges(SiftDown(h, pos, e), [h EXCEPT ![pos] = e])
<1> DEFINE n == Len(h)
           u == Down(h, e)
           Good(p) == u[p] \in [1..n -> E] /\ Moved(h, e, u[p], p, 1..(p - 1))
           S == {p \in 1..n : Good(p)}
<1>0. n \in Nat /\ h \in [1..n -> E] /\ \A p \in 1..n : u[p] = DownValue(h, e, u, p)
  BY LenProperties, DownExists
<1>1. ASSUME NEW p \in 1..n, \A m \in (p + 1)..n : m \in S PROVE p \in S
  <2> DEFINE q == SmallerChild(h, p)
  <2>1. CASE 2 * p <= n /\ Less(h[q], e)
    <3>1. q \in (p + 1)..n /\ q \in 1..n /\ q # p
      BY <1>0, <2>1, SmallerChildIsChild
    <3>2. u[q] \in [1..n -> E] /\ Moved(h, e, u[q], q, 1..(q - 1))
      BY <1>1, <3>1
    <3>3. u[p] = [u[q] EXCEPT ![p] = h[q]]
      BY <1>0, <2>1 DEF DownValue
    <3> HIDE DEF q, u
    <3>4. /\ 1..(q - 1) \subseteq 1..n /\ 1..(p - 1) \subseteq 1..(q - 1)
          /\ p \in 1..(q - 1) /\ q \notin 1..(q - 1) /\ p \notin 1..(p - 1)
      BY <1>0, <3>1
    <3>5. Moved(h, e, [u[q] EXCEPT ![p] = h[q]], p, 1..(p - 1))
      BY <3>1, <3>2, <3>4, StepMoves
    <3>6. u[p] \in [1..n -> E]
      BY <1>0, <3>1, <3>2, <3>3
    <3> QED
      BY <3>3, <3>5, <3>6
  <2>2. CASE ~(2 * p <= n /\ Less(h[q], e))
    <3>1. u[p] = [h EXCEPT ![p] = e]
      BY <1>0, <2>2 DEF DownValue
    <3>2. u[p] \in [1..n -> E]
      BY <1>0, <3>1
    <3>3. 1..(p - 1) \subseteq 1..n
      BY <1>0
    <3>4. Moved(h, e, [h EXCEPT ![p] = e], p, 1..(p - 1))
      BY <3>3, NoStepMoves
    <3> QED
      BY <3>1, <3>2, <3>4
  <2> QED
    BY <2>1, <2>2
<1>2. \A p \in 1..n : p \in S
  <2> HIDE DEF S
  <2> QED
    BY <1>0, <1>1, DownToAll
<1>3. u[pos] \in [1..n -> E] /\ Moved(h, e, u[pos], pos, 1..(pos - 1))
  BY <1>2
<1> HIDE DEF u
<1>4. u[pos] \in Seq(E) /\ Len(u[pos]) = n
  BY <1>0, <1>3, FunctionIsSeq
<1>5. Len([h EXCEPT ![pos] = e]) = n
  BY <1>0, ExceptSeq
<1>6. Rearranges(u[pos], [h EXCEPT ![pos] = e])
  BY <1>3, <1>4, <1>5 DEF Moved, Rearranges
<1>7. SiftDown(h, pos, e) = u[pos]
  BY SiftDownIsDown DEF u
<1> QED
  BY <1>4, <1>6, <1>7

(* The part of an array that is a heap already: whoever has its parent     *)
(* from k on is not smaller than it.                                       *)
HeapFrom(h, k) == \A i \in 2..Len(h) : i \div 2 >= k => ~Less(h[i], h[i \div 2])

(* sift_down adds the entry on top of what was a heap below.               *)
LEMMA SiftDownHeap ==
    ASSUME NEW E, Ordered(E), NEW h \in Seq(E), NEW e \in E, NEW pos \in 1..Len(h),
           HeapFrom(h, pos + 1)
    PROVE  HeapFrom(SiftDown(h, pos, e), pos)
<1> DEFINE n == Len(h)
           u == Down(h, e)
           Good(p) ==
             /\ u[p] \in [1..n -> E]
             /\ \A i \in 1..n : i \div 2 < p /\ i # p => u[p][i] = h[i]
             /\ \/ u[p][p] = e
                \/ 2 * p <= n /\ u[p][p] = h[SmallerChild(h, p)]
             /\ \A i \in 2..n : i \div 2 >= p => ~Less(u[p][i], u[p][i \div 2])
           S == {p \in pos..n : Good(p)}
<1>0. n \in Nat /\ h \in [1..n -> E] /\ \A p \in 1..n : u[p] = DownValue(h, e, u, p)
  BY LenProperties, DownExists
<1>1. ASSUME NEW p \in pos..n, \A m \in (p + 1)..n : m \in S PROVE p \in S
  <2> DEFINE c == SmallerChild(h, p)
  <2>0. p \in 1..n
    BY <1>0
  <2>a. 2 * p <= n => /\ c \in {2 * p, 2 * p + 1} /\ c \in (p + 1)..n /\ c \in 2..n
                      /\ c # p /\ c \div 2 = p
                      /\ \A i \in 2..n : i \div 2 = p => ~Less(h[i], h[c])
    <3>1. SUFFICES ASSUME 2 * p <= n
                   PROVE  /\ c \in {2 * p, 2 * p + 1} /\ c \in (p + 1)..n /\ c \in 2..n
                          /\ c # p /\ c \div 2 = p
                          /\ \A i \in 2..n : i \div 2 = p => ~Less(h[i], h[c])
      OBVIOUS
    <3>2. /\ c \in {2 * p, 2 * p + 1} \cap (1..n) /\ c > p /\ c \div 2 = p
          /\ \A i \in 2..n : i \div 2 = p => ~Less(h[i], h[c])
      BY <2>0, <3>1, SmallerChildIsChild
    <3> HIDE DEF c
    <3> QED
      BY <1>0, <2>0, <3>2
  <2>1. CASE 2 * p <= n /\ Less(h[c], e)
    <3> DEFINE v == u[c]
    <3>1. /\ c \in (p + 1)..n /\ c \in 2..n /\ c # p /\ c \div 2 = p
          /\ \A i \in 2..n : i \div 2 = p => ~Less(h[i], h[c])
      BY <2>1, <2>a
    <3>2. Good(c)
      BY <1>1, <3>1
    <3>3. u[p] = [v EXCEPT ![p] = h[c]]
      BY <1>0, <2>0, <2>1 DEF DownValue
    <3>4. h[c] \in E
      BY <1>0, <3>1
    <3>5. 2 * c <= n => ~Less(h[SmallerChild(h, c)], h[c])
      <4>1. SUFFICES ASSUME 2 * c <= n PROVE ~Less(h[SmallerChild(h, c)], h[c])
        OBVIOUS
      <4>2. SmallerChild(h, c) \in 2..n /\ SmallerChild(h, c) \div 2 = c
        BY <1>0, <3>1, <4>1, SmallerChildIsChild
      <4> QED
        BY <1>0, <3>1, <4>2 DEF HeapFrom
    <3> HIDE DEF c, u
    <3>6. v \in [1..n -> E] /\ v[c] \in E
      BY <3>1, <3>2
    <3>7. ~Less(v[c], h[c])
      <4>1. CASE v[c] = e
        BY <2>1, <3>4, <4>1 DEF Ordered
      <4>2. CASE 2 * c <= n /\ v[c] = h[SmallerChild(h, c)]
        BY <3>5, <4>2
      <4> QED
        BY <3>2, <4>1, <4>2
    <3>8. \A i \in 1..n : i \div 2 < c /\ i # c => v[i] = h[i]
      BY <3>2
    <3>9. \A i \in 2..n : i \div 2 >= c => ~Less(v[i], v[i \div 2])
      BY <3>2
    <3> HIDE DEF v
    <3>10. \A i \in 1..n : u[p][i] = IF i = p THEN h[c] ELSE v[i]
      BY <3>3, <3>6
    <3>11. ASSUME NEW i \in 1..n, i \div 2 < p, i # p PROVE u[p][i] = h[i]
      <4>1. i \div 2 < c /\ i # c
        BY <3>1, <3>11
      <4> QED
        BY <3>8, <3>10, <3>11, <4>1
    <3>12. ASSUME NEW i \in 2..n, i \div 2 >= p PROVE ~Less(u[p][i], u[p][i \div 2])
      <4>0. i \in 1..n /\ i # p /\ i \div 2 \in 1..n /\ u[p][i] = v[i]
        BY <1>0, <2>0, <3>10, <3>12
      <4>1. CASE i = c
        <5>1. u[p][i \div 2] = h[c]
          BY <3>1, <3>10, <4>0, <4>1
        <5> QED
          BY <3>7, <4>0, <4>1, <5>1
      <4>2. CASE i # c /\ i \div 2 = p
        <5>1. v[i] = h[i] /\ u[p][i \div 2] = h[c]
          BY <3>1, <3>8, <3>10, <4>0, <4>2
        <5> QED
          BY <3>1, <4>0, <4>2, <5>1
      <4>3. CASE i \div 2 > p /\ i \div 2 >= c
        BY <3>9, <3>10, <4>0, <4>3
      <4>4. CASE i \div 2 > p /\ i \div 2 < c
        <5>1. i # c /\ (i \div 2) \div 2 < c /\ i \div 2 # c /\ i \div 2 # p
          BY <3>1, <4>0, <4>4
        <5>2. v[i] = h[i] /\ v[i \div 2] = h[i \div 2]
          BY <3>8, <4>0, <4>4, <5>1
        <5>3. ~Less(h[i], h[i \div 2])
          BY <1>0, <4>0, <4>4 DEF HeapFrom
        <5> QED
          BY <3>10, <4>0, <5>1, <5>2, <5>3
      <4> QED
        BY <3>1, <3>12, <4>0, <4>1, <4>2, <4>3, <4>4
    <3>13. u[p][p] = h[SmallerChild(h, p)] /\ 2 * p <= n /\ u[p] \in [1..n -> E]
      BY <2>0, <2>1, <3>3, <3>4, <3>6, <3>10 DEF c
    <3> QED
      BY <3>11, <3>12, <3>13
  <2>2. CASE ~(2 * p <= n /\ Less(h[c], e))
    <3>1. u[p] = [h EXCEPT ![p] = e]
      BY <1>0, <2>0, <2>2 DEF DownValue
    <3> HIDE DEF u
    <3>2. u[p] \in [1..n -> E] /\ \A i \in 1..n : u[p][i] = IF i = p THEN e ELSE h[i]
      BY <1>0, <3>1
    <3>3. ASSUME NEW i \in 2..n, i \div 2 >= p PROVE ~Less(u[p][i], u[p][i \div 2])
      <4>0. i \in 1..n /\ i # p /\ i \div 2 \in 1..n /\ u[p][i] = h[i] /\ h[i] \in E
        BY <1>0, <2>0, <3>2, <3>3
      <4>1. CASE i \div 2 = p
        <5>1. 2 * p <= n
          BY <1>0, <4>0, <4>1
        <5>2. ~Less(h[c], e) /\ ~Less(h[i], h[c]) /\ h[c] \in E
          BY <1>0, <2>2, <2>a, <4>1, <5>1
        <5> QED
          BY <3>2, <4>0, <4>1, <5>2 DEF Ordered
      <4>2. CASE i \div 2 > p
        <5>1. ~Less(h[i], h[i \div 2])
          BY <1>0, <4>2 DEF HeapFrom
        <5> QED
          BY <3>2, <4>0, <4>2, <5>1
      <4> QED
        BY <3>3, <4>0, <4>1, <4>2
    <3>4. u[p][p] = e /\ \A i \in 1..n : i # p => u[p][i] = h[i]
      BY <2>0, <3>2
    <3> QED
      BY <3>2, <3>3, <3>4
  <2> QED
    BY <2>1, <2>2
<1>2. \A p \in pos..n : p \in S
  <2>1. pos \in Nat
    OBVIOUS
  <2> HIDE DEF S
  <2> QED
    BY <1>0, <1>1, <2>1, DownToAll
<1>3. pos \in S
  <2> HIDE DEF S
  <2> QED
    BY <1>0, <1>2
<1>4. SiftDown(h, pos, e) = u[pos]
  BY SiftDownIsDown
<1> HIDE DEF u
<1>5. u[pos] \in [1..n -> E] /\ \A i \in 2..n : i \div 2 >= pos => ~Less(u[pos][i], u[pos][i \div 2])
  BY <1>3
<1>6. Len(u[pos]) = n
  BY <1>0, <1>5, FunctionIsSeq
<1> QED
  BY <1>4, <1>5, <1>6 DEF HeapFrom

-----------------------------------------------------------------------------
(* push adds one entry, and the array stays a heap.                        *)
THEOREM InsertAdds ==
    ASSUME NEW E, Ordered(E), NEW h \in Seq(E), NEW e \in E
    PROVE  /\ Insert(h, e) \in Seq(E)
           /\ Rearranges(Insert(h, e), Append(h, e))
           /\ IsHeap(h) => IsHeap(Insert(h, e))
<1> DEFINE g == Append(h, e)
           n == Len(h) + 1
<1>1. /\ g \in Seq(E) /\ Len(g) = n /\ n \in 1..Len(g) /\ n > 0
      /\ \A i \in 1..Len(h) : g[i] = h[i]
      /\ g[n] = e
  BY AppendProperties, LenProperties
<1>2. Insert(h, e) = SiftUp(g, n, e)
  BY DEF Insert
<1> HIDE DEF g
<1>3. [g EXCEPT ![n] = e] = g
  BY <1>1, LenProperties
<1>4. SiftUp(g, n, e) \in Seq(E) /\ Rearranges(SiftUp(g, n, e), [g EXCEPT ![n] = e])
  BY <1>1, SiftUpMoves
<1>5. ASSUME IsHeap(h) PROVE IsHeap(SiftUp(g, n, e))
  <2>1. ASSUME NEW i \in 2..(n - 1) PROVE ~Less(g[i], g[i \div 2])
    <3>1. i \in 2..Len(h) /\ i \div 2 \in 1..Len(h) /\ i \in 1..Len(h)
      OBVIOUS
    <3> QED
      BY <1>1, <1>5, <3>1 DEF IsHeap
  <2> QED
    BY <1>1, <2>1, SiftUpHeap
<1> QED
  BY <1>2, <1>3, <1>4, <1>5 DEF g

(* The last entry comes first.                                             *)
Rotation(m) == [i \in 1..m |-> IF i = 1 THEN m ELSE i - 1]

LEMMA RotationPermutes ==
    ASSUME NEW m \in Nat \ {0}
    PROVE  Rotation(m) \in Perms(m)
<1> DEFINE f == Rotation(m)
<1>1. f \in [1..m -> 1..m] /\ \A i \in 1..m : f[i] = IF i = 1 THEN m ELSE i - 1
  BY DEF Rotation
<1> HIDE DEF f
<1>2. \A i, j \in 1..m : f[i] = f[j] => i = j
  BY <1>1
<1>3. ASSUME NEW j \in 1..m PROVE \E i \in 1..m : f[i] = j
  <2>1. CASE j = m
    BY <1>1, <2>1
  <2>2. CASE j < m
    <3>1. j + 1 \in 1..m /\ f[j + 1] = j
      BY <1>1, <2>2
    <3> QED
      BY <3>1
  <2> QED
    BY <2>1, <2>2
<1>4. f \in Perms(m)
  BY <1>1, <1>2, <1>3 DEF Perms
<1> QED
  BY <1>4 DEF f

(* pop_root takes the root, and the rest stays a heap.                     *)
THEOREM WithoutRootTakes ==
    ASSUME NEW E, Ordered(E), NEW h \in Seq(E), h # <<>>
    PROVE  /\ WithoutRoot(h) \in Seq(E)
           /\ Rearranges(WithoutRoot(h), Tail(h))
           /\ IsHeap(h) => IsHeap(WithoutRoot(h))
<1> DEFINE n == Len(h)
           s == SubSeq(h, 1, n - 1)
           r == Tail(h)
<1>0. n \in Nat /\ n > 0 /\ h \in [1..n -> E]
  BY LenProperties, EmptySeq
<1>1. r \in Seq(E) /\ Len(r) = n - 1 /\ \A i \in 1..(n - 1) : r[i] = h[i + 1]
  BY <1>0, HeadTailProperties
<1>2. CASE n = 1
  <2>1. WithoutRoot(h) = <<>>
    BY <1>2 DEF WithoutRoot
  <2> HIDE DEF r
  <2>a. r = <<>>
    BY <1>1, <1>2, EmptySeq
  <2>b. <<>> \in Seq(E)
    BY EmptySeq
  <2>2. <<>> \in Seq(E) /\ Rearranges(<<>>, <<>>)
    BY <2>b, RearrangesItself
  <2>3. IsHeap(<<>>)
    BY DEF IsHeap
  <2> QED
    BY <2>1, <2>a, <2>2, <2>3 DEF r
<1>3. CASE n > 1
  <2> DEFINE e == h[n]
             g == [s EXCEPT ![1] = e]
  <2>1. s \in Seq(E) /\ Len(s) = n - 1 /\ \A i \in 1..(n - 1) : s[i] = h[i]
    <3>1. \A i \in 1..(n - 1) : h[i] \in E
      BY <1>0
    <3>2. 1 \in Int /\ n - 1 \in Int /\ 1 <= n - 1
      BY <1>0, <1>3
    <3> QED
      BY <1>0, <3>1, <3>2, SubSeqProperties
  <2>2. e \in E /\ 1 \in 1..Len(s)
    BY <1>0, <1>3, <2>1
  <2>3. WithoutRoot(h) = SiftDown(s, 1, e)
    BY <1>0, <1>3 DEF WithoutRoot
  <2> HIDE DEF s, e, r
  <2>4. SiftDown(s, 1, e) \in Seq(E) /\ Rearranges(SiftDown(s, 1, e), g)
    BY <2>1, <2>2, SiftDownMoves
  <2>5. g \in Seq(E) /\ Len(g) = n - 1 /\ \A i \in 1..(n - 1) : g[i] = IF i = 1 THEN e ELSE s[i]
    BY <2>1, <2>2, ExceptSeq
  <2> HIDE DEF g
  <2>6. Rearranges(g, r)
    <3> DEFINE f == Rotation(n - 1)
    <3>1. f \in Perms(n - 1)
      BY <1>0, <1>3, RotationPermutes
    <3>2. ASSUME NEW i \in 1..(n - 1) PROVE g[i] = r[f[i]]
      <4>1. CASE i = 1
        BY <1>0, <1>1, <1>3, <2>5, <4>1 DEF e, Rotation
      <4>2. CASE i # 1
        <5>1. i - 1 \in 1..(n - 1) /\ f[i] = i - 1
          BY <1>0, <4>2 DEF Rotation
        <5> QED
          BY <1>1, <2>1, <2>5, <4>2, <5>1
      <4> QED
        BY <4>1, <4>2
    <3> HIDE DEF f
    <3> QED
      BY <1>1, <2>5, <3>1, <3>2 DEF Rearranges
  <2>7. Rearranges(SiftDown(s, 1, e), r)
    BY <1>1, <2>4, <2>5, <2>6, RearrangesTwice
  <2>8. ASSUME IsHeap(h) PROVE IsHeap(SiftDown(s, 1, e))
    <3>1. ASSUME NEW i \in 2..Len(s), i \div 2 >= 1 + 1 PROVE ~Less(s[i], s[i \div 2])
      <4>1. i \in 2..n /\ i \in 1..(n - 1) /\ i \div 2 \in 1..(n - 1)
        BY <1>0, <2>1
      <4> QED
        BY <2>1, <2>8, <4>1 DEF IsHeap
    <3>2. HeapFrom(s, 1 + 1)
      BY <3>1 DEF HeapFrom
    <3>3. HeapFrom(SiftDown(s, 1, e), 1)
      BY <2>1, <2>2, <3>2, SiftDownHeap
    <3>4. Len(SiftDown(s, 1, e)) \in Nat
      BY <2>4, LenProperties
    <3> QED
      BY <3>3, <3>4 DEF HeapFrom, IsHeap
  <2> QED
    BY <2>3, <2>4, <2>7, <2>8 DEF r
<1> QED
  BY <1>0, <1>2, <1>3

(* What peek and ntt_queue_heap_top look at is not larger than any entry.  *)
THEOREM RootIsLeast ==
    ASSUME NEW E, Ordered(E), NEW h \in Seq(E), IsHeap(h), NEW i \in 1..Len(h)
    PROVE  ~Less(h[i], h[1])
<1> DEFINE n == Len(h)
           S == {p \in 1..n : ~Less(h[p], h[1])}
<1>0. n \in Nat /\ h \in [1..n -> E]
  BY LenProperties
<1>1. ASSUME NEW p \in 1..n, \A m \in 1..(p - 1) : m \in S PROVE p \in S
  <2>0. h[1] \in E /\ h[p] \in E
    BY <1>0
  <2>1. CASE p = 1
    BY <2>0, <2>1 DEF Ordered
  <2>2. CASE p > 1
    <3>1. p \div 2 \in 1..(p - 1) /\ p \div 2 \in 1..n /\ p \in 2..n
      BY <1>0, <2>2
    <3>2. ~Less(h[p \div 2], h[1]) /\ h[p \div 2] \in E /\ ~Less(h[p], h[p \div 2])
      BY <1>0, <1>1, <3>1 DEF IsHeap
    <3> QED
      BY <2>0, <3>2 DEF Ordered
  <2> QED
    BY <1>0, <2>1, <2>2
<1>2. \A p \in 1..n : p \in S
  <2> HIDE DEF S
  <2> QED
    BY <1>0, <1>1, UpToAll
<1> QED
  BY <1>2

-----------------------------------------------------------------------------
(* The rebuild as the function its loop defines.                           *)
HeapifyValue(h, s, n) ==
    IF n = 0 THEN h
    ELSE SiftDown(s[n - 1], Len(h) \div 2 - n + 1, s[n - 1][Len(h) \div 2 - n + 1])
Heapifying(h) == CHOOSE s : s = [n \in 0..(Len(h) \div 2) |-> HeapifyValue(h, s, n)]

LEMMA HeapifyIsHeapifying ==
    ASSUME NEW h
    PROVE  Heapify(h) = Heapifying(h)[Len(h) \div 2]
  BY DEF Heapify, Heapifying, HeapifyValue

LEMMA HeapifyingExists ==
    ASSUME NEW E, Ordered(E), NEW h \in Seq(E)
    PROVE  Heapifying(h) = [n \in 0..(Len(h) \div 2) |-> HeapifyValue(h, Heapifying(h), n)]
<1> DEFINE l == Len(h)
           m == l \div 2
           X == [1..l -> E]
           D == 0..m
           C == 1..m
           rank == [n \in D |-> n]
           next == [n \in C |-> n - 1]
           at(n) == m - n + 1
           G == [n \in C |-> [v \in X |-> SiftDown(v, at(n), v[at(n)])]]
           base == [n \in D |-> h]
<1>0. l \in Nat /\ m \in Nat /\ m <= l /\ h \in X
  BY LenProperties
<1>1. \A n \in C : n \in D /\ n - 1 \in D /\ n # 0 /\ at(n) \in 1..l
  BY <1>0
<1>2. next \in [C -> D] /\ rank \in [D -> 0..m] /\ C \in SUBSET D
  BY <1>0, <1>1
<1>3. \A n \in C : rank[next[n]] < rank[n]
  BY <1>0, <1>1
<1>4. ASSUME NEW n \in C, NEW v \in X PROVE SiftDown(v, at(n), v[at(n)]) \in X
  <2>1. v \in Seq(E) /\ Len(v) = l /\ at(n) \in 1..Len(v) /\ v[at(n)] \in E
    BY <1>0, <1>1, FunctionIsSeq
  <2> DEFINE w == SiftDown(v, at(n), v[at(n)])
  <2>2. w \in Seq(E) /\ Rearranges(w, [v EXCEPT ![at(n)] = v[at(n)]])
    <3> HIDE DEF at
    <3> QED
      BY <2>1, SiftDownMoves
  <2> HIDE DEF w
  <2>3. Len([v EXCEPT ![at(n)] = v[at(n)]]) = l
    BY <2>1, ExceptSeq
  <2>4. Len(w) = l
    BY <2>2, <2>3 DEF Rearranges
  <2>5. w \in X
    BY <2>2, <2>4, LenProperties
  <2> QED
    BY <2>5 DEF w
<1>5. G \in [C -> [X -> X]]
  BY <1>4
<1>6. base \in [D -> X]
  BY <1>0
<1>7. PICK f \in [D -> X] : \A n \in D : f[n] = IF n \in C THEN G[n][f[next[n]]] ELSE base[n]
  <2>1. Descends(D, X, m, rank, C, next, G, base)
    <3> HIDE DEF m, G, X
    <3> QED
      BY <1>0, <1>2, <1>3, <1>5, <1>6 DEF Descends
  <2>2. Solved(D, X, C, next, G, base)
    <3> HIDE DEF D, X, C, next, G, base, rank, m
    <3> QED
      BY <2>1, Recursion
  <2> QED
    BY <2>2 DEF Solved
<1>8. ASSUME NEW n \in D PROVE f[n] = HeapifyValue(h, f, n)
  <2>1. CASE n \in C
    <3>1. next[n] = n - 1 /\ f[n - 1] \in X /\ n # 0
      BY <1>1, <2>1
    <3>2. G[n][f[n - 1]] = SiftDown(f[n - 1], at(n), f[n - 1][at(n)])
      BY <2>1, <3>1
    <3> QED
      BY <1>7, <2>1, <3>1, <3>2 DEF HeapifyValue
  <2>2. CASE n \notin C
    <3>1. n = 0
      BY <1>0, <2>2
    <3>2. f[n] = h
      BY <1>7, <2>2
    <3> QED
      BY <3>1, <3>2 DEF HeapifyValue
  <2> QED
    BY <2>1, <2>2
<1>9. f = [n \in 0..(Len(h) \div 2) |-> HeapifyValue(h, f, n)]
  BY <1>8
<1> QED
  BY <1>9, Zenon DEF Heapifying

(* The rebuild keeps the entries and leaves a heap, whatever the array was *)
(* before.                                                                 *)
THEOREM HeapifyBuilds ==
    ASSUME NEW E, Ordered(E), NEW h \in Seq(E)
    PROVE  /\ Heapify(h) \in Seq(E)
           /\ Rearranges(Heapify(h), h)
           /\ IsHeap(Heapify(h))
<1> DEFINE l == Len(h)
           m == l \div 2
           u == Heapifying(h)
           Good(n) == u[n] \in Seq(E) /\ Rearranges(u[n], h) /\ HeapFrom(u[n], m - n + 1)
           S == {n \in 0..m : Good(n)}
<1>0. l \in Nat /\ m \in Nat /\ m <= l /\ \A n \in 0..m : u[n] = HeapifyValue(h, u, n)
  BY LenProperties, HeapifyingExists
<1>1. 0 \in S
  <2>1. u[0] = h
    BY <1>0 DEF HeapifyValue
  <2>2. \A i \in 2..l : ~(i \div 2 >= m - 0 + 1)
    BY <1>0
  <2>3. HeapFrom(h, m - 0 + 1)
    BY <2>2 DEF HeapFrom
  <2> QED
    BY <1>0, <2>1, <2>3, RearrangesItself
<1>2. ASSUME NEW n \in 0..m, n < m, n \in S PROVE n + 1 \in S
  <2> DEFINE g == u[n]
             p == m - n
  <2>1. g \in Seq(E) /\ Rearranges(g, h) /\ HeapFrom(g, p + 1)
    BY <1>2
  <2>2. u[n + 1] = SiftDown(g, p, g[p])
    <3>1. n + 1 \in 0..m /\ n + 1 # 0 /\ (n + 1) - 1 = n /\ m - (n + 1) + 1 = p
      BY <1>0, <1>2
    <3>2. u[n + 1] = SiftDown(u[(n + 1) - 1], m - (n + 1) + 1, u[(n + 1) - 1][m - (n + 1) + 1])
      BY <1>0, <3>1 DEF HeapifyValue
    <3> QED
      BY <3>1, <3>2
  <2>3. p \in 1..Len(g) /\ p = m - (n + 1) + 1 /\ n + 1 \in 0..m
    BY <1>0, <1>2, <2>1 DEF Rearranges
  <2> HIDE DEF g, p, u
  <2>4. g[p] \in E /\ [g EXCEPT ![p] = g[p]] = g
    BY <2>1, <2>3, LenProperties
  <2>5. SiftDown(g, p, g[p]) \in Seq(E) /\ Rearranges(SiftDown(g, p, g[p]), [g EXCEPT ![p] = g[p]])
    BY <2>1, <2>3, <2>4, SiftDownMoves
  <2>6. HeapFrom(SiftDown(g, p, g[p]), p)
    BY <2>1, <2>3, <2>4, SiftDownHeap
  <2>7. Rearranges(SiftDown(g, p, g[p]), h)
    BY <2>1, <2>4, <2>5, RearrangesTwice
  <2> HIDE DEF m
  <2> QED
    BY <2>2, <2>3, <2>5, <2>6, <2>7
<1>3. \A n \in 0..m : n \in S
  <2> HIDE DEF S, m
  <2> QED
    BY <1>0, <1>1, <1>2, UpTo
<1>4. m \in S
  <2> HIDE DEF S, m
  <2> QED
    BY <1>0, <1>3
<1>5. Heapify(h) = u[m]
  BY HeapifyIsHeapifying
<1> HIDE DEF u
<1>6. u[m] \in Seq(E) /\ Rearranges(u[m], h) /\ HeapFrom(u[m], 1)
  BY <1>0, <1>4
<1>7. Len(u[m]) \in Nat
  BY <1>6, LenProperties
<1>8. IsHeap(u[m])
  BY <1>6, <1>7 DEF HeapFrom, IsHeap
<1> QED
  BY <1>5, <1>6, <1>8

-----------------------------------------------------------------------------
(* The compaction as the function its loop defines.                        *)
KeptValue(h, places, s, n) ==
    IF n = 0 THEN <<>> ELSE IF n \in places THEN Append(s[n - 1], h[n]) ELSE s[n - 1]
Keeping(h, places) == CHOOSE s : s = [n \in 0..Len(h) |-> KeptValue(h, places, s, n)]

LEMMA KeptIsKeeping ==
    ASSUME NEW h, NEW places
    PROVE  Kept(h, places) = Keeping(h, places)[Len(h)]
  BY DEF Kept, Keeping, KeptValue

LEMMA KeepingExists ==
    ASSUME NEW E, NEW h \in Seq(E), NEW places
    PROVE  Keeping(h, places) = [n \in 0..Len(h) |-> KeptValue(h, places, Keeping(h, places), n)]
<1> DEFINE m == Len(h)
           X == Seq(E)
           D == 0..m
           C == 1..m
           rank == [n \in D |-> n]
           next == [n \in C |-> n - 1]
           step(n, v) == IF n \in places THEN Append(v, h[n]) ELSE v
           G == [n \in C |-> [v \in X |-> step(n, v)]]
           base == [n \in D |-> <<>>]
<1>0. m \in Nat /\ <<>> \in X /\ \A n \in C : h[n] \in E
  BY LenProperties, EmptySeq
<1>1. \A n \in C : n \in D /\ n - 1 \in D /\ n # 0
  BY <1>0
<1>2. next \in [C -> D] /\ rank \in [D -> 0..m] /\ C \in SUBSET D
  BY <1>0, <1>1
<1>3. \A n \in C : rank[next[n]] < rank[n]
  BY <1>0, <1>1
<1>4. ASSUME NEW n \in C, NEW v \in X PROVE step(n, v) \in X
  BY <1>0, AppendProperties
<1>5. G \in [C -> [X -> X]]
  BY <1>4
<1>6. base \in [D -> X]
  BY <1>0
<1>7. PICK f \in [D -> X] : \A n \in D : f[n] = IF n \in C THEN G[n][f[next[n]]] ELSE base[n]
  <2>1. Descends(D, X, m, rank, C, next, G, base)
    <3> HIDE DEF m, G, X
    <3> QED
      BY <1>0, <1>2, <1>3, <1>5, <1>6 DEF Descends
  <2>2. Solved(D, X, C, next, G, base)
    <3> HIDE DEF D, X, C, next, G, base, rank, m
    <3> QED
      BY <2>1, Recursion
  <2> QED
    BY <2>2 DEF Solved
<1>8. ASSUME NEW n \in D PROVE f[n] = KeptValue(h, places, f, n)
  <2>1. CASE n \in C
    <3>1. next[n] = n - 1 /\ f[n - 1] \in X /\ n # 0
      BY <1>1, <2>1
    <3>2. G[n][f[n - 1]] = step(n, f[n - 1])
      BY <2>1, <3>1
    <3> QED
      BY <1>7, <2>1, <3>1, <3>2 DEF KeptValue
  <2>2. CASE n \notin C
    <3>1. n = 0
      BY <1>0, <2>2
    <3>2. f[n] = <<>>
      BY <1>7, <2>2
    <3> QED
      BY <3>1, <3>2 DEF KeptValue
  <2> QED
    BY <2>1, <2>2
<1>9. f = [n \in 0..Len(h) |-> KeptValue(h, places, f, n)]
  BY <1>8
<1> QED
  BY <1>9, Zenon DEF Keeping

(* A selection takes the entries at some places of an array, each once.    *)
Selects(g, h, P) ==
    \E f \in [1..Len(g) -> P] :
       /\ \A i, j \in 1..Len(g) : f[i] = f[j] => i = j
       /\ \A p \in P : \E i \in 1..Len(g) : f[i] = p
       /\ \A i \in 1..Len(g) : g[i] = h[f[i]]

(* compact keeps the entries at the places that stay and no other.         *)
THEOREM KeptSelects ==
    ASSUME NEW E, NEW h \in Seq(E), NEW P \in SUBSET (1..Len(h))
    PROVE  /\ Kept(h, P) \in Seq(E)
           /\ Len(Kept(h, P)) <= Len(h)
           /\ Selects(Kept(h, P), h, P)
<1> DEFINE m == Len(h)
           u == Keeping(h, P)
           Q(n) == P \cap (1..n)
           Good(n) == u[n] \in Seq(E) /\ Len(u[n]) <= n /\ Selects(u[n], h, Q(n))
           S == {n \in 0..m : Good(n)}
<1>0. m \in Nat /\ h \in [1..m -> E] /\ \A n \in 0..m : u[n] = KeptValue(h, P, u, n)
  BY LenProperties, KeepingExists
<1>1. 0 \in S
  <2>1. u[0] = <<>>
    BY <1>0 DEF KeptValue
  <2>2. Len(<<>>) = 0 /\ <<>> \in Seq(E)
    BY EmptySeq
  <2>3. Selects(<<>>, h, Q(0))
    <3>1. Q(0) = {} /\ 1..Len(<<>>) = {}
      OBVIOUS
    <3>2. [i \in 1..Len(<<>>) |-> 0] \in [1..Len(<<>>) -> Q(0)]
      BY <3>1
    <3> QED
      BY <3>1, <3>2 DEF Selects
  <2> HIDE DEF u, Q
  <2>4. Good(0) /\ 0 \in 0..m
    BY <1>0, <2>1, <2>2, <2>3
  <2> QED
    BY <2>4
<1>2. ASSUME NEW n \in 0..m, n < m, n \in S PROVE n + 1 \in S
  <2> DEFINE g == u[n]
             k == n + 1
  <2>1. g \in Seq(E) /\ Len(g) <= n /\ Selects(g, h, Q(n)) /\ Len(g) \in Nat
    BY <1>2, LenProperties
  <2>2. k \in 0..m /\ k \in 1..m /\ k # 0 /\ k - 1 = n /\ h[k] \in E
    BY <1>0, <1>2
  <2>3. u[k] = IF k \in P THEN Append(g, h[k]) ELSE g
    BY <1>0, <2>2 DEF KeptValue
  <2> HIDE DEF g, u
  <2>4. CASE k \in P
    <3> DEFINE w == Append(g, h[k])
               c == Len(g) + 1
    <3>1. /\ w \in Seq(E) /\ Len(w) = c /\ w[c] = h[k]
          /\ \A i \in 1..Len(g) : w[i] = g[i]
      BY <2>1, <2>2, AppendProperties
    <3>2. PICK f \in [1..Len(g) -> Q(n)] :
             /\ \A i, j \in 1..Len(g) : f[i] = f[j] => i = j
             /\ \A p \in Q(n) : \E i \in 1..Len(g) : f[i] = p
             /\ \A i \in 1..Len(g) : g[i] = h[f[i]]
      BY <2>1 DEF Selects
    <3> DEFINE f2 == [i \in 1..c |-> IF i = c THEN k ELSE f[i]]
    <3>3. Q(k) = Q(n) \cup {k} /\ k \notin Q(n)
      BY <2>2, <2>4
    <3> HIDE DEF Q, w
    <3>4. f2 \in [1..c -> Q(k)]
      BY <2>1, <3>3
    <3>5. ASSUME NEW i \in 1..c, NEW j \in 1..c, f2[i] = f2[j] PROVE i = j
      BY <2>1, <3>2, <3>3, <3>5
    <3>6. ASSUME NEW p \in Q(k) PROVE \E i \in 1..c : f2[i] = p
      <4>1. CASE p = k
        BY <2>1, <4>1
      <4>2. CASE p \in Q(n)
        <5>1. PICK i \in 1..Len(g) : f[i] = p
          BY <3>2, <4>2
        <5>2. i \in 1..c /\ i # c
          BY <2>1
        <5> QED
          BY <5>1, <5>2
      <4> QED
        BY <3>3, <4>1, <4>2
    <3>7. ASSUME NEW i \in 1..c PROVE w[i] = h[f2[i]]
      <4>1. CASE i = c
        BY <3>1, <4>1
      <4>2. CASE i # c
        <5>1. i \in 1..Len(g)
          BY <2>1, <4>2
        <5> QED
          BY <3>1, <3>2, <4>2, <5>1
      <4> QED
        BY <4>1, <4>2
    <3> HIDE DEF f2
    <3>8. Selects(w, h, Q(k))
      BY <3>1, <3>4, <3>5, <3>6, <3>7 DEF Selects
    <3>9. u[k] = w /\ Len(w) <= k
      BY <2>1, <2>3, <2>4, <3>1 DEF w
    <3> HIDE DEF k
    <3> QED
      BY <2>2, <3>1, <3>8, <3>9 DEF k
  <2>5. CASE k \notin P
    <3>1. Q(k) = Q(n) /\ u[k] = g /\ Len(g) <= k
      BY <2>1, <2>2, <2>3, <2>5
    <3> QED
      BY <2>1, <2>2, <3>1
  <2> QED
    BY <2>4, <2>5
<1>3. \A n \in 0..m : n \in S
  <2> HIDE DEF S, m
  <2> QED
    BY <1>0, <1>1, <1>2, UpTo
<1>4. m \in S
  <2> HIDE DEF S, m
  <2> QED
    BY <1>0, <1>3
<1>5. Kept(h, P) = u[m] /\ Q(m) = P
  BY KeptIsKeeping
<1> HIDE DEF u, Q
<1> QED
  BY <1>4, <1>5

-----------------------------------------------------------------------------
(* The intrusive list.                                                     *)

(* ntt_list_init leaves the empty list, when every node is unlinked.       *)
THEOREM InitRepresents ==
    ASSUME Sentinel \notin Nodes, NULL \notin Cells,
           NEW m \in Memories, \A x \in Nodes : Unlinked(m, x)
    PROVE  Represents(ListInit(m), <<>>)
  BY DEF Represents, ListInit, SetNext, SetPrev, Memories, Cells, Unlinked, At

(* A node that is not unlinked is in the list, and one that is unlinked is *)
(* not.                                                                    *)
LEMMA UnlinkedIsOut ==
    ASSUME Sentinel \notin Nodes, NULL \notin Cells,
           NEW m, NEW s, Represents(m, s), NEW x \in Nodes
    PROVE  Unlinked(m, x) <=> \A i \in 1..Len(s) : s[i] # x
<1>1. ASSUME NEW i \in 1..Len(s), s[i] = x PROVE m.next[x] # NULL
  <2>1. m.next[x] = At(s, i + 1)
    BY <1>1 DEF Represents
  <2>2. s \in Seq(Nodes)
    BY DEF Represents
  <2>3. At(s, i + 1) \in Cells
    BY <2>2 DEF At, Cells
  <2> QED
    BY <2>1, <2>3
<1>2. (\A i \in 1..Len(s) : s[i] # x) => m.next[x] = NULL
  BY DEF Represents
<1> QED
  BY <1>1, <1>2 DEF Unlinked

(* What a push leaves in next and prev, cell by cell.                      *)
LEMMA PushCells ==
    ASSUME Sentinel \notin Nodes, NULL \notin Cells,
           NEW m \in Memories, NEW x \in Nodes, m.prev[Sentinel] \in Cells,
           m.prev[Sentinel] # x
    PROVE  /\ PushBack(m, x) \in Memories
           /\ PushBack(m, x).next[x] = Sentinel
           /\ PushBack(m, x).next[m.prev[Sentinel]] = x
           /\ \A c \in Cells : c # x /\ c # m.prev[Sentinel] =>
                 PushBack(m, x).next[c] = m.next[c]
           /\ PushBack(m, x).prev[x] = m.prev[Sentinel]
           /\ PushBack(m, x).prev[Sentinel] = x
           /\ \A c \in Cells : c # x /\ c # Sentinel =>
                 PushBack(m, x).prev[c] = m.prev[c]
  BY DEF PushBack, Published, Linked, SetNext, SetPrev, Memories, Cells

(* ntt_list_push_back appends the node, and says whether the list was      *)
(* empty before.                                                           *)
THEOREM PushAppends ==
    ASSUME Sentinel \notin Nodes, NULL \notin Cells,
           NEW m, NEW s, Represents(m, s), NEW x \in Nodes, Unlinked(m, x)
    PROVE  /\ Represents(PushBack(m, x), Append(s, x))
           /\ ListEmpty(m) <=> s = <<>>
<1> DEFINE n == PushBack(m, x)
           t == Append(s, x)
<1>1. m \in Memories /\ s \in Seq(Nodes) /\ Len(s) \in Nat
  BY DEF Represents
<1>2. \A i \in 1..Len(s) : s[i] \in Nodes /\ s[i] # x
  BY <1>1, UnlinkedIsOut
<1>3. m.prev[Sentinel] = At(s, Len(s))
  BY DEF Represents
<1>4. m.prev[Sentinel] \in Cells /\ m.prev[Sentinel] # x
  BY <1>1, <1>2, <1>3 DEF At, Cells
<1>5. /\ n \in Memories
      /\ n.next[x] = Sentinel
      /\ n.next[m.prev[Sentinel]] = x
      /\ \A c \in Cells : c # x /\ c # m.prev[Sentinel] => n.next[c] = m.next[c]
      /\ n.prev[x] = m.prev[Sentinel]
      /\ n.prev[Sentinel] = x
      /\ \A c \in Cells : c # x /\ c # Sentinel => n.prev[c] = m.prev[c]
  BY <1>1, <1>4, PushCells
<1> HIDE DEF n
<1>6. /\ t \in Seq(Nodes) /\ Len(t) = Len(s) + 1
      /\ t[Len(s) + 1] = x
      /\ \A i \in 1..Len(s) : t[i] = s[i]
  BY <1>1
<1> HIDE DEF t
<1>7. \A i \in Int : At(t, i) = IF i = Len(s) + 1 THEN x ELSE At(s, i)
  BY <1>1, <1>6 DEF At
<1>8. \A i, j \in 1..Len(t) : t[i] = t[j] => i = j
  <2>1. \A i, j \in 1..Len(s) : s[i] = s[j] => i = j
    BY DEF Represents
  <2> QED BY <1>1, <1>2, <1>6, <2>1
<1>9. n.next[Sentinel] = At(t, 1)
  <2>1. CASE Len(s) = 0
    <3>1. m.prev[Sentinel] = Sentinel
      BY <1>3, <2>1 DEF At
    <3> QED BY <1>5, <1>7, <2>1, <3>1
  <2>2. CASE Len(s) # 0
    <3>1. m.prev[Sentinel] = s[Len(s)] /\ m.prev[Sentinel] # Sentinel
      BY <1>1, <1>2, <1>3, <2>2 DEF At
    <3>2. n.next[Sentinel] = m.next[Sentinel]
      BY <1>5, <3>1 DEF Cells
    <3> QED BY <1>1, <1>7, <2>2, <3>2 DEF Represents
  <2> QED BY <2>1, <2>2
<1>10. n.prev[Sentinel] = At(t, Len(t))
  BY <1>1, <1>5, <1>6, <1>7
<1>11. \A i \in 1..Len(t) : n.next[t[i]] = At(t, i + 1)
  <2> SUFFICES ASSUME NEW i \in 1..Len(t) PROVE n.next[t[i]] = At(t, i + 1)
    OBVIOUS
  <2>1. CASE i = Len(s) + 1
    <3>1. At(t, i + 1) = Sentinel
      BY <1>1, <1>7, <2>1 DEF At
    <3> QED BY <1>5, <1>6, <2>1, <3>1
  <2>2. CASE i = Len(s)
    <3>1. At(s, Len(s)) = s[i] /\ t[i] = s[i]
      BY <1>1, <1>6, <2>2 DEF At
    <3> QED BY <1>1, <1>3, <1>5, <1>7, <2>2, <3>1
  <2>3. CASE i < Len(s)
    <3>1. i \in 1..Len(s) /\ i + 1 \in 1..Len(s) /\ t[i] = s[i]
      BY <1>1, <1>6, <2>3
    <3>2. s[i] # s[Len(s)]
      BY <1>1, <2>3, <3>1 DEF Represents
    <3>3. m.prev[Sentinel] = s[Len(s)]
      BY <1>1, <1>3, <2>3 DEF At
    <3>4. s[i] \in Cells /\ s[i] # x
      BY <1>2, <3>1 DEF Cells
    <3>5. n.next[t[i]] = m.next[s[i]]
      BY <1>5, <3>1, <3>2, <3>3, <3>4
    <3>6. m.next[s[i]] = At(s, i + 1)
      BY <3>1 DEF Represents
    <3> QED BY <1>1, <1>7, <2>3, <3>5, <3>6
  <2> QED BY <1>1, <1>6, <2>1, <2>2, <2>3
<1>12. \A i \in 1..Len(t) : n.prev[t[i]] = At(t, i - 1)
  <2> SUFFICES ASSUME NEW i \in 1..Len(t) PROVE n.prev[t[i]] = At(t, i - 1)
    OBVIOUS
  <2>1. CASE i = Len(s) + 1
    BY <1>1, <1>3, <1>5, <1>6, <1>7, <2>1
  <2>2. CASE i # Len(s) + 1
    <3>1. i \in 1..Len(s) /\ t[i] = s[i]
      BY <1>1, <1>6, <2>2
    <3>2. s[i] \in Cells /\ s[i] # x /\ s[i] # Sentinel
      BY <1>2, <3>1 DEF Cells
    <3>3. n.prev[t[i]] = m.prev[s[i]]
      BY <1>5, <3>1, <3>2
    <3>4. m.prev[s[i]] = At(s, i - 1)
      BY <3>1 DEF Represents
    <3> QED BY <1>1, <1>7, <3>1, <3>3, <3>4
  <2> QED BY <2>1, <2>2
<1>13. \A y \in Nodes : (\A i \in 1..Len(t) : t[i] # y) => n.next[y] = NULL
  <2> SUFFICES ASSUME NEW y \in Nodes, \A i \in 1..Len(t) : t[i] # y
               PROVE  n.next[y] = NULL
    OBVIOUS
  <2>1. y # x /\ \A i \in 1..Len(s) : s[i] # y
    BY <1>1, <1>6
  <2>2. y # m.prev[Sentinel]
    BY <1>1, <1>3, <2>1 DEF At
  <2>3. n.next[y] = m.next[y]
    BY <1>5, <2>1, <2>2 DEF Cells
  <2> QED BY <2>1, <2>3 DEF Represents
<1>14. ListEmpty(m) <=> s = <<>>
  <2>1. m.next[Sentinel] = At(s, 1)
    BY DEF Represents
  <2>2. CASE s = <<>>
    BY <2>1, <2>2 DEF ListEmpty, At
  <2>3. CASE s # <<>>
    <3>1. Len(s) > 0 /\ 1 \in 1..Len(s)
      BY <1>1, <2>3
    <3> QED BY <1>2, <2>1, <2>3, <3>1 DEF ListEmpty, At
  <2> QED BY <2>2, <2>3
<1>15. Represents(n, t)
  BY <1>5, <1>6, <1>8, <1>9, <1>10, <1>11, <1>12, <1>13 DEF Represents
<1> QED BY <1>14, <1>15 DEF n, t

(* What ntt_list_next leaves in next and prev, cell by cell.               *)
LEMMA NextCells ==
    ASSUME Sentinel \notin Nodes, NULL \notin Cells,
           NEW m \in Memories, Front(m) \in Nodes, Second(m) \in Cells,
           Second(m) # Front(m)
    PROVE  /\ ListNext(m) \in Memories
           /\ ListNext(m).next[Sentinel] = Second(m)
           /\ ListNext(m).next[Front(m)] = NULL
           /\ \A c \in Cells : c # Sentinel /\ c # Front(m) =>
                 ListNext(m).next[c] = m.next[c]
           /\ ListNext(m).prev[Second(m)] = Sentinel
           /\ \A c \in Cells : c # Second(m) =>
                 ListNext(m).prev[c] = m.prev[c]
  BY DEF ListNext, Rejoined, Skipped, SetNext, SetPrev, Memories, Cells, Front,
         Second

(* ntt_list_next drops the head, which is unlinked from then on, and       *)
(* returns the node that follows it.                                       *)
THEOREM NextDropsHead ==
    ASSUME Sentinel \notin Nodes, NULL \notin Cells,
           NEW m, NEW s, Represents(m, s), s # <<>>
    PROVE  /\ Front(m) = Head(s)
           /\ Represents(ListNext(m), Tail(s))
           /\ Unlinked(ListNext(m), Head(s))
           /\ NextReturns(m) = IF Len(s) > 1 THEN s[2] ELSE NULL
<1> DEFINE n == ListNext(m)
           t == Tail(s)
<1>1. /\ m \in Memories /\ s \in Seq(Nodes) /\ Len(s) \in Nat /\ Len(s) > 0
      /\ Head(s) = s[1]
  BY DEF Represents
<1>2. \A i \in 1..Len(s) : s[i] \in Nodes /\ s[i] \in Cells /\ s[i] # Sentinel
  BY <1>1 DEF Cells
<1>3. Front(m) = s[1] /\ s[1] \in Nodes
  BY <1>1, <1>2 DEF Represents, Front, At
<1>4. Second(m) = At(s, 2)
  BY <1>1, <1>3 DEF Represents, Front, Second
<1>5. \A i, j \in 1..Len(s) : s[i] = s[j] => i = j
  BY DEF Represents
<1>6. Second(m) \in Cells /\ Second(m) # Front(m)
  BY <1>1, <1>2, <1>3, <1>4, <1>5 DEF At, Cells
<1>7. /\ n \in Memories
      /\ n.next[Sentinel] = Second(m)
      /\ n.next[Front(m)] = NULL
      /\ \A c \in Cells : c # Sentinel /\ c # Front(m) => n.next[c] = m.next[c]
      /\ n.prev[Second(m)] = Sentinel
      /\ \A c \in Cells : c # Second(m) => n.prev[c] = m.prev[c]
  BY <1>1, <1>3, <1>6, NextCells
<1> HIDE DEF n
<1>8. /\ t \in Seq(Nodes) /\ Len(t) = Len(s) - 1
      /\ \A i \in 1..Len(t) : t[i] = s[i + 1]
  BY <1>1
<1> HIDE DEF t
<1>9. /\ \A i \in Nat \ {0} : At(t, i) = At(s, i + 1)
      /\ At(t, 0) = Sentinel
  BY <1>1, <1>8 DEF At
<1>10. \A i, j \in 1..Len(t) : t[i] = t[j] => i = j
  <2> SUFFICES ASSUME NEW i \in 1..Len(t), NEW j \in 1..Len(t), t[i] = t[j]
               PROVE  i = j
    OBVIOUS
  <2>1. i + 1 \in 1..Len(s) /\ j + 1 \in 1..Len(s) /\ s[i + 1] = s[j + 1]
    BY <1>1, <1>8
  <2> QED BY <1>5, <2>1
<1>11. n.next[Sentinel] = At(t, 1)
  BY <1>4, <1>7, <1>9
<1>12. n.prev[Sentinel] = At(t, Len(t))
  <2>1. CASE Len(s) = 1
    BY <1>4, <1>7, <1>8, <1>9, <2>1 DEF At
  <2>2. CASE Len(s) # 1
    <3>0. \A k \in Nat : k > 0 /\ k # 1 => k > 1 /\ 2 \in 1..k
      OBVIOUS
    <3>1. Len(s) > 1 /\ 2 \in 1..Len(s)
      BY <1>1, <2>2, <3>0
    <3>2. Second(m) # Sentinel
      BY <1>2, <1>4, <3>1 DEF At
    <3>3. n.prev[Sentinel] = m.prev[Sentinel]
      BY <1>7, <3>2 DEF Cells
    <3>4. m.prev[Sentinel] = At(s, Len(s))
      BY DEF Represents
    <3> QED BY <1>1, <1>8, <1>9, <3>1, <3>3, <3>4
  <2> QED BY <2>1, <2>2
<1>13. \A i \in 1..Len(t) : n.next[t[i]] = At(t, i + 1)
  <2> SUFFICES ASSUME NEW i \in 1..Len(t) PROVE n.next[t[i]] = At(t, i + 1)
    OBVIOUS
  <2>1. i + 1 \in 1..Len(s) /\ 1 \in 1..Len(s) /\ i + 1 # 1 /\ t[i] = s[i + 1]
    BY <1>1, <1>8
  <2>2. t[i] \in Cells /\ t[i] # Sentinel /\ t[i] # Front(m)
    BY <1>2, <1>3, <1>5, <2>1
  <2>3. n.next[t[i]] = m.next[s[i + 1]]
    BY <1>7, <2>1, <2>2
  <2>4. m.next[s[i + 1]] = At(s, i + 1 + 1)
    BY <2>1 DEF Represents
  <2> QED BY <1>1, <1>9, <2>3, <2>4
<1>14. \A i \in 1..Len(t) : n.prev[t[i]] = At(t, i - 1)
  <2> SUFFICES ASSUME NEW i \in 1..Len(t) PROVE n.prev[t[i]] = At(t, i - 1)
    OBVIOUS
  <2>1. i + 1 \in 1..Len(s) /\ 2 \in 1..Len(s) /\ t[i] = s[i + 1]
    BY <1>1, <1>8
  <2>2. Second(m) = s[2]
    BY <1>4, <2>1 DEF At
  <2>3. CASE i = 1
    <3>1. t[i] = s[2] /\ i - 1 = 0
      BY <2>1, <2>3
    <3> QED BY <1>7, <1>9, <2>2, <3>1
  <2>4. CASE i # 1
    <3>1. i + 1 # 2 /\ i - 1 \in Nat \ {0}
      BY <2>4
    <3>2. t[i] \in Cells /\ t[i] # Second(m)
      BY <1>2, <1>5, <2>1, <2>2, <3>1
    <3>3. n.prev[t[i]] = m.prev[s[i + 1]]
      BY <1>7, <2>1, <3>2
    <3>4. m.prev[s[i + 1]] = At(s, i + 1 - 1)
      BY <2>1 DEF Represents
    <3>5. At(t, i - 1) = At(s, i - 1 + 1)
      BY <1>9, <3>1
    <3> QED BY <3>3, <3>4, <3>5
  <2> QED BY <2>3, <2>4
<1>15. \A y \in Nodes : (\A i \in 1..Len(t) : t[i] # y) => n.next[y] = NULL
  <2> SUFFICES ASSUME NEW y \in Nodes, \A i \in 1..Len(t) : t[i] # y
               PROVE  n.next[y] = NULL
    OBVIOUS
  <2>1. CASE y = s[1]
    BY <1>3, <1>7, <2>1
  <2>2. CASE y # s[1]
    <3>1. \A i \in 1..Len(s) : s[i] # y
      <4> SUFFICES ASSUME NEW i \in 1..Len(s), i # 1 PROVE s[i] # y
        BY <2>2
      <4>1. i - 1 \in 1..Len(t) /\ t[i - 1] = s[i - 1 + 1] /\ i - 1 + 1 = i
        BY <1>1, <1>8
      <4> QED BY <4>1
    <3>2. m.next[y] = NULL
      BY <3>1 DEF Represents
    <3> QED BY <1>3, <1>7, <2>2, <3>2 DEF Cells
  <2> QED BY <2>1, <2>2
<1>16. Represents(n, t)
  BY <1>7, <1>8, <1>10, <1>11, <1>12, <1>13, <1>14, <1>15 DEF Represents
<1>17. Unlinked(n, Head(s))
  BY <1>1, <1>3, <1>7 DEF Unlinked
<1>18. NextReturns(m) = IF Len(s) > 1 THEN s[2] ELSE NULL
  BY <1>1, <1>2, <1>4 DEF NextReturns, At
<1> QED BY <1>1, <1>3, <1>16, <1>17, <1>18 DEF n, t

(* While a push is under way, whoever reads the head without the lock      *)
(* meets the head of before, or, when the list was empty, the new node     *)
(* with its next already set: the release store comes after the fields.    *)
THEOREM HeadReadableDuringPush ==
    ASSUME Sentinel \notin Nodes, NULL \notin Cells,
           NEW m, NEW s, Represents(m, s), NEW x \in Nodes, Unlinked(m, x),
           NEW i \in 1..4
    PROVE  \/ Front(PushSteps(m, x)[i]) = Front(m)
           \/ /\ s = <<>>
              /\ Front(PushSteps(m, x)[i]) = x
              /\ ~Unlinked(PushSteps(m, x)[i], x)
<1>1. m \in Memories /\ s \in Seq(Nodes) /\ m.prev[Sentinel] = At(s, Len(s))
  BY DEF Represents
<1>2. \A j \in 1..Len(s) : s[j] \in Nodes /\ s[j] # x
  BY <1>1, UnlinkedIsOut
<1>3. m.prev[Sentinel] \in Cells /\ m.prev[Sentinel] # x
  BY <1>1, <1>2 DEF At, Cells
<1>4. m.prev[Sentinel] = Sentinel => s = <<>>
  BY <1>1, <1>2 DEF At
<1>5. x # Sentinel /\ x \in Cells /\ Sentinel \in Cells
  BY DEF Cells
<1>6. Front(SetNext(m, x, Sentinel)) = Front(m)
  BY <1>1, <1>5 DEF Front, SetNext, Memories
<1>7. Front(Linked(m, x)) = Front(m)
  BY <1>1, <1>5 DEF Front, Linked, SetNext, SetPrev, Memories
<1>8. /\ Front(Published(m, x)) =
            IF m.prev[Sentinel] = Sentinel THEN x ELSE Front(m)
      /\ ~Unlinked(Published(m, x), x)
  BY <1>1, <1>3, <1>5
     DEF Front, Published, Linked, SetNext, SetPrev, Memories, Unlinked, Cells
<1>9. /\ Front(PushBack(m, x)) = Front(Published(m, x))
      /\ Unlinked(PushBack(m, x), x) <=> Unlinked(Published(m, x), x)
  BY DEF Front, PushBack, SetPrev, Unlinked
<1>10. /\ PushSteps(m, x)[1] = SetNext(m, x, Sentinel)
       /\ PushSteps(m, x)[2] = Linked(m, x)
       /\ PushSteps(m, x)[3] = Published(m, x)
       /\ PushSteps(m, x)[4] = PushBack(m, x)
  BY DEF PushSteps
<1>11. i = 1 \/ i = 2 \/ i = 3 \/ i = 4
  OBVIOUS
<1> QED BY <1>4, <1>6, <1>7, <1>8, <1>9, <1>10, <1>11
=============================================================================
