------------------------------ MODULE SlabProofs ------------------------------
(***************************************************************************)
(* Theorems about Slab, for any width of an index, any length of the first *)
(* block and any number of threads.                                        *)
(***************************************************************************)
EXTENDS Slab, FiniteSetTheorems, NaturalsInduction, WellFoundedInduction, TLAPS

(* Where block b starts and how long it is, without the reduction modulo   *)
(* 2^IndexBits, and what the first c blocks hold together.                 *)
First(b) == FirstBlockLen * 2^b - FirstBlockLen
LenOf(b) == IF b = FullBlocks THEN LastBlockLen ELSE BlockLen(b)
End(c) == IF c = FullBlocks + 1 THEN Capacity ELSE First(c)

(* The lock, and what the thread that publishes a slot has established.    *)
LockOK ==
    /\ \A t \in Threads : pc[t] \in {"take", "publish"} <=> lock = t
    /\ \A t \in Threads : pc[t] = "publish" =>
          slot[t] = size /\ size < Capacity /\ free_head = None
    /\ state = "closed" => \A t \in Threads : pc[t] = "idle"

(* The sequence s lists the waiting slots, each once, and is the free      *)
(* list.                                                                   *)
ListsWaiting(s, n) ==
    /\ s \in [1..n -> Waiting]
    /\ \A i \in Waiting : \E p \in 1..n : s[p] = i
    /\ \A p, q \in 1..n : s[p] = s[q] => p = q
    /\ IsFreeList(s, n)

SlotsOK ==
    state # "closed" =>
        /\ \A i \in live : i < size
        /\ \A t \in Threads : pc[t] = "link" => slot[t] < size /\ slot[t] \notin live
        /\ \A t, u \in Threads :
              pc[t] = "link" /\ pc[u] = "link" /\ slot[t] = slot[u] => t = u
        /\ \E n \in Nat : \E s : ListsWaiting(s, n)

(* Handles are of slots handed out, and never of a later generation.       *)
HandlesOK ==
    /\ \A h \in handles : h[2] <= generation[h[1]]
    /\ state # "closed" => \A h \in handles : h[1] < size
    /\ HandlesNameTheirObject

(* The blocks allocated so far hold the slots handed out, and the last one *)
(* is in use.                                                              *)
BlocksOK ==
    /\ state = "closed" => size = 0
    /\ state # "closed" =>
        /\ \A b \in 0..(NumBlocks - 1) :
              blocks[b] = IF b < block_cnt THEN LenOf(b) ELSE 0
        /\ size <= End(block_cnt)
        /\ block_cnt > 0 => First(block_cnt - 1) <= size
        /\ \A t \in Threads : pc[t] = "publish" => size < End(block_cnt)
        /\ (\A t \in Threads : pc[t] # "publish") /\ block_cnt > 0 =>
              First(block_cnt - 1) < size

(* The inductive invariant.                                                *)
Inv == TypeOK /\ LockOK /\ SlotsOK /\ HandlesOK /\ BlocksOK

-----------------------------------------------------------------------------
(* Powers of two grow.                                                     *)
LEMMA PowersPositive ==
    \A n \in 0..IndexBits : 2^n \in Nat /\ 2^n >= 1
<1> DEFINE Bad == {n \in 0..IndexBits : ~(2^n \in Nat /\ 2^n >= 1)}
<1>1. SUFFICES ASSUME Bad # {} PROVE FALSE
  OBVIOUS
<1>2. Bad \subseteq Nat
  BY SlabWidths
<1>3. PICK m \in Bad : \A k \in Bad : ~(<<k, m>> \in OpToRel(<, Nat))
  BY <1>1, <1>2, NatLessThanWellFounded, WFMin
<1>4. \A k \in Bad : ~(k < m)
  BY <1>2, <1>3 DEF OpToRel
<1>5. m \in 0..IndexBits /\ ~(2^m \in Nat /\ 2^m >= 1)
  BY <1>3, Zenon
<1>6. m - 1 \in 0..IndexBits
  <2>1. CASE m = 0
    <3>1. 2^m = 1
      BY <2>1, PowersOfTwo, Zenon
    <3> QED
      BY <1>5, <3>1
  <2> QED
    BY <1>5, <2>1, SlabWidths
<1>7. 2^(m - 1) \in Nat /\ 2^(m - 1) >= 1
  BY <1>4, <1>5, <1>6, SlabWidths
<1>8. 2^((m - 1) + 1) = 2 * 2^(m - 1)
  BY <1>6, PowersOfTwo
<1>9. (m - 1) + 1 = m
  BY <1>5
<1> QED
  BY <1>5, <1>7, <1>8, <1>9

(* The width of an index, and where the blocks start and end.              *)
LEMMA CapacityFacts ==
    /\ 2^IndexBits \in Nat /\ 2^IndexBits >= 1
    /\ Capacity \in Nat /\ None = Capacity /\ Indices = 0..(Capacity - 1)
  BY PowersPositive, SlabWidths DEF Capacity, None, Indices

LEMMA FirstBlockFacts ==
    /\ FirstBlockLen \in Nat /\ FirstBlockLen >= 1
    /\ FullBlocks \in Nat /\ FullBlocks >= 1 /\ FullBlocks <= IndexBits
    /\ FirstLog2 + FullBlocks = IndexBits
<1>1. FirstLog2 \in 0..IndexBits
  BY SlabWidths
<1> QED
  BY <1>1, PowersPositive, SlabWidths DEF FirstBlockLen, FullBlocks

(* Blocks double: the length of block b is the power of two that starts    *)
(* at the length of the first.                                             *)
LEMMA BlockPowers ==
    \A b \in 0..FullBlocks : FirstBlockLen * 2^b = 2^(FirstLog2 + b)
<1> DEFINE Bad == {b \in 0..FullBlocks : ~(FirstBlockLen * 2^b = 2^(FirstLog2 + b))}
<1>1. SUFFICES ASSUME Bad # {} PROVE FALSE
  OBVIOUS
<1>2. Bad \subseteq Nat
  BY FirstBlockFacts
<1>3. PICK m \in Bad : \A k \in Bad : ~(<<k, m>> \in OpToRel(<, Nat))
  BY <1>1, <1>2, NatLessThanWellFounded, WFMin
<1>4. \A k \in Bad : ~(k < m)
  BY <1>2, <1>3 DEF OpToRel
<1>5. m \in 0..FullBlocks /\ ~(FirstBlockLen * 2^m = 2^(FirstLog2 + m))
  BY <1>3, Zenon
<1> HIDE DEF Bad
<1>6. m # 0
  <2>1. SUFFICES ASSUME m = 0 PROVE FALSE
    OBVIOUS
  <2>2. 2^m = 1
    BY <2>1, PowersOfTwo, Zenon
  <2>3. FirstLog2 + m = FirstLog2
    BY <2>1, SlabWidths
  <2>4. FirstBlockLen * 1 = FirstBlockLen
    BY FirstBlockFacts
  <2> QED
    BY <1>5, <2>2, <2>3, <2>4, Zenon DEF FirstBlockLen
<1>7. m - 1 \in 0..FullBlocks /\ m - 1 \notin Bad
  BY <1>4, <1>5, <1>6, FirstBlockFacts
<1>8. FirstBlockLen * 2^(m - 1) = 2^(FirstLog2 + (m - 1))
  BY <1>7, Zenon DEF Bad
<1>9. m - 1 \in 0..IndexBits /\ FirstLog2 + (m - 1) \in 0..IndexBits
  BY <1>7, <1>5, FirstBlockFacts, SlabWidths
<1>10. 2^((m - 1) + 1) = 2 * 2^(m - 1) /\ 2^(m - 1) \in Nat
  BY <1>9, PowersOfTwo
<1>11. 2^((FirstLog2 + (m - 1)) + 1) = 2 * 2^(FirstLog2 + (m - 1))
  BY <1>9, PowersOfTwo
<1>12. (m - 1) + 1 = m /\ (FirstLog2 + (m - 1)) + 1 = FirstLog2 + m
  BY <1>5, SlabWidths
<1>13. 2^m = 2 * 2^(m - 1) /\ 2^(FirstLog2 + m) = 2 * (FirstBlockLen * 2^(m - 1))
  BY <1>8, <1>10, <1>11, <1>12, Zenon
<1>14. PICK x \in Nat : x = 2^(m - 1)
  BY <1>10
<1>15. FirstBlockLen * (2 * x) = 2 * (FirstBlockLen * x)
  BY FirstBlockFacts
<1> QED
  BY <1>5, <1>13, <1>14, <1>15, Zenon

LEMMA PowersGrow ==
    \A b \in 0..IndexBits : \A a \in 0..(b - 1) : 2 * 2^a <= 2^b
<1> DEFINE Bad == {b \in 0..IndexBits : ~(\A a \in 0..(b - 1) : 2 * 2^a <= 2^b)}
<1>1. SUFFICES ASSUME Bad # {} PROVE FALSE
  OBVIOUS
<1>2. Bad \subseteq Nat
  BY SlabWidths
<1>3. PICK m \in Bad : \A k \in Bad : ~(<<k, m>> \in OpToRel(<, Nat))
  BY <1>1, <1>2, NatLessThanWellFounded, WFMin
<1>4. \A k \in Bad : ~(k < m)
  BY <1>2, <1>3 DEF OpToRel
<1>5. m \in 0..IndexBits /\ ~(\A a \in 0..(m - 1) : 2 * 2^a <= 2^m)
  BY <1>3, Zenon
<1>6. PICK a \in 0..(m - 1) : ~(2 * 2^a <= 2^m)
  BY <1>5
<1>7. m - 1 \in 0..IndexBits /\ a \in 0..IndexBits /\ m \in Nat
  BY <1>5, <1>6, SlabWidths
<1>8. m - 1 \notin Bad
  BY <1>4, <1>7
<1>9. \A c \in 0..((m - 1) - 1) : 2 * 2^c <= 2^(m - 1)
  BY <1>7, <1>8, Zenon
<1> HIDE DEF Bad
<1>10. 2^((m - 1) + 1) = 2 * 2^(m - 1) /\ 2^(m - 1) \in Nat /\ 2^a \in Nat
  BY <1>7, PowersOfTwo
<1>11. (m - 1) + 1 = m
  BY <1>7
<1>12. 2^m = 2 * 2^(m - 1)
  BY <1>10, <1>11, Zenon
<1>13. CASE a = m - 1
  <2>1. 2^a = 2^(m - 1)
    BY <1>13, Zenon
  <2> QED
    BY <1>6, <1>10, <1>12, <2>1
<1>14. CASE a # m - 1
  <2>1. a \in 0..((m - 1) - 1)
    BY <1>6, <1>7, <1>14
  <2>2. 2 * 2^a <= 2^(m - 1)
    BY <1>9, <2>1
  <2> QED
    BY <1>6, <1>10, <1>12, <2>2
<1> QED
  BY <1>13, <1>14

(* Products as the provers need them.                                      *)
LEMMA Distribute ==
    ASSUME NEW x \in Nat, NEW y \in Nat
    PROVE  x * (y - 1) = x * y - x /\ x * (2 * y) = x * y + x * y /\ x * y \in Nat
  OBVIOUS

(* The arithmetic of the blocks does not wrap before the slab is full.     *)
LEMMA BlockFacts ==
    ASSUME NEW b \in 0..FullBlocks
    PROVE  /\ First(b) \in Nat /\ BlockFirst(b) = First(b) /\ First(b) <= Capacity
           /\ LenOf(b) \in 0..Capacity
           /\ End(b + 1) = First(b) + LenOf(b) /\ End(b + 1) <= Capacity
           /\ b < FullBlocks => LenOf(b) > 0
<1>1. b \in 0..IndexBits /\ FirstLog2 + b \in 0..IndexBits /\ FirstLog2 \in 0..IndexBits
  BY FirstBlockFacts, SlabWidths
<1>2. PICK f \in Nat, x \in Nat, n \in Nat : f = FirstBlockLen /\ x = 2^b /\ n = 2^IndexBits
  BY <1>1, FirstBlockFacts, PowersPositive, CapacityFacts
<1>3. f >= 1 /\ x >= 1 /\ n >= 1
  BY <1>1, <1>2, FirstBlockFacts, PowersPositive, CapacityFacts
<1>4. f * x = 2^(FirstLog2 + b)
  BY <1>2, BlockPowers
<1>5. b = FullBlocks => f * x = n
  <2>1. ASSUME b = FullBlocks PROVE FirstLog2 + b = IndexBits
    BY <2>1, FirstBlockFacts
  <2> QED
    BY <1>2, <1>4, <2>1
<1>6. b < FullBlocks => f * x + f * x <= n
  <2>1. ASSUME b < FullBlocks PROVE 2 * 2^(FirstLog2 + b) <= 2^IndexBits
    <3>1. IndexBits \in 0..IndexBits /\ FirstLog2 + b \in 0..(IndexBits - 1)
      BY <2>1, FirstBlockFacts, SlabWidths
    <3> QED
      BY <3>1, PowersGrow
  <2>2. f * x \in Nat /\ 2 * (f * x) = f * x + f * x
    BY Distribute
  <2> QED
    BY <1>2, <1>4, <2>1, <2>2
<1>7. f < n
  <2>1. IndexBits \in 0..IndexBits /\ FirstLog2 \in 0..(IndexBits - 1)
    BY SlabWidths
  <2>2. 2 * 2^FirstLog2 <= 2^IndexBits
    BY <2>1, PowersGrow
  <2> QED
    BY <1>2, <1>3, <2>2 DEF FirstBlockLen
<1>8. f * x \in Nat /\ f * (x - 1) = f * x - f /\ f * x >= f /\ f * x <= n
  <2>1. f * (x - 1) >= 0 /\ f * (x - 1) \in Int
    BY <1>3
  <2> QED
    BY <1>5, <1>6, <2>1, Distribute, FirstBlockFacts
<1>9. First(b) = f * x - f /\ BlockFirst(b) = First(b)
  <2>1. First(b) = f * x - f
    BY <1>2 DEF First
  <2>2. BlockFirst(b) = (f * x - f) % n
    BY <1>2, <1>8 DEF BlockFirst
  <2>3. PICK y \in Nat : y = f * x - f /\ y < n
    BY <1>3, <1>8
  <2> QED
    BY <2>1, <2>2, <2>3
<1>10. Capacity = n - 1 /\ LastBlockLen = f - 1
  BY <1>2 DEF Capacity, LastBlockLen
<1>11. CASE b = FullBlocks
  BY <1>3, <1>5, <1>7, <1>8, <1>9, <1>10, <1>11 DEF LenOf, End
<1>12. CASE b # FullBlocks
  <2>1. b < FullBlocks /\ b + 1 # FullBlocks + 1
    BY <1>12, FirstBlockFacts
  <2>2. BlockLen(b) = (f * x) % n
    BY <1>2 DEF BlockLen
  <2>3. PICK y \in Nat : y = f * x /\ y < n /\ y >= 1 /\ y + y <= n
    BY <1>3, <1>6, <1>7, <1>8, <2>1
  <2>4. LenOf(b) = y
    BY <1>12, <2>2, <2>3 DEF LenOf
  <2>5. 2^(b + 1) = 2 * x
    BY <1>1, <1>2, PowersOfTwo
  <2>6. End(b + 1) = (y + y) - f
    BY <1>2, <2>1, <2>3, <2>5, Distribute DEF End, First
  <2> QED
    BY <1>3, <1>7, <1>8, <1>9, <1>10, <2>1, <2>3, <2>4, <2>6
<1> QED
  BY <1>11, <1>12

LEMMA LastBlockFacts ==
    /\ First(0) = 0 /\ End(0) = 0
    /\ NumBlocks \in {FullBlocks, FullBlocks + 1} /\ End(NumBlocks) = Capacity
    /\ BlockFirst(FullBlocks + 1) = First(FullBlocks)
    /\ \A c \in 0..FullBlocks : End(c) = First(c)
<1>1. PICK f \in Nat, n \in Nat : f = FirstBlockLen /\ n = 2^IndexBits
  BY FirstBlockFacts, CapacityFacts
<1>2. f >= 1 /\ f < n
  <2>1. IndexBits \in 0..IndexBits /\ FirstLog2 \in 0..(IndexBits - 1)
    BY SlabWidths
  <2>2. 2 * 2^FirstLog2 <= 2^IndexBits
    BY <2>1, PowersGrow
  <2> QED
    BY <1>1, <2>2, FirstBlockFacts DEF FirstBlockLen
<1>3. \A c \in 0..FullBlocks : End(c) = First(c)
  BY FirstBlockFacts DEF End
<1>4. First(0) = 0 /\ End(0) = 0
  <2>1. First(0) = f * 1 - f
    BY <1>1, PowersOfTwo DEF First
  <2> QED
    BY <1>3, <2>1, FirstBlockFacts
<1>5. First(FullBlocks) = n - f
  <2>1. FullBlocks \in 0..FullBlocks
    BY FirstBlockFacts
  <2>2. FirstBlockLen * 2^FullBlocks = 2^IndexBits
    BY <2>1, BlockPowers, FirstBlockFacts
  <2> QED
    BY <1>1, <2>2 DEF First
<1>6. BlockFirst(FullBlocks + 1) = First(FullBlocks)
  <2>1. FullBlocks \in 0..FullBlocks /\ FullBlocks \in 0..IndexBits
    BY FirstBlockFacts
  <2>2. PICK x \in Nat : x = 2^FullBlocks
    BY <2>1, PowersPositive
  <2>3. f * x = n /\ 2^(FullBlocks + 1) = 2 * x
    BY <1>1, <2>1, <2>2, BlockPowers, PowersOfTwo, FirstBlockFacts
  <2>4. 2 * x \in Nat /\ f * (2 * x - 1) = f * (2 * x) - f /\ f * (2 * x) = n + n
    BY <2>3, Distribute
  <2>5. BlockFirst(FullBlocks + 1) = (n + n - f) % n
    BY <1>1, <2>3, <2>4 DEF BlockFirst
  <2>6. PICK y \in Nat : y = n - f /\ y < n
    BY <1>2
  <2>7. (n + y) % n = y
    BY <1>2, <2>6
  <2> QED
    BY <1>5, <2>5, <2>6, <2>7
<1>7. NumBlocks \in {FullBlocks, FullBlocks + 1} /\ End(NumBlocks) = Capacity
  <2>1. LastBlockLen = f - 1 /\ Capacity = n - 1
    BY <1>1 DEF LastBlockLen, Capacity
  <2>2. CASE f = 1
    <3>1. NumBlocks = FullBlocks
      BY <2>1, <2>2, FirstBlockFacts DEF NumBlocks
    <3> QED
      BY <1>3, <1>5, <2>1, <2>2, <3>1, FirstBlockFacts
  <2>3. CASE f # 1
    <3>1. NumBlocks = FullBlocks + 1
      BY <1>2, <2>1, <2>3, FirstBlockFacts DEF NumBlocks
    <3> QED
      BY <3>1 DEF End
  <2> QED
    BY <2>2, <2>3
<1> QED
  BY <1>3, <1>4, <1>6, <1>7

(* ntt_slab_block_of finds the block whose range an index is in.           *)
LEMMA BlockOfFinds ==
    ASSUME NEW b \in 0..FullBlocks, NEW i \in Nat, First(b) <= i, i < End(b + 1)
    PROVE  BlockOf(i) = b
<1>1. b \in 0..IndexBits /\ b + 1 \in Nat
  BY FirstBlockFacts, SlabWidths
<1>2. PICK f \in Nat, x \in Nat, d \in Nat :
          f = FirstBlockLen /\ x = 2^b /\ d = i \div FirstBlockLen
  BY <1>1, FirstBlockFacts, PowersPositive
<1>3. f >= 1 /\ x >= 1 /\ f * d <= i /\ i < f * d + f
  BY <1>1, <1>2, FirstBlockFacts, PowersPositive
<1>4. 2^(b + 1) = 2 * x
  BY <1>1, <1>2, PowersOfTwo
<1>5. f * x - f <= i
  BY <1>2 DEF First
<1>6. i < (f * x + f * x) - f
  <2>1. CASE b # FullBlocks
    <3>1. b + 1 # FullBlocks + 1
      BY <2>1, FirstBlockFacts
    <3>2. End(b + 1) = f * (2 * x) - f
      BY <1>2, <1>4, <3>1 DEF End, First
    <3> QED
      BY <3>2, Distribute
  <2>2. CASE b = FullBlocks
    <3>1. f * x = 2^IndexBits
      BY <1>2, <2>2, BlockPowers, FirstBlockFacts
    <3>2. i < f * x - 1
      BY <2>2, <3>1 DEF End, Capacity
    <3>3. f * (x - 1) >= 0 /\ f * (x - 1) \in Int
      BY <1>3
    <3> QED
      BY <1>3, <3>2, <3>3, Distribute
  <2> QED
    BY <2>1, <2>2
<1>7. x <= d + 1
  <2>1. SUFFICES ASSUME d + 2 <= x PROVE FALSE
    BY <1>2
  <2>2. f * (x - (d + 2)) >= 0 /\ f * (x - (d + 2)) = f * x - (f * d + f + f)
    BY <2>1
  <2> QED
    BY <1>3, <1>5, <2>2, Distribute
<1>8. d + 1 < 2 * x
  <2>1. SUFFICES ASSUME 2 * x <= d + 1 PROVE FALSE
    BY <1>2
  <2>2. f * ((d + 1) - 2 * x) >= 0 /\ f * ((d + 1) - 2 * x) = f * d + f - (f * x + f * x)
    BY <2>1
  <2> QED
    BY <1>3, <1>6, <2>2, Distribute
<1>9. ASSUME NEW c \in 0..IndexBits, 2^c <= d + 1, d + 1 < 2^(c + 1) PROVE c = b
  <2>1. 2^(c + 1) = 2 * 2^c /\ 2^c \in Nat
    BY PowersOfTwo
  <2>2. CASE c < b
    <3>1. c \in 0..(b - 1)
      BY <1>1, <2>2
    <3>2. 2 * 2^c <= 2^b
      BY <1>1, <3>1, PowersGrow
    <3> QED
      BY <1>2, <1>7, <1>9, <2>1, <3>2
  <2>3. CASE b < c
    <3>1. b \in 0..(c - 1)
      BY <1>1, <2>3
    <3>2. 2 * 2^b <= 2^c
      BY <3>1, PowersGrow
    <3> QED
      BY <1>2, <1>8, <1>9, <2>1, <3>2
  <2> QED
    BY <1>1, <2>2, <2>3
<1>10. 2^b <= d + 1 /\ d + 1 < 2^(b + 1)
  BY <1>2, <1>4, <1>7, <1>8
<1>11. BlockOf(i) = CHOOSE c \in 0..IndexBits : 2^c <= d + 1 /\ d + 1 < 2^(c + 1)
  BY <1>2 DEF BlockOf, HighestBit
<1>12. \E c \in 0..IndexBits : 2^c <= d + 1 /\ d + 1 < 2^(c + 1)
  BY <1>1, <1>10
<1> QED
  BY <1>9, <1>11, <1>12, Zenon

(* What the invariant says of the blocks makes every published index       *)
(* resolve.                                                                *)
LEMMA PublishedInBlock ==
    ASSUME TypeOK, BlocksOK
    PROVE  PublishedResolves
<1>1. SUFFICES ASSUME NEW i \in 0..(size - 1) PROVE Resolves(i)
  BY DEF PublishedResolves
<1>2. i \in Nat /\ i < size /\ state # "closed" /\ size \in Nat
      /\ block_cnt \in 0..NumBlocks /\ NumBlocks \in 0..(FullBlocks + 1)
  BY <1>1, CapacityFacts, FirstBlockFacts, LastBlockFacts DEF TypeOK, BlocksOK
<1> DEFINE Over == {c \in 0..block_cnt : i < End(c)}
<1>3. Over \subseteq Nat
  BY <1>2
<1>4. block_cnt \in Over
  <2>1. \A c \in 0..(FullBlocks + 1) : End(c) \in Int
    BY BlockFacts, LastBlockFacts, FirstBlockFacts, CapacityFacts DEF End
  <2>2. block_cnt \in 0..block_cnt /\ block_cnt \in 0..(FullBlocks + 1)
    BY <1>2, FirstBlockFacts
  <2>3. size <= End(block_cnt)
    BY <1>2 DEF BlocksOK
  <2>4. i < End(block_cnt)
    BY <1>2, <2>1, <2>2, <2>3
  <2> QED
    BY <2>2, <2>4
<1>5. PICK m \in Over : \A k \in Over : ~(<<k, m>> \in OpToRel(<, Nat))
  BY <1>3, <1>4, NatLessThanWellFounded, WFMin
<1>6. \A k \in Over : ~(k < m)
  BY <1>3, <1>5 DEF OpToRel
<1>7. m \in 0..block_cnt /\ i < End(m) /\ m # 0
  <2>1. m \in 0..block_cnt /\ i < End(m)
    BY <1>5, Zenon
  <2> QED
    BY <1>2, <2>1, LastBlockFacts
<1>8. PICK b \in Nat : b + 1 = m
  BY <1>2, <1>7
<1>9. b \in 0..FullBlocks /\ b < block_cnt /\ b \in 0..(NumBlocks - 1)
  BY <1>2, <1>7, <1>8, FirstBlockFacts
<1>10. First(b) <= i /\ First(b) \in Nat
  <2>1. End(b) = First(b) /\ First(b) \in Nat
    BY <1>9, LastBlockFacts, BlockFacts
  <2>2. b \in 0..block_cnt /\ b < m
    BY <1>2, <1>7, <1>8, <1>9
  <2>3. b \notin Over
    BY <1>6, <2>2
  <2> QED
    BY <1>2, <2>1, <2>2, <2>3
<1>11. BlockOf(i) = b
  BY <1>2, <1>7, <1>8, <1>9, <1>10, BlockOfFinds
<1>12. blocks[b] = LenOf(b) /\ BlockFirst(b) = First(b) /\ LenOf(b) \in Nat
       /\ End(b + 1) = First(b) + LenOf(b)
  BY <1>2, <1>9, BlockFacts, CapacityFacts DEF BlocksOK
<1>13. i - First(b) \in 0..(LenOf(b) - 1)
  BY <1>2, <1>7, <1>8, <1>10, <1>12
<1>14. b \in DOMAIN blocks
  BY <1>9 DEF TypeOK
<1> QED
  BY <1>11, <1>12, <1>13, <1>14 DEF Resolves

-----------------------------------------------------------------------------
LEMMA InLinking ==
    \A i : i \in Linking <=> \E t \in Threads : pc[t] = "link" /\ slot[t] = i
  BY DEF Linking

(* The slots, when no slot changes hands.                                  *)
LEMMA SlotsFrame ==
    ASSUME SlotsOK, UNCHANGED <<size, live, free_head, next_free>>,
           state' = "closed" => state = "closed",
           state = "closed" => state' = "closed",
           \A t \in Threads : pc'[t] = "link" <=> pc[t] = "link",
           \A t \in Threads : pc[t] = "link" => slot'[t] = slot[t]
    PROVE  SlotsOK'
<1>1. Linking' = Linking
  BY DEF Linking
<1>2. Waiting' = Waiting
  BY <1>1 DEF Waiting
<1>3. \A s, n : ListsWaiting(s, n)' <=> ListsWaiting(s, n)
  BY <1>2 DEF ListsWaiting, IsFreeList
<1> QED
  BY <1>3 DEF SlotsOK

LEMMA HandlesFrame ==
    ASSUME HandlesOK, UNCHANGED <<generation, live, tenancy, handles, size>>,
           state = "closed" => state' = "closed"
    PROVE  HandlesOK'
  BY DEF HandlesOK, HandlesNameTheirObject

LEMMA BlocksFrame ==
    ASSUME BlocksOK, UNCHANGED <<size, blocks, block_cnt>>,
           state' = "closed" => state = "closed",
           state = "closed" => state' = "closed",
           \A t \in Threads : pc'[t] = "publish" <=> pc[t] = "publish"
    PROVE  BlocksOK'
  BY DEF BlocksOK

LEMMA TakeStep ==
    ASSUME Inv, NEW t \in Threads, Take(t)
    PROVE  Inv'
<1> USE SlabBounds DEF slab_vars, object_vars
<1>1. /\ pc[t] = "idle" /\ lock = NoThread /\ lock' = t /\ state = "open"
      /\ \A u \in Threads : pc'[u] = IF u = t THEN "take" ELSE pc[u]
      /\ pc' \in [Threads -> {"idle", "take", "publish", "link"}]
      /\ UNCHANGED <<slab_vars, generation, slot, object_vars, retires, state>>
  BY DEF Take, Inv, TypeOK
<1>2. TypeOK'
  BY <1>1 DEF Inv, TypeOK
<1>3. LockOK'
  BY <1>1 DEF Inv, LockOK
<1>4. SlotsOK' /\ HandlesOK' /\ BlocksOK'
  BY <1>1, SlotsFrame, HandlesFrame, BlocksFrame DEF Inv
<1> QED
  BY <1>2, <1>3, <1>4 DEF Inv

LEMMA TakeDiesStep ==
    ASSUME Inv, NEW t \in Threads, TakeDies(t)
    PROVE  Inv'
<1> USE SlabBounds DEF slab_vars, object_vars
<1>1. /\ pc[t] = "take" /\ state' = "died"
      /\ UNCHANGED <<slab_vars, generation, lock, pc, slot, object_vars, retires>>
  BY DEF TakeDies
<1>2. state # "closed"
  BY <1>1 DEF Inv, LockOK
<1>3. TypeOK'
  BY <1>1 DEF Inv, TypeOK
<1>4. LockOK'
  BY <1>1 DEF Inv, LockOK
<1>5. SlotsOK' /\ HandlesOK' /\ BlocksOK'
  BY <1>1, <1>2, SlotsFrame, HandlesFrame, BlocksFrame DEF Inv
<1> QED
  BY <1>3, <1>4, <1>5 DEF Inv

(* The head of a free list that is not empty is a waiting slot, and the    *)
(* rest of it is the free list that remains.                               *)
LEMMA TakeFreeStep ==
    ASSUME Inv, NEW t \in Threads, TakeFree(t)
    PROVE  Inv'
<1> USE SlabBounds DEF slab_vars, object_vars
<1>1. /\ pc[t] = "take" /\ free_head # None /\ free_head' = next_free[free_head]
      /\ generation' = generation /\ lock' = NoThread
      /\ \A u \in Threads : pc'[u] = IF u = t THEN "idle" ELSE pc[u]
      /\ pc' \in [Threads -> {"idle", "take", "publish", "link"}]
      /\ UNCHANGED <<size, blocks, block_cnt, next_free, slot, retires, state>>
  BY DEF TakeFree, NextFree, Reused, Inv, TypeOK
<1>2. PICK i \in Indices : i = free_head
  BY <1>1, CapacityFacts DEF Inv, TypeOK
<1>3. /\ live' = live \cup {i} /\ tenancy' = [tenancy EXCEPT ![i] = tenancy[i] + 1]
      /\ handles' = handles \cup {<<i, generation[i], tenancy[i] + 1>>}
  BY <1>1, <1>2 DEF TakeFree, HandOut
<1>4. lock = t /\ state # "closed" /\ \A u \in Threads : pc[u] # "publish"
  BY <1>1 DEF Inv, LockOK
<1>5. TypeOK'
  <2>1. tenancy' \in [Indices -> Nat] /\ handles' \subseteq Indices \X Nat \X Nat
        /\ live' \in SUBSET Indices
    BY <1>2, <1>3 DEF Inv, TypeOK
  <2>2. free_head' \in 0..None
    BY <1>1, <1>2 DEF Inv, TypeOK
  <2> QED
    BY <1>1, <2>1, <2>2 DEF Inv, TypeOK
<1>6. LockOK'
  BY <1>1, <1>4 DEF Inv, LockOK
<1>7. BlocksOK'
  BY <1>1, <1>4, BlocksFrame DEF Inv
<1>8a. PICK n \in Nat : \E s : ListsWaiting(s, n)
  BY <1>4 DEF Inv, SlotsOK
<1>8. PICK s : ListsWaiting(s, n)
  BY <1>8a
<1>9. n > 0 /\ s[1] = i /\ 1 \in 1..n
  BY <1>1, <1>2, <1>8 DEF ListsWaiting, IsFreeList
<1>10. i \in Waiting /\ i \notin live /\ i \notin Linking /\ i < size
  BY <1>8, <1>9 DEF ListsWaiting, Waiting, Inv, TypeOK
<1>11. Linking' = Linking /\ Waiting' = Waiting \ {i}
  <2>1. Linking' = Linking
    BY <1>1 DEF Linking
  <2> QED
    BY <1>1, <1>3, <2>1 DEF Waiting
<1>12. SlotsOK'
  <2> DEFINE r == [p \in 1..(n - 1) |-> s[p + 1]]
  <2>1. \A p \in 1..(n - 1) : p + 1 \in 1..n /\ p + 1 # 1 /\ r[p] = s[p + 1]
    OBVIOUS
  <2>2. n - 1 \in Nat
    BY <1>9
  <2>3. r \in [1..(n - 1) -> Waiting']
    <3>1. ASSUME NEW p \in 1..(n - 1) PROVE s[p + 1] \in Waiting \ {i}
      BY <1>8, <1>9, <2>1 DEF ListsWaiting
    <3> QED
      BY <1>11, <3>1
  <2>4. ASSUME NEW j \in Waiting' PROVE \E p \in 1..(n - 1) : r[p] = j
    <3>1. PICK q \in 1..n : s[q] = j
      BY <1>8, <1>11 DEF ListsWaiting
    <3>2. q # 1
      BY <1>9, <1>11, <3>1
    <3>3. q - 1 \in 1..(n - 1) /\ (q - 1) + 1 = q
      BY <3>1, <3>2
    <3> QED
      BY <2>1, <3>1, <3>3
  <2>5. ASSUME NEW p \in 1..(n - 1), NEW q \in 1..(n - 1), r[p] = r[q] PROVE p = q
    <3>1. p + 1 = q + 1
      BY <1>8, <2>1, <2>5 DEF ListsWaiting
    <3> QED
      BY <3>1
  <2>6. free_head' = IF n - 1 = 0 THEN None ELSE r[1]
    <3>1. next_free[s[1]] = IF 1 = n THEN None ELSE s[1 + 1]
      BY <1>8, <1>9 DEF ListsWaiting, IsFreeList
    <3>2. free_head' = IF 1 = n THEN None ELSE s[1 + 1]
      BY <1>1, <1>2, <1>9, <3>1
    <3>3. CASE n = 1
      BY <3>2, <3>3
    <3>4. CASE n # 1
      <4>1. 1 \in 1..(n - 1)
        BY <1>9, <3>4
      <4> QED
        BY <2>1, <3>2, <3>4, <4>1
    <3> QED
      BY <3>3, <3>4
  <2>7. ASSUME NEW p \in 1..(n - 1)
        PROVE  next_free'[r[p]] = IF p = n - 1 THEN None ELSE r[p + 1]
    <3>1. p + 1 \in 1..n /\ r[p] = s[p + 1] /\ (p = n - 1 <=> p + 1 = n)
      BY <2>1
    <3>2. next_free[s[p + 1]] = IF p + 1 = n THEN None ELSE s[(p + 1) + 1]
      BY <1>8, <3>1 DEF ListsWaiting, IsFreeList
    <3>3. CASE p = n - 1
      BY <1>1, <3>1, <3>2, <3>3
    <3>4. CASE p # n - 1
      <4>1. p + 1 \in 1..(n - 1)
        BY <3>4
      <4>2. r[p + 1] = s[(p + 1) + 1]
        BY <2>1, <4>1
      <4> QED
        BY <1>1, <3>1, <3>2, <3>4, <4>2
    <3> QED
      BY <3>3, <3>4
  <2> HIDE DEF r
  <2>8. ListsWaiting(r, n - 1)'
    BY <2>3, <2>4, <2>5, <2>6, <2>7 DEF ListsWaiting, IsFreeList
  <2>9. \A j \in live' : j < size'
    BY <1>1, <1>3, <1>4, <1>10 DEF Inv, SlotsOK
  <2>10. \A u \in Threads : pc'[u] = "link" => slot'[u] < size' /\ slot'[u] \notin live'
    BY <1>1, <1>3, <1>4, <1>10, InLinking DEF Inv, SlotsOK
  <2>11. \A u, v \in Threads : pc'[u] = "link" /\ pc'[v] = "link" /\ slot'[u] = slot'[v] => u = v
    BY <1>1, <1>4 DEF Inv, SlotsOK
  <2> QED
    BY <2>2, <2>8, <2>9, <2>10, <2>11 DEF SlotsOK
<1>13. HandlesOK'
  <2>1. ASSUME NEW h \in handles'
        PROVE  /\ h[2] <= generation'[h[1]] /\ h[1] < size'
               /\ generation'[h[1]] = h[2] => h[1] \in live' /\ tenancy'[h[1]] = h[3]
    <3>1. CASE h \in handles
      <4>1. /\ h[1] \in Indices /\ h[2] <= generation[h[1]] /\ h[1] < size
            /\ generation[h[1]] = h[2] => h[1] \in live /\ tenancy[h[1]] = h[3]
        BY <1>4, <3>1 DEF Inv, TypeOK, HandlesOK, HandlesNameTheirObject
      <4>2. h[1] \in live => tenancy'[h[1]] = tenancy[h[1]]
        BY <1>3, <1>10, <4>1 DEF Inv, TypeOK
      <4> QED
        BY <1>1, <1>3, <4>1, <4>2
    <3>2. CASE h = <<i, generation[i], tenancy[i] + 1>>
      <4>1. generation[i] \in Nat /\ tenancy'[i] = tenancy[i] + 1
        BY <1>3 DEF Inv, TypeOK
      <4> QED
        BY <1>1, <1>3, <1>10, <3>2, <4>1
    <3> QED
      BY <1>3, <2>1, <3>1, <3>2
  <2> QED
    BY <2>1 DEF HandlesOK, HandlesNameTheirObject
<1> QED
  BY <1>5, <1>6, <1>7, <1>12, <1>13 DEF Inv

(* A thread about to publish has the block of its slot: the slot is the    *)
(* first of a new block exactly when the blocks so far are full.           *)
LEMMA TakeFreshStep ==
    ASSUME Inv, NEW t \in Threads, TakeFresh(t)
    PROVE  Inv'
<1> USE SlabBounds DEF slab_vars, object_vars
<1>1. /\ pc[t] = "take" /\ free_head = None /\ size # Capacity /\ state = "open"
      /\ slot' = [slot EXCEPT ![t] = size]
      /\ \A u \in Threads : pc'[u] = IF u = t THEN "publish" ELSE pc[u]
      /\ pc' \in [Threads -> {"idle", "take", "publish", "link"}]
      /\ UNCHANGED <<size, free_head, next_free, generation, lock, object_vars,
                     retires, state>>
  BY DEF TakeFresh, OutOfIndices, Inv, TypeOK
<1>2. size \in Nat /\ size < Capacity /\ size \in Indices
  BY <1>1, CapacityFacts DEF Inv, TypeOK
<1>3. \A u \in Threads : slot'[u] = IF u = t THEN size ELSE slot[u]
  BY <1>1 DEF Inv, TypeOK
<1>4. lock = t /\ \A u \in Threads : pc[u] # "publish"
  BY <1>1 DEF Inv, LockOK
<1>5. LockOK'
  BY <1>1, <1>2, <1>3 DEF Inv, LockOK
<1>6. SlotsOK'
  BY <1>1, <1>3, SlotsFrame DEF Inv
<1>7. HandlesOK'
  BY <1>1, HandlesFrame DEF Inv
<1>8. PICK c \in 0..NumBlocks : c = block_cnt
  BY DEF Inv, TypeOK
<1>9. c \in Nat /\ NumBlocks \in 0..(FullBlocks + 1) /\ c <= FullBlocks + 1
  BY <1>8, FirstBlockFacts, LastBlockFacts
<1>10. /\ size <= End(c) /\ (c > 0 => First(c - 1) < size)
       /\ \A b \in 0..(NumBlocks - 1) : blocks[b] = IF b < c THEN LenOf(b) ELSE 0
  BY <1>1, <1>4, <1>8 DEF Inv, BlocksOK
<1>11. /\ blocks' \in [0..(NumBlocks - 1) -> 0..Capacity] /\ block_cnt' \in 0..NumBlocks
       /\ BlocksOK'
  <2>1. CASE size = BlockFirst(c)
    <3>1. c <= FullBlocks
      <4>1. SUFFICES ASSUME c = FullBlocks + 1 PROVE FALSE
        BY <1>9, FirstBlockFacts
      <4>2. BlockFirst(c) = First(FullBlocks) /\ First(FullBlocks) < size
        BY <1>10, <4>1, FirstBlockFacts, LastBlockFacts
      <4> QED
        BY <1>2, <2>1, <4>2
    <3>2. c \in 0..FullBlocks /\ BlockFirst(c) = First(c) /\ End(c) = First(c)
      BY <1>9, <3>1, BlockFacts, LastBlockFacts
    <3>3. c < NumBlocks /\ c \in 0..(NumBlocks - 1)
      <4>1. c # NumBlocks
        BY <1>2, <2>1, <3>2, LastBlockFacts
      <4> QED
        BY <1>8, <1>9, <4>1
    <3>4. /\ LenOf(c) \in 0..Capacity /\ End(c + 1) = First(c) + LenOf(c)
          /\ c < FullBlocks => LenOf(c) > 0
      BY <3>2, BlockFacts
    <3>5. blocks' = [blocks EXCEPT ![c] = LenOf(c)] /\ block_cnt' = c + 1
      BY <1>8, <2>1 DEF TakeFresh, NeedsBlock, LenOf
    <3>6. size < End(c + 1)
      <4>1. CASE c < FullBlocks
        BY <1>2, <2>1, <3>2, <3>4, <4>1, CapacityFacts
      <4>2. CASE c = FullBlocks
        BY <1>2, <4>2 DEF End
      <4> QED
        BY <3>2, <4>1, <4>2, FirstBlockFacts
    <3>7. blocks' \in [0..(NumBlocks - 1) -> 0..Capacity] /\ block_cnt' \in 0..NumBlocks
      BY <1>9, <3>3, <3>4, <3>5 DEF Inv, TypeOK
    <3>8. \A b \in 0..(NumBlocks - 1) : blocks'[b] = IF b < block_cnt' THEN LenOf(b) ELSE 0
      BY <1>9, <1>10, <3>3, <3>5 DEF Inv, TypeOK
    <3>9. (c + 1) - 1 = c /\ First(c) <= size
      BY <1>2, <1>9, <2>1, <3>2
    <3>10. size <= End(c + 1)
      <4>1. End(c + 1) \in Int
        BY <3>2, <3>4, BlockFacts, CapacityFacts
      <4> QED
        BY <1>2, <3>6, <4>1
    <3> QED
      BY <1>1, <1>4, <3>5, <3>6, <3>7, <3>8, <3>9, <3>10 DEF BlocksOK
  <2>2. CASE size # BlockFirst(c)
    <3>1. blocks' = blocks /\ block_cnt' = c
      BY <1>8, <2>2 DEF TakeFresh, NeedsBlock
    <3>2. size < End(c)
      <4>1. CASE c = FullBlocks + 1
        BY <1>2, <4>1 DEF End
      <4>2. CASE c # FullBlocks + 1
        <5>1. c \in 0..FullBlocks
          BY <1>9, <4>2, FirstBlockFacts
        <5>2. End(c) = BlockFirst(c) /\ End(c) \in Nat
          BY <5>1, BlockFacts, LastBlockFacts
        <5> QED
          BY <1>2, <1>10, <2>2, <5>2
      <4> QED
        BY <4>1, <4>2
    <3> QED
      BY <1>1, <1>4, <1>8, <1>10, <3>1, <3>2 DEF Inv, TypeOK, BlocksOK
  <2> QED
    BY <2>1, <2>2
<1>12. TypeOK'
  <2>1. slot' \in [Threads -> Indices]
    BY <1>1, <1>2 DEF Inv, TypeOK
  <2> QED
    BY <1>1, <1>11, <2>1 DEF Inv, TypeOK
<1> QED
  BY <1>5, <1>6, <1>7, <1>11, <1>12 DEF Inv

LEMMA PublishStep ==
    ASSUME Inv, NEW t \in Threads, Publish(t)
    PROVE  Inv'
<1> USE SlabBounds DEF slab_vars, object_vars
<1>1. /\ pc[t] = "publish" /\ lock' = NoThread
      /\ slot' = [slot EXCEPT ![t] = 0]
      /\ \A u \in Threads : pc'[u] = IF u = t THEN "idle" ELSE pc[u]
      /\ pc' \in [Threads -> {"idle", "take", "publish", "link"}]
      /\ UNCHANGED <<blocks, block_cnt, free_head, next_free, retires, state>>
  BY DEF Publish, Inv, TypeOK
<1>2. lock = t /\ state # "closed" /\ \A u \in Threads : pc[u] = "publish" => u = t
  BY <1>1 DEF Inv, LockOK
<1>3. slot[t] = size /\ size < Capacity /\ size \in Nat /\ size \in Indices /\ 0 \in Indices
  BY <1>1, CapacityFacts DEF Inv, LockOK, TypeOK
<1>4. /\ size' = size + 1 /\ generation' = [generation EXCEPT ![size] = 1]
      /\ live' = live \cup {size} /\ tenancy' = [tenancy EXCEPT ![size] = tenancy[size] + 1]
      /\ handles' = handles \cup {<<size, 1, tenancy[size] + 1>>}
  BY <1>3 DEF Publish, HandOut
<1>5. TypeOK'
  <2>1. slot' \in [Threads -> Indices]
    BY <1>1, <1>3 DEF Inv, TypeOK
  <2>3. generation' \in [Indices -> Nat] /\ tenancy' \in [Indices -> Nat]
    <3>1. generation' \in [Indices -> Nat]
      BY <1>4 DEF Inv, TypeOK
    <3>2. tenancy[size] + 1 \in Nat
      BY <1>3 DEF Inv, TypeOK
    <3>3. tenancy' \in [Indices -> Nat]
      BY <1>4, <3>2 DEF Inv, TypeOK
    <3> QED
      BY <3>1, <3>3
  <2>4. live' \in SUBSET Indices
    BY <1>3, <1>4 DEF Inv, TypeOK
  <2>5. size' \in 0..Capacity
    BY <1>3, <1>4, CapacityFacts
  <2>2. handles' \subseteq Indices \X Nat \X Nat
    <3>1. tenancy[size] + 1 \in Nat
      BY <1>3 DEF Inv, TypeOK
    <3> QED
      BY <1>3, <1>4, <3>1 DEF Inv, TypeOK
  <2> QED
    BY <1>1, <2>1, <2>2, <2>3, <2>4, <2>5 DEF Inv, TypeOK
<1>6. LockOK'
  BY <1>1, <1>2 DEF Inv, LockOK
<1>7. BlocksOK'
  <2>1. PICK c \in 0..NumBlocks : c = block_cnt
    BY DEF Inv, TypeOK
  <2>2. /\ size < End(c) /\ (c > 0 => First(c - 1) <= size)
        /\ \A b \in 0..(NumBlocks - 1) : blocks[b] = IF b < c THEN LenOf(b) ELSE 0
    BY <1>1, <1>2, <2>1 DEF Inv, BlocksOK
  <2>3. c \in 0..(FullBlocks + 1) /\ c \in Nat
    BY <2>1, FirstBlockFacts, LastBlockFacts
  <2>4. End(c) \in Int
    <3>1. CASE c = FullBlocks + 1
      BY <3>1, CapacityFacts DEF End
    <3>2. CASE c # FullBlocks + 1
      <4>1. c \in 0..FullBlocks
        BY <2>3, <3>2, FirstBlockFacts
      <4> QED
        BY <4>1, BlockFacts, LastBlockFacts
    <3> QED
      BY <3>1, <3>2
  <2>5. c > 0 => First(c - 1) \in Int
    <3>1. SUFFICES ASSUME c > 0 PROVE First(c - 1) \in Int
      OBVIOUS
    <3>2. c - 1 \in 0..FullBlocks
      BY <2>3, <3>1, FirstBlockFacts
    <3> QED
      BY <3>2, BlockFacts
  <2>6. size' <= End(c) /\ (c > 0 => First(c - 1) <= size' /\ First(c - 1) < size')
    BY <1>3, <1>4, <2>2, <2>4, <2>5
  <2> QED
    BY <1>1, <1>2, <2>1, <2>2, <2>6 DEF BlocksOK
<1>8. /\ \A i \in live : i < size
      /\ \A u \in Threads : pc[u] = "link" => slot[u] < size /\ slot[u] \notin live
  BY <1>2 DEF Inv, SlotsOK
<1>9. size \notin live /\ size \notin Linking /\ Linking' = Linking
  <2>1. size \notin live /\ \A u \in Threads : pc[u] = "link" => slot[u] # size
    BY <1>3, <1>8
  <2>2. Linking' = Linking
    BY <1>1 DEF Linking, Inv, TypeOK
  <2> QED
    BY <2>1, <2>2, InLinking
<1>10. Waiting' = Waiting
  <2>1. 0..(size' - 1) = 0..(size - 1) \cup {size}
    BY <1>3, <1>4
  <2>2. size \notin Waiting
    BY <1>3 DEF Waiting
  <2> QED
    BY <1>4, <1>9, <2>1, <2>2 DEF Waiting
<1>11. SlotsOK'
  <2>1. \A s, n : ListsWaiting(s, n)' <=> ListsWaiting(s, n)
    BY <1>1, <1>10 DEF ListsWaiting, IsFreeList
  <2>2. \A i \in live' : i < size'
    <3>1. \A i \in live : i \in Nat
      BY CapacityFacts DEF Inv, TypeOK
    <3> QED
      BY <1>3, <1>4, <1>8, <3>1
  <2>3. \A u \in Threads : u # t => slot'[u] = slot[u]
    BY <1>1 DEF Inv, TypeOK
  <2>4. \A u \in Threads : slot[u] \in Nat
    BY CapacityFacts DEF Inv, TypeOK
  <2>5. \A u \in Threads : pc'[u] = "link" => slot'[u] < size' /\ slot'[u] \notin live'
    BY <1>1, <1>3, <1>4, <1>8, <2>3, <2>4
  <2>6. \A u, v \in Threads : pc'[u] = "link" /\ pc'[v] = "link" /\ slot'[u] = slot'[v] => u = v
    BY <1>1, <1>2, <2>3 DEF Inv, SlotsOK
  <2> QED
    BY <1>1, <1>2, <2>1, <2>2, <2>5, <2>6 DEF Inv, SlotsOK
<1>12. HandlesOK'
  <2>1. ASSUME NEW h \in handles'
        PROVE  /\ h[2] <= generation'[h[1]] /\ h[1] < size'
               /\ generation'[h[1]] = h[2] => h[1] \in live' /\ tenancy'[h[1]] = h[3]
    <3>1. CASE h \in handles
      <4>1. /\ h[1] \in Indices /\ h[2] <= generation[h[1]] /\ h[1] < size
            /\ generation[h[1]] = h[2] => h[1] \in live /\ tenancy[h[1]] = h[3]
        BY <1>2, <3>1 DEF Inv, TypeOK, HandlesOK, HandlesNameTheirObject
      <4>2. h[1] \in Nat /\ h[1] # size
        BY <1>3, <4>1, CapacityFacts
      <4>3. tenancy'[h[1]] = tenancy[h[1]] /\ generation'[h[1]] = generation[h[1]]
        BY <1>4, <4>1, <4>2 DEF Inv, TypeOK
      <4> QED
        BY <1>3, <1>4, <4>1, <4>2, <4>3
    <3>2. CASE h = <<size, 1, tenancy[size] + 1>>
      <4>1. generation'[size] = 1 /\ tenancy'[size] = tenancy[size] + 1
        BY <1>3, <1>4 DEF Inv, TypeOK
      <4> QED
        BY <1>3, <1>4, <3>2, <4>1
    <3> QED
      BY <1>4, <2>1, <3>1, <3>2
  <2> QED
    BY <2>1 DEF HandlesOK, HandlesNameTheirObject
<1> QED
  BY <1>5, <1>6, <1>7, <1>11, <1>12 DEF Inv

(* A bumped generation makes every handle of the slot stale.               *)
LEMMA RetireStep ==
    ASSUME Inv, NEW i \in live, Retire(i)
    PROVE  Inv'
<1> USE SlabBounds DEF slab_vars, object_vars
<1>1. /\ state = "open" /\ retires' = retires + 1 /\ retires < MaxRetires
      /\ generation' = [generation EXCEPT ![i] = generation[i] + 1]
      /\ handles' = handles \cup {<<i, generation[i] + 1, tenancy[i]>>}
      /\ UNCHANGED <<slab_vars, lock, pc, slot, live, tenancy, state>>
  BY DEF Retire
<1>2. i \in Indices /\ generation[i] \in Nat /\ tenancy[i] \in Nat
  BY DEF Inv, TypeOK
<1>3. TypeOK'
  <2>1. generation' \in [Indices -> Nat] /\ handles' \subseteq Indices \X Nat \X Nat
        /\ retires' \in 0..MaxRetires
    BY <1>1, <1>2 DEF Inv, TypeOK
  <2> QED
    BY <1>1, <2>1 DEF Inv, TypeOK
<1>4. LockOK' /\ SlotsOK' /\ BlocksOK'
  BY <1>1, SlotsFrame, BlocksFrame DEF Inv, LockOK
<1>5. HandlesOK'
  <2>1. ASSUME NEW h \in handles'
        PROVE  /\ h[2] <= generation'[h[1]] /\ h[1] < size'
               /\ generation'[h[1]] = h[2] => h[1] \in live' /\ tenancy'[h[1]] = h[3]
    <3>1. CASE h \in handles
      <4>1. /\ h[1] \in Indices /\ h[2] \in Nat /\ h[2] <= generation[h[1]] /\ h[1] < size
            /\ generation[h[1]] = h[2] => h[1] \in live /\ tenancy[h[1]] = h[3]
        BY <1>1, <3>1 DEF Inv, TypeOK, HandlesOK, HandlesNameTheirObject
      <4>2. generation'[h[1]] = IF h[1] = i THEN generation[i] + 1 ELSE generation[h[1]]
        BY <1>1, <4>1 DEF Inv, TypeOK
      <4> QED
        BY <1>1, <1>2, <4>1, <4>2
    <3>2. CASE h = <<i, generation[i] + 1, tenancy[i]>>
      <4>1. generation'[i] = generation[i] + 1 /\ i < size
        BY <1>1, <1>2 DEF Inv, TypeOK, SlotsOK
      <4> QED
        BY <1>1, <1>2, <3>2, <4>1
    <3> QED
      BY <1>1, <2>1, <3>1, <3>2
  <2> QED
    BY <2>1 DEF HandlesOK, HandlesNameTheirObject
<1> QED
  BY <1>3, <1>4, <1>5 DEF Inv

LEMMA GiveStep ==
    ASSUME Inv, NEW t \in Threads, NEW i \in live, Give(t, i)
    PROVE  Inv'
<1> USE SlabBounds DEF slab_vars, object_vars
<1>1. /\ state = "open" /\ pc[t] = "idle" /\ retires' = retires + 1 /\ retires < MaxRetires
      /\ live' = live \ {i}
      /\ generation' = [generation EXCEPT ![i] = generation[i] + 1]
      /\ slot' = [slot EXCEPT ![t] = i]
      /\ \A u \in Threads : pc'[u] = IF u = t THEN "link" ELSE pc[u]
      /\ pc' \in [Threads -> {"idle", "take", "publish", "link"}]
      /\ UNCHANGED <<slab_vars, lock, tenancy, handles, state>>
  BY DEF Give, Inv, TypeOK
<1>2. i \in Indices /\ generation[i] \in Nat
  BY DEF Inv, TypeOK
<1>3. TypeOK'
  <2>1. generation' \in [Indices -> Nat]
    BY <1>1, <1>2 DEF Inv, TypeOK
  <2>2. slot' \in [Threads -> Indices]
    BY <1>1, <1>2 DEF Inv, TypeOK
  <2>3. live' \in SUBSET Indices /\ retires' \in 0..MaxRetires
    BY <1>1 DEF Inv, TypeOK
  <2> QED
    BY <1>1, <2>1, <2>2, <2>3 DEF Inv, TypeOK
<1>4. \A u \in Threads : slot'[u] = IF u = t THEN i ELSE slot[u]
  BY <1>1 DEF Inv, TypeOK
<1>5. LockOK'
  BY <1>1, <1>4 DEF Inv, LockOK
<1>6. BlocksOK'
  BY <1>1, BlocksFrame DEF Inv
<1>7. /\ \A j \in live : j < size
      /\ \A u \in Threads : pc[u] = "link" => slot[u] < size /\ slot[u] \notin live
      /\ \A u, v \in Threads : pc[u] = "link" /\ pc[v] = "link" /\ slot[u] = slot[v] => u = v
  BY <1>1 DEF Inv, SlotsOK
<1>8. Waiting' = Waiting
  <2>1. \A j : j \in Linking' <=> \E u \in Threads : pc'[u] = "link" /\ slot'[u] = j
    BY DEF Linking
  <2>2. \A j : j \in Linking' <=> j \in Linking \/ j = i
    BY <1>1, <1>4, <2>1, InLinking
  <2> QED
    BY <1>1, <2>2 DEF Waiting
<1>9. SlotsOK'
  <2>1. \A s, n : ListsWaiting(s, n)' <=> ListsWaiting(s, n)
    BY <1>1, <1>8 DEF ListsWaiting, IsFreeList
  <2>2. /\ \A j \in live' : j < size'
        /\ \A u \in Threads : pc'[u] = "link" => slot'[u] < size' /\ slot'[u] \notin live'
    BY <1>1, <1>4, <1>7
  <2>3. \A u, v \in Threads : pc'[u] = "link" /\ pc'[v] = "link" /\ slot'[u] = slot'[v] => u = v
    BY <1>1, <1>4, <1>7
  <2>4. \E n \in Nat : \E s : ListsWaiting(s, n)
    BY <1>1 DEF Inv, SlotsOK
  <2> QED
    BY <2>1, <2>2, <2>3, <2>4 DEF SlotsOK
<1>10. HandlesOK'
  <2>1. ASSUME NEW h \in handles
        PROVE  /\ h[2] <= generation'[h[1]] /\ h[1] < size'
               /\ generation'[h[1]] = h[2] => h[1] \in live' /\ tenancy'[h[1]] = h[3]
    <3>1. /\ h[1] \in Indices /\ h[2] \in Nat /\ h[2] <= generation[h[1]] /\ h[1] < size
          /\ generation[h[1]] = h[2] => h[1] \in live /\ tenancy[h[1]] = h[3]
      BY <1>1 DEF Inv, TypeOK, HandlesOK, HandlesNameTheirObject
    <3>2. generation'[h[1]] = IF h[1] = i THEN generation[i] + 1 ELSE generation[h[1]]
      BY <1>1, <3>1 DEF Inv, TypeOK
    <3> QED
      BY <1>1, <1>2, <3>1, <3>2
  <2> QED
    BY <1>1, <2>1 DEF HandlesOK, HandlesNameTheirObject
<1> QED
  BY <1>3, <1>5, <1>6, <1>9, <1>10 DEF Inv

(* The slot linked becomes the head of the free list.                      *)
LEMMA GiveLinksStep ==
    ASSUME Inv, NEW t \in Threads, GiveLinks(t)
    PROVE  Inv'
<1> USE SlabBounds DEF slab_vars, object_vars
<1>1. PICK i \in Indices : i = slot[t]
  BY DEF Inv, TypeOK
<1>2. /\ pc[t] = "link" /\ lock = NoThread /\ free_head' = i
      /\ next_free' = [next_free EXCEPT ![i] = free_head]
      /\ slot' = [slot EXCEPT ![t] = 0]
      /\ \A u \in Threads : pc'[u] = IF u = t THEN "idle" ELSE pc[u]
      /\ pc' \in [Threads -> {"idle", "take", "publish", "link"}]
      /\ UNCHANGED <<size, blocks, block_cnt, generation, lock, object_vars,
                     retires, state>>
  BY <1>1 DEF GiveLinks, Inv, TypeOK
<1>3. \A j \in Indices : next_free'[j] = IF j = i THEN free_head ELSE next_free[j]
  BY <1>2 DEF Inv, TypeOK
<1>4. 0 \in Indices /\ i \in 0..None /\ i # None
  BY CapacityFacts
<1>5. TypeOK'
  <2>1. next_free' \in [Indices -> 0..None] /\ slot' \in [Threads -> Indices]
        /\ free_head' \in 0..None
    BY <1>2, <1>4 DEF Inv, TypeOK
  <2> QED
    BY <1>2, <2>1 DEF Inv, TypeOK
<1>6. LockOK'
  BY <1>2 DEF Inv, LockOK
<1>7. BlocksOK' /\ HandlesOK'
  BY <1>2, BlocksFrame, HandlesFrame DEF Inv
<1>8. state # "closed"
  BY <1>2 DEF Inv, LockOK
<1>9. /\ \A j \in live : j < size
      /\ \A u \in Threads : pc[u] = "link" => slot[u] < size /\ slot[u] \notin live
      /\ \A u, v \in Threads : pc[u] = "link" /\ pc[v] = "link" /\ slot[u] = slot[v] => u = v
  BY <1>8 DEF Inv, SlotsOK
<1>10. \A u \in Threads : u # t => slot'[u] = slot[u]
  BY <1>2 DEF Inv, TypeOK
<1>11. i \notin Waiting /\ Waiting' = Waiting \cup {i}
  <2>1. \A j : j \in Linking' <=> \E u \in Threads : pc'[u] = "link" /\ slot'[u] = j
    BY DEF Linking
  <2>2. \A j : j \in Linking' <=> j \in Linking /\ j # i
    BY <1>1, <1>2, <1>9, <1>10, <2>1, InLinking
  <2>3. i \in Linking /\ i \notin live /\ i \in 0..(size - 1)
    <3>1. i \in Linking /\ i \notin live /\ i < size
      BY <1>1, <1>2, <1>9, InLinking
    <3>2. i \in Nat /\ size \in Nat
      BY CapacityFacts DEF Inv, TypeOK
    <3> QED
      BY <3>1, <3>2
  <2> QED
    BY <1>2, <2>2, <2>3 DEF Waiting
<1>12a. PICK n \in Nat : \E s : ListsWaiting(s, n)
  BY <1>8 DEF Inv, SlotsOK
<1>12. PICK s : ListsWaiting(s, n)
  BY <1>12a
<1>13. SlotsOK'
  <2> DEFINE r == [p \in 1..(n + 1) |-> IF p = 1 THEN i ELSE s[p - 1]]
  <2>1. /\ r[1] = i /\ 1 \in 1..(n + 1)
        /\ \A p \in 1..(n + 1) : p # 1 => p - 1 \in 1..n /\ r[p] = s[p - 1]
        /\ \A q \in 1..n : q + 1 \in 1..(n + 1) /\ r[q + 1] = s[q]
    OBVIOUS
  <2>2. \A q \in 1..n : s[q] \in Waiting /\ s[q] # i /\ s[q] \in Indices
    <3>1. \A q \in 1..n : s[q] \in Waiting /\ s[q] # i
      BY <1>11, <1>12 DEF ListsWaiting
    <3>2. Waiting \subseteq 0..(size - 1) /\ size \in 0..Capacity
      BY DEF Waiting, Inv, TypeOK
    <3>3. Waiting \subseteq Indices
      BY <3>2, CapacityFacts
    <3> QED
      BY <3>1, <3>3
  <2>3. r \in [1..(n + 1) -> Waiting']
    BY <1>11, <2>1, <2>2
  <2> HIDE DEF r
  <2>4. ASSUME NEW j \in Waiting' PROVE \E p \in 1..(n + 1) : r[p] = j
    <3>1. CASE j = i
      BY <2>1, <3>1
    <3>2. CASE j # i
      <4>1. PICK q \in 1..n : s[q] = j
        BY <1>11, <1>12, <3>2 DEF ListsWaiting
      <4> QED
        BY <2>1, <4>1
    <3> QED
      BY <3>1, <3>2
  <2>5. ASSUME NEW p \in 1..(n + 1), NEW q \in 1..(n + 1), r[p] = r[q] PROVE p = q
    <3>1. CASE p = 1 \/ q = 1
      BY <2>1, <2>2, <2>5, <3>1
    <3>2. CASE p # 1 /\ q # 1
      <4>1. p - 1 = q - 1
        BY <1>12, <2>1, <2>5, <3>2 DEF ListsWaiting
      <4> QED
        BY <4>1
    <3> QED
      BY <3>1, <3>2
  <2>6. free_head = IF n = 0 THEN None ELSE s[1]
    BY <1>12 DEF ListsWaiting, IsFreeList
  <2>7. ASSUME NEW p \in 1..(n + 1)
        PROVE  next_free'[r[p]] = IF p = n + 1 THEN None ELSE r[p + 1]
    <3>1. CASE p = 1
      <4>1. next_free'[r[p]] = free_head
        BY <1>3, <2>1, <3>1
      <4>2. CASE n = 0
        BY <2>6, <3>1, <4>1, <4>2
      <4>3. CASE n # 0
        <5>1. 1 \in 1..n
          BY <4>3
        <5>2. r[1 + 1] = s[1]
          BY <2>1, <5>1
        <5> QED
          BY <2>6, <3>1, <4>1, <4>3, <5>2
      <4> QED
        BY <4>2, <4>3
    <3>2. CASE p # 1
      <4>1. PICK q \in 1..n : q = p - 1
        BY <3>2
      <4>2. r[p] = s[q]
        BY <2>1, <3>2, <4>1
      <4>3. next_free[s[q]] = IF q = n THEN None ELSE s[q + 1]
        BY <1>12 DEF ListsWaiting, IsFreeList
      <4>4. next_free'[r[p]] = IF q = n THEN None ELSE s[q + 1]
        BY <1>3, <2>2, <4>2, <4>3
      <4>5. CASE q = n
        BY <4>1, <4>4, <4>5
      <4>6. CASE q # n
        <5>1. q + 1 \in 1..n /\ (q + 1) + 1 = p + 1 /\ p # n + 1
          BY <4>1, <4>6
        <5>2. r[p + 1] = s[q + 1]
          BY <2>1, <5>1
        <5> QED
          BY <4>4, <4>6, <5>1, <5>2
      <4> QED
        BY <4>5, <4>6
    <3> QED
      BY <3>1, <3>2
  <2>8. free_head' = IF n + 1 = 0 THEN None ELSE r[1]
    BY <1>2, <2>1
  <2>9. ListsWaiting(r, n + 1)'
    BY <2>3, <2>4, <2>5, <2>7, <2>8 DEF ListsWaiting, IsFreeList
  <2>10. \A j \in live' : j < size'
    BY <1>2, <1>9
  <2>11. \A u \in Threads : pc'[u] = "link" => slot'[u] < size' /\ slot'[u] \notin live'
    BY <1>2, <1>9, <1>10
  <2>12. \A u, v \in Threads : pc'[u] = "link" /\ pc'[v] = "link" /\ slot'[u] = slot'[v] => u = v
    BY <1>2, <1>9, <1>10
  <2>13. n + 1 \in Nat
    OBVIOUS
  <2> QED
    BY <2>9, <2>10, <2>11, <2>12, <2>13 DEF SlotsOK
<1> QED
  BY <1>5, <1>6, <1>7, <1>13 DEF Inv

LEMMA DeinitStep ==
    ASSUME Inv, Deinit
    PROVE  Inv'
<1> USE SlabBounds DEF slab_vars, object_vars
<1>1. /\ state' = "closed" /\ free_head' = None /\ size' = 0 /\ block_cnt' = 0
      /\ \A t \in Threads : pc[t] = "idle"
      /\ blocks' = [b \in DOMAIN blocks |-> IF b < block_cnt THEN 0 ELSE blocks[b]]
      /\ UNCHANGED <<next_free, generation, lock, pc, slot, object_vars, retires>>
  BY DEF Deinit
<1>2. TypeOK'
  <2>1. size' \in 0..Capacity /\ free_head' \in 0..None
    BY <1>1, CapacityFacts
  <2>2. blocks' \in [0..(NumBlocks - 1) -> 0..Capacity]
    BY <1>1, CapacityFacts DEF Inv, TypeOK
  <2>3. block_cnt' \in 0..NumBlocks
    BY <1>1, FirstBlockFacts, LastBlockFacts
  <2> QED
    BY <1>1, <2>1, <2>2, <2>3 DEF Inv, TypeOK
<1>3. LockOK'
  BY <1>1 DEF Inv, LockOK
<1>4. SlotsOK' /\ BlocksOK'
  BY <1>1 DEF SlotsOK, BlocksOK
<1>5. HandlesOK'
  BY <1>1 DEF Inv, HandlesOK, HandlesNameTheirObject
<1> QED
  BY <1>2, <1>3, <1>4, <1>5 DEF Inv

-----------------------------------------------------------------------------
LEMMA InitInv ==
    ASSUME Init
    PROVE  Inv
<1> USE SlabBounds DEF Init
<1>1. TypeOK
  <2>1. NumBlocks \in Nat
    BY FirstBlockFacts, LastBlockFacts
  <2>2. slot \in [Threads -> Indices] /\ 0 \in 0..Capacity
    <3>1. Capacity >= 1
      <4>1. FirstBlockLen >= 1 /\ 0 \in 0..FullBlocks /\ 0 < FullBlocks
        BY FirstBlockFacts
      <4>2. LenOf(0) \in 0..Capacity /\ LenOf(0) > 0
        BY <4>1, BlockFacts
      <4> QED
        BY <4>2, CapacityFacts
    <3> QED
      BY <3>1, CapacityFacts
  <2>3. blocks \in [0..(NumBlocks - 1) -> 0..Capacity] /\ block_cnt \in 0..NumBlocks
    BY <2>1, <2>2
  <2>4. free_head \in 0..None /\ next_free \in [Indices -> 0..None]
        /\ generation \in [Indices -> Nat] /\ tenancy \in [Indices -> Nat]
    BY CapacityFacts
  <2> QED
    BY <2>2, <2>3, <2>4 DEF TypeOK
<1>2. LockOK
  BY DEF LockOK
<1>3. SlotsOK
  <2>1. Waiting = {}
    BY DEF Waiting
  <2>2. ListsWaiting(<<>>, 0)
    BY <2>1 DEF ListsWaiting, IsFreeList
  <2> QED
    BY <2>2 DEF SlotsOK
<1>4. HandlesOK
  BY DEF HandlesOK, HandlesNameTheirObject
<1>5. BlocksOK
  BY LastBlockFacts DEF BlocksOK
<1> QED
  BY <1>1, <1>2, <1>3, <1>4, <1>5 DEF Inv

LEMMA StutterStep ==
    ASSUME Inv, UNCHANGED vars
    PROVE  Inv'
<1> USE DEF vars, slab_vars, object_vars
<1>1. TypeOK' /\ LockOK'
  BY DEF Inv, TypeOK, LockOK
<1>2. SlotsOK' /\ HandlesOK' /\ BlocksOK'
  BY SlotsFrame, HandlesFrame, BlocksFrame DEF Inv
<1> QED
  BY <1>1, <1>2 DEF Inv

LEMMA SlabInductive ==
    Spec => []Inv
<1>1. Init => Inv
  BY InitInv
<1>2. Inv /\ [Next]_vars => Inv'
  <2>1. SUFFICES ASSUME Inv, [Next]_vars PROVE Inv'
    OBVIOUS
  <2>2. CASE UNCHANGED vars
    BY <2>1, <2>2, StutterStep
  <2>3. ASSUME NEW t \in Threads,
               \/ Take(t) \/ TakeFree(t) \/ TakeDies(t)
               \/ TakeFresh(t) \/ Publish(t) \/ GiveLinks(t)
               \/ \E i \in live : Give(t, i)
        PROVE  Inv'
    BY <2>1, <2>3, TakeStep, TakeFreeStep, TakeDiesStep, TakeFreshStep,
       PublishStep, GiveLinksStep, GiveStep
  <2>4. CASE \E i \in live : Retire(i)
    BY <2>1, <2>4, RetireStep
  <2>5. CASE Deinit
    BY <2>1, <2>5, DeinitStep
  <2> QED
    BY <2>1, <2>2, <2>3, <2>4, <2>5 DEF Next
<1> QED
  BY <1>1, <1>2, PTL DEF Spec

LEMMA SlotsOKAccounts ==
    ASSUME Inv
    PROVE  SlotsAccountedFor
<1>1. SUFFICES ASSUME state # "closed" PROVE SlotsAccountedFor
  BY DEF SlotsAccountedFor
<1>2. /\ \A i \in live : i < size
      /\ \A t \in Threads : pc[t] = "link" => slot[t] < size /\ slot[t] \notin live
      /\ \A t, u \in Threads :
            pc[t] = "link" /\ pc[u] = "link" /\ slot[t] = slot[u] => t = u
  BY <1>1 DEF Inv, SlotsOK
<1>3. live \cup Linking \subseteq 0..(size - 1) /\ live \cap Linking = {}
  <2>1. \A i \in live \cup Linking : i \in Nat /\ i < size
    BY <1>2, InLinking, CapacityFacts DEF Inv, TypeOK
  <2>2. size \in Nat
    BY CapacityFacts DEF Inv, TypeOK
  <2>3. live \cap Linking = {}
    BY <1>2, InLinking
  <2> QED
    BY <2>1, <2>2, <2>3
<1>4a. PICK n \in Nat : \E s : ListsWaiting(s, n)
  BY <1>1 DEF Inv, SlotsOK
<1>4. PICK s : ListsWaiting(s, n)
  BY <1>4a
<1>5. Cardinality(Waiting) = n
  <2>1. s \in Bijection(1..n, Waiting)
    BY <1>4 DEF ListsWaiting, Bijection, Injection, Surjection, IsInjective
  <2> QED
    BY <2>1, FS_CountingElements DEF ExistsBijection
<1> QED
  BY <1>2, <1>3, <1>4, <1>5 DEF SlotsAccountedFor, ListsWaiting

(* ntt_slab_take and ntt_slab_give, with their lock and outside it: slots  *)
(* are neither lost nor handed out twice, the arithmetic of the blocks     *)
(* does not wrap before the slab is full, and whatever index a reader      *)
(* finds published lies inside an allocated block.                         *)
THEOREM SlabHoldsItsSlots == Spec => []SlabConsistent
<1>1. Inv => SlabConsistent
  BY SlotsOKAccounts, PublishedInBlock DEF Inv, SlabConsistent
<1> QED
  BY <1>1, SlabInductive, PTL

(* ntt_slab_retire and ntt_slab_give bump the generation before the slot   *)
(* can be reused, so a handle that still matches names its own object.     *)
THEOREM HandlesStayTrue == Spec => []HandlesNameTheirObject
<1>1. Inv => HandlesNameTheirObject
  BY DEF Inv, HandlesOK
<1> QED
  BY <1>1, SlabInductive, PTL
=============================================================================
