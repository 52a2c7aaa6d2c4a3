-------------------------------- MODULE Slab --------------------------------
(***************************************************************************)
(* The slab that keeps the queues and the events of a loop                 *)
(* (src/src/slab.c, src/src/slab.h): slots are handed out under a lock and *)
(* resolved without it, storage never moves, blocks double in size, and a  *)
(* generation per slot tells a stale handle from a good one.               *)
(*                                                                         *)
(* The code's indices, and its index arithmetic, have 32 bits. Here they   *)
(* have IndexBits: the constants derived from the width scale with it, and *)
(* everything the code computes in a uint32_t is taken modulo 2^IndexBits. *)
(***************************************************************************)
EXTENDS Integers, Sequences, FiniteSets

CONSTANTS
    IndexBits, \* NTT_SLAB_INDEX_BITS
    FirstLog2, \* NTT_FIRST_SLAB_BLOCK_LEN_LOG2
    Stride,    \* bytes from one object of a block to the next
    Threads,   \* threads that take and give
    NoThread,  \* nobody holds the lock
    MaxRetires \* bound on the generations that are bumped

ASSUME SlabWidths == /\ IndexBits \in Nat \ {0}
                     /\ FirstLog2 \in 0..(IndexBits - 1)
                     /\ Stride \in Nat \ {0}
ASSUME SlabBounds == MaxRetires \in Nat /\ NoThread \notin Threads

(* What the proofs use of exponentiation, which the provers do not know.   *)
ASSUME PowersOfTwo == /\ 2^0 = 1
                      /\ \A n \in 0..IndexBits : 2^n \in Nat /\ 2^(n + 1) = 2 * 2^n

Capacity == 2^IndexBits - 1
None == Capacity
Indices == 0..(Capacity - 1)
FirstBlockLen == 2^FirstLog2
FullBlocks == IndexBits - FirstLog2
LastBlockLen == FirstBlockLen - 1
NumBlocks == FullBlocks + (IF LastBlockLen # 0 THEN 1 ELSE 0)

VARIABLES
    size,      \* slots handed out so far, published for readers
    blocks,    \* blocks[b]: objects allocated for block b, 0 while NULL
    block_cnt,
    free_head,
    next_free, \* [Indices -> link]
    generation,
    lock,
    pc,        \* where a thread is
    slot,      \* the slot its call works on
    live,      \* slots that hold an object
    tenancy,   \* how many objects a slot has had
    handles,   \* every handle anybody ever got: slot, generation, tenancy
    retires,
    state      \* "open", "died" out of indices, "closed" by ntt_slab_deinit

slab_vars == <<size, blocks, block_cnt, free_head, next_free>>
object_vars == <<live, tenancy, handles>>
vars == <<slab_vars, generation, lock, pc, slot, object_vars, retires, state>>

TypeOK ==
    /\ size \in 0..Capacity
    /\ blocks \in [0..(NumBlocks - 1) -> 0..Capacity]
    /\ block_cnt \in 0..NumBlocks
    /\ free_head \in 0..None
    /\ next_free \in [Indices -> 0..None]
    /\ generation \in [Indices -> Nat]
    /\ lock \in Threads \cup {NoThread}
    /\ pc \in [Threads -> {"idle", "take", "publish", "link"}]
    /\ slot \in [Threads -> Indices]
    /\ live \in SUBSET Indices
    /\ tenancy \in [Indices -> Nat]
    /\ handles \subseteq Indices \X Nat \X Nat
    /\ retires \in 0..MaxRetires
    /\ state \in {"open", "died", "closed"}

Init ==
    /\ size = 0
    /\ blocks = [b \in 0..(NumBlocks - 1) |-> 0]
    /\ block_cnt = 0
    /\ free_head = None
    /\ next_free = [i \in Indices |-> None]
    /\ generation = [i \in Indices |-> 0]
    /\ lock = NoThread
    /\ pc = [t \in Threads |-> "idle"]
    /\ slot = [t \in Threads |-> 0]
    /\ live = {}
    /\ tenancy = [i \in Indices |-> 0]
    /\ handles = {}
    /\ retires = 0
    /\ state = "open"

-----------------------------------------------------------------------------
(* ntt_slab_block_of: the highest bit of (index >> exponent) + 1.          *)
HighestBit(x) == CHOOSE b \in 0..IndexBits : 2^b <= x /\ x < 2^(b + 1)

BlockOf(i) == HighestBit(i \div FirstBlockLen + 1)

BlockFirst(b) == (FirstBlockLen * (2^b - 1)) % 2^IndexBits
BlockLen(b) == (FirstBlockLen * 2^b) % 2^IndexBits

(* Where in its block ntt_slab_at finds an object: a uint32_t product.     *)
Offset(i) == ((i - BlockFirst(BlockOf(i))) * Stride) % 2^IndexBits

-----------------------------------------------------------------------------
(* ntt_slab_take takes the lock ...                                        *)
Take(t) ==
    /\ state = "open"
    /\ pc[t] = "idle"
    /\ lock = NoThread
    /\ lock' = t
    /\ pc' = [pc EXCEPT ![t] = "take"]
    /\ UNCHANGED <<slab_vars, generation, slot, object_vars, retires, state>>

(* An object lives in slot i, and its owner has a handle to it.            *)
HandOut(i, g) ==
    /\ live' = live \cup {i}
    /\ tenancy' = [tenancy EXCEPT ![i] = @ + 1]
    /\ handles' = handles \cup {<<i, g, tenancy[i] + 1>>}

(* ... pops the free list, whose slots keep their generation, ...          *)
NextFreeKept(i) == i  \* mutant
NextFree(i) == next_free[i]

ReusedReset(i) == [generation EXCEPT ![i] = 1]  \* mutant
Reused(i) == generation

TakeFree(t) ==
    /\ pc[t] = "take"
    /\ free_head # None
    /\ free_head' = NextFree(free_head)
    /\ generation' = Reused(free_head)
    /\ HandOut(free_head, generation'[free_head])
    /\ lock' = NoThread
    /\ pc' = [pc EXCEPT ![t] = "idle"]
    /\ UNCHANGED <<size, blocks, block_cnt, next_free, slot, retires, state>>

(* ... dies when it is out of indices ...                                  *)
OutOfIndices == size = Capacity

TakeDies(t) ==
    /\ pc[t] = "take"
    /\ free_head = None
    /\ OutOfIndices
    /\ state' = "died"
    /\ UNCHANGED <<slab_vars, generation, lock, pc, slot, object_vars, retires>>

(* ... or uses the next slot, and allocates the block it is the first of.  *)
NeedsBlock == size = BlockFirst(block_cnt)

TakeFresh(t) ==
    /\ pc[t] = "take"
    /\ state = "open"
    /\ free_head = None
    /\ ~OutOfIndices
    /\ slot' = [slot EXCEPT ![t] = size]
    /\ IF NeedsBlock
       THEN /\ blocks' = [blocks EXCEPT ![block_cnt] =
                             IF block_cnt = FullBlocks THEN LastBlockLen
                                                       ELSE BlockLen(block_cnt)]
            /\ block_cnt' = block_cnt + 1
       ELSE UNCHANGED <<blocks, block_cnt>>
    /\ pc' = [pc EXCEPT ![t] = "publish"]
    /\ UNCHANGED <<size, free_head, next_free, generation, lock, object_vars,
                   retires, state>>

(* The slot is published last: a reader that sees the index sees its       *)
(* block, and a first generation.                                          *)
Publish(t) ==
    /\ pc[t] = "publish"
    /\ generation' = [generation EXCEPT ![slot[t]] = 1]
    /\ size' = slot[t] + 1
    /\ HandOut(slot[t], 1)
    /\ lock' = NoThread
    /\ slot' = [slot EXCEPT ![t] = 0]
    /\ pc' = [pc EXCEPT ![t] = "idle"]
    /\ UNCHANGED <<blocks, block_cnt, free_head, next_free, retires, state>>

(* ntt_slab_retire by the owner of a live object: handles taken before are *)
(* stale, the new one is what it returns.                                  *)
Retire(i) ==
    /\ state = "open"
    /\ i \in live
    /\ retires < MaxRetires
    /\ retires' = retires + 1
    /\ generation' = [generation EXCEPT ![i] = @ + 1]
    /\ handles' = handles \cup {<<i, generation[i] + 1, tenancy[i]>>}
    /\ UNCHANGED <<slab_vars, lock, pc, slot, live, tenancy, state>>

(* ntt_slab_give: the object is gone and its handles go stale, without the *)
(* lock ...                                                                *)
Give(t, i) ==
    /\ state = "open"
    /\ pc[t] = "idle"
    /\ i \in live
    /\ retires < MaxRetires
    /\ retires' = retires + 1
    /\ live' = live \ {i}
    /\ generation' = [generation EXCEPT ![i] = @ + 1]
    /\ slot' = [slot EXCEPT ![t] = i]
    /\ pc' = [pc EXCEPT ![t] = "link"]
    /\ UNCHANGED <<slab_vars, lock, tenancy, handles, state>>

(* ... and only then is the slot linked into the free list.                *)
GiveLinks(t) ==
    /\ pc[t] = "link"
    /\ lock = NoThread
    /\ next_free' = [next_free EXCEPT ![slot[t]] = free_head]
    /\ free_head' = slot[t]
    /\ slot' = [slot EXCEPT ![t] = 0]
    /\ pc' = [pc EXCEPT ![t] = "idle"]
    /\ UNCHANGED <<size, blocks, block_cnt, generation, lock, object_vars,
                   retires, state>>

(* ntt_slab_deinit, with the loop: no object is alive, no thread is left.  *)
Deinit ==
    /\ state = "open"
    /\ live = {} /\ \A t \in Threads : pc[t] = "idle"
    /\ state' = "closed"
    /\ blocks' = [b \in DOMAIN blocks |-> IF b < block_cnt THEN 0 ELSE blocks[b]]
    /\ block_cnt' = 0
    /\ free_head' = None
    /\ size' = 0
    /\ UNCHANGED <<next_free, generation, lock, pc, slot, object_vars, retires>>

Next == \/ \E t \in Threads : \/ Take(t) \/ TakeFree(t) \/ TakeDies(t)
                              \/ TakeFresh(t) \/ Publish(t) \/ GiveLinks(t)
                              \/ \E i \in live : Give(t, i)
        \/ \E i \in live : Retire(i)
        \/ Deinit

Spec == Init /\ [][Next]_vars

-----------------------------------------------------------------------------
(* Slots that threads are about to link into the free list, and the slots   *)
(* that must be there: handed out once, without an object now.             *)
Linking == {slot[t] : t \in {x \in Threads : pc[x] = "link"}}
Waiting == 0..(size - 1) \ (live \cup Linking)

(* The slots s, n of them, are the free list: from its head along          *)
(* next_free to its end.                                                   *)
IsFreeList(s, n) ==
    /\ free_head = IF n = 0 THEN None ELSE s[1]
    /\ \A p \in 1..n : next_free[s[p]] = IF p = n THEN None ELSE s[p + 1]

(* Every slot handed out so far holds one object, waits on the free list   *)
(* once, or is on its way there by one thread: ntt_slab_take never hands   *)
(* out a slot that is in use, and ntt_slab_give loses none.                *)
SlotsAccountedFor ==
    state # "closed" =>
        /\ live \cup Linking \subseteq 0..(size - 1)
        /\ live \cap Linking = {}
        /\ \A t, u \in Threads :
              pc[t] = "link" /\ pc[u] = "link" /\ slot[t] = slot[u] => t = u
        /\ LET n == Cardinality(Waiting)
           IN  \E s \in [1..n -> Waiting] :
                   /\ \A i \in Waiting : \E p \in 1..n : s[p] = i
                   /\ \A p, q \in 1..n : s[p] = s[q] => p = q
                   /\ IsFreeList(s, n)

(* A handle that matches the generation of its slot names the object that  *)
(* is there: it never reaches a later tenant, nor a slot without one.      *)
HandlesNameTheirObject ==
    \A h \in handles :
        generation[h[1]] = h[2] => h[1] \in live /\ tenancy[h[1]] = h[3]

(* An index that has been published resolves into an allocated block, and  *)
(* to a place inside it, for readers that do not take the lock.            *)
Resolves(i) == /\ BlockOf(i) \in DOMAIN blocks
               /\ i - BlockFirst(BlockOf(i)) \in 0..(blocks[BlockOf(i)] - 1)

PublishedResolves == \A i \in 0..(size - 1) : Resolves(i)

(* The size stays below the capacity, slots are accounted for and what is  *)
(* published resolves.                                                     *)
SlabConsistent == TypeOK /\ SlotsAccountedFor /\ PublishedResolves

(* No two slots share storage: "Safe for any index the slab has ever       *)
(* handed out" (src/src/slab.h).                                           *)
StorageDisjoint ==
    \A i, j \in 0..(size - 1) :
        i < j /\ BlockOf(i) = BlockOf(j) => Offset(j) - Offset(i) >= Stride
=============================================================================
