-------------------------------- MODULE List --------------------------------
(***************************************************************************)
(* The intrusive list under every queue, the combine and the local queue   *)
(* of a worker (src/src/node.h, src/src/list.h, src/src/task_list.h), down *)
(* to its pointer stores: a push and a next as the sequence of memories    *)
(* their stores leave behind, so that what a reader of the head without    *)
(* the lock may meet is one of them. Represents says which sequence a      *)
(* memory stands for; Loop, Worker and SerialQueue use the sequences.      *)
(***************************************************************************)
EXTENDS Integers, Sequences

CONSTANTS
    Nodes,     \* the nodes of the tasks or of the queues
    Sentinel,  \* the sentinel of the list
    NULL

Cells == Nodes \cup {Sentinel}

(* A memory: the next and the prev of every node and of the sentinel.      *)
Memories == [next : [Cells -> Cells \cup {NULL}],
             prev : [Cells -> Cells \cup {NULL}]]

SetNext(m, c, v) == [next |-> [m.next EXCEPT ![c] = v], prev |-> m.prev]
SetPrev(m, c, v) == [next |-> m.next, prev |-> [m.prev EXCEPT ![c] = v]]

NodeInit(m, x) == SetNext(m, x, NULL)

Unlinked(m, x) == m.next[x] = NULL

ListInit(m) == SetPrev(SetNext(m, Sentinel, Sentinel), Sentinel, Sentinel)

ListEmpty(m) == m.next[Sentinel] = Sentinel

Front(m) == m.next[Sentinel]

(* ntt_list_push_back: the fields of the node, then the release store that *)
(* makes it reachable, then the tail.                                      *)
Linked(m, x) == SetPrev(SetNext(m, x, Sentinel), x, m.prev[Sentinel])
Published(m, x) == SetNext(Linked(m, x), m.prev[Sentinel], x)
PushBack(m, x) == SetPrev(Published(m, x), Sentinel, x)

PushSteps(m, x) ==
    <<SetNext(m, x, Sentinel), Linked(m, x), Published(m, x), PushBack(m, x)>>

(* ntt_list_next: the head is skipped and only then marked unlinked.       *)
Second(m) == m.next[m.next[Sentinel]]
Skipped(m) == SetNext(m, Sentinel, Second(m))
Rejoined(m) == SetPrev(Skipped(m), Second(m), Sentinel)
ListNext(m) == SetNext(Rejoined(m), m.next[Sentinel], NULL)

NextSteps(m) == <<Skipped(m), Rejoined(m), ListNext(m)>>

NextReturns(m) == IF Second(m) # Sentinel THEN Second(m) ELSE NULL

-----------------------------------------------------------------------------
(* The cells before and after the i-th node of a list, both ends being the *)
(* sentinel.                                                               *)
At(s, i) == IF i \in 1..Len(s) THEN s[i] ELSE Sentinel

(* The memory is the list of the nodes of s in that order: the chains of   *)
(* next and of prev go through them, and every other node is unlinked.     *)
Represents(m, s) ==
    /\ m \in Memories
    /\ s \in Seq(Nodes)
    /\ \A i, j \in 1..Len(s) : s[i] = s[j] => i = j
    /\ m.next[Sentinel] = At(s, 1)
    /\ m.prev[Sentinel] = At(s, Len(s))
    /\ \A i \in 1..Len(s) : m.next[s[i]] = At(s, i + 1)
    /\ \A i \in 1..Len(s) : m.prev[s[i]] = At(s, i - 1)
    /\ \A x \in Nodes : (\A i \in 1..Len(s) : s[i] # x) => m.next[x] = NULL
=============================================================================
