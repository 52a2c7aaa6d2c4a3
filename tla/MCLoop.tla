------------------------------- MODULE MCLoop -------------------------------
(***************************************************************************)
(* Instances of Loop for TLC, and the intrusive list that Loop takes for a *)
(* sequence against that sequence, on every list of the tasks.             *)
(***************************************************************************)
EXTENDS Loop, TLC

(* Worker 1 drains without a limit, as ntt_loop_run does, the other one at *)
(* most two tasks at a time.                                               *)
MCLimit == [w \in Workers |-> IF w = 1 THEN 0 ELSE 2]

L == INSTANCE List WITH Nodes <- Tasks, Sentinel <- NoQueue, NULL <- NoTask

TaskLists == {s \in UNION {[1..n -> Tasks] : n \in 0..Cardinality(Tasks)} :
                 \A i, j \in 1..Len(s) : s[i] = s[j] => i = j}

(* Whatever the prev of a node that is in no list was left at.             *)
MemoriesOf(s) ==
    LET In == {s[i] : i \in 1..Len(s)}
        Pos(x) == CHOOSE i \in 1..Len(s) : s[i] = x
    IN  {[next |-> [c \in L!Cells |-> IF c = NoQueue THEN L!At(s, 1)
                        ELSE IF c \in In THEN L!At(s, Pos(c) + 1) ELSE NoTask],
          prev |-> [c \in L!Cells |-> IF c = NoQueue THEN L!At(s, Len(s))
                        ELSE IF c \in In THEN L!At(s, Pos(c) - 1) ELSE stale[c]]] :
             stale \in [Tasks -> L!Cells \cup {NoTask}]}

(* Every step of a push or a next leaves at the head the old front or the  *)
(* new one, never a node that is not linked yet.                           *)
HeadReadable(steps, m) ==
    \A i \in 1..Len(steps) :
        LET h == L!Front(steps[i])
        IN  /\ h \in {L!Front(m), L!Front(steps[Len(steps)])}
            /\ h # L!Front(m) /\ h # NoQueue => steps[i].next[h] # NoTask

(* A push appends and next drops the head, and the head can be read        *)
(* meanwhile.                                                              *)
ASSUME ListIsSequence ==
    \A s \in TaskLists : \A m \in MemoriesOf(s) :
        /\ L!Represents(m, s)
        /\ L!ListEmpty(m) <=> s = <<>>
        /\ \A x \in Tasks : L!Unlinked(m, x) =>
              /\ L!Represents(L!PushBack(m, x), Append(s, x))
              /\ HeadReadable(L!PushSteps(m, x), m)
        /\ s # <<>> =>
              /\ L!Front(m) = Head(s)
              /\ L!Represents(L!ListNext(m), Tail(s))
              /\ L!NextReturns(m) = IF Len(s) > 1 THEN s[2] ELSE NoTask
              /\ L!Unlinked(L!ListNext(m), Head(s))
              /\ HeadReadable(L!NextSteps(m), m)
=============================================================================
