------------------------------- MODULE MCEvent -------------------------------
(***************************************************************************)
(* Instances of Event for TLC. The threads of a kind are interchangeable.  *)
(***************************************************************************)
EXTENDS Event, TLC

(* An event whose sides run in two queues, up to their names, and one of   *)
(* the loop itself.                                                        *)
TwoQueues == {p \in Accepted :
                 /\ p.interest = Sides
                 /\ p.queues["readable"] # p.queues["writable"]
                 /\ p.queues["readable"] = CHOOSE q \in Queues : TRUE}
LiveParams == TwoQueues \cup {Own}

(* A report with a hangup reaches every side whatever else it says, so one *)
(* that says nothing else stands for all of them.                          *)
HangupAlone ==
    \A d \in Dispatchers : "hangup" \in todo'[d] => todo'[d] = {"hangup"}

Symmetry == Permutations(Dispatchers) \cup Permutations(Users)
=============================================================================
