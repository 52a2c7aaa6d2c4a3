--------------------------- MODULE MCTimerService ---------------------------
(***************************************************************************)
(* Instances of TimerService for TLC.                                      *)
(***************************************************************************)
EXTENDS TimerService, TLC

(* Workers are alike, and so are slots: the heap compares deadlines only.  *)
Symmetry == Permutations(Dispatchers) \cup Permutations(Slots)
=============================================================================
