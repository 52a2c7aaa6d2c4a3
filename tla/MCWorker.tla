------------------------------ MODULE MCWorker ------------------------------
(***************************************************************************)
(* The instance of Worker for TLC, without symmetry, which liveness        *)
(* properties do not allow.                                                *)
(***************************************************************************)
EXTENDS Worker
=============================================================================
