------------------------------ MODULE MCReader ------------------------------
(***************************************************************************)
(* Instances of Reader for TLC.                                            *)
(***************************************************************************)
EXTENDS Reader, TLC
=============================================================================
