------------------------------ MODULE MCIoPool ------------------------------
(***************************************************************************)
(* IoPool with three entries for transfers that need one to three of them. *)
(***************************************************************************)
EXTENDS IoPool

CONSTANTS s1, s2
=============================================================================
