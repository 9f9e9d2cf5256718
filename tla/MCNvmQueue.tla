----------------------------- MODULE MCNvmQueue -----------------------------
(***************************************************************************)
(* NvmQueue with two threads.  On queues of four entries five commands     *)
(* wrap both queues and change the phase bit; with a submission queue of   *)
(* two entries it is full whenever a command is out, and six commands on   *)
(* three identifiers meet identifiers that are locked.                     *)
(***************************************************************************)
EXTENDS NvmQueue

CONSTANTS t1, t2
=============================================================================
