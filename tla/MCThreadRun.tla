---------------------------- MODULE MCThreadRun ----------------------------
(***************************************************************************)
(* A thread's future held by one or two threads.                           *)
(***************************************************************************)
EXTENDS ThreadRun

CONSTANTS w1, w2
=============================================================================
