------------------------ MODULE MCCooperativeExecutor ------------------------
(***************************************************************************)
(* Small cooperative executors for TLC: who waits for whose future.        *)
(***************************************************************************)
EXTENDS CooperativeExecutor

CONSTANTS r1, r2

NoWaits    == {}
\* The owner waits for r1, which waits for r2: nobody waits in a circle.
ChainWaits == {<<None, r1>>, <<r1, r2>>}
=============================================================================
