--------------------------- MODULE MCMessageQueues ---------------------------
(***************************************************************************)
(* Two threads that send each other messages through their queues.         *)
(***************************************************************************)
EXTENDS MessageQueues, TLC

CONSTANTS t1, t2, m1, m2, m3, m4

\* Three messages for t1, one more than its queue holds, and one for t2.
TwoHomes == (m1 :> t1) @@ (m2 :> t1) @@ (m3 :> t1) @@ (m4 :> t2)
\* A thread looks for its own queue (GetOrCreateMessageQueue), and t1 for that
\* of t2, which keeps it: see the README, section 6.
SafeGets == {<<t1, t1>>, <<t2, t2>>, <<t1, t2>>}
=============================================================================
