---------------------------- MODULE MCThreadPool ----------------------------
(***************************************************************************)
(* Small pools for TLC: the calls the stoppers of a run may make, and the  *)
(* symmetry of the runnables.                                              *)
(***************************************************************************)
EXTENDS ThreadPool, TLC

NoCalls          == {}
PatientShutdown  == [op : {"Shutdown"}, timed : {FALSE}]
\* Every call but ShutdownNow with a timeout: see the README, section 6.
PatientNow       == [op : {"Shutdown"}, timed : BOOLEAN]
                    \cup [op : {"ShutdownNow", "Destroy"}, timed : {FALSE}]

RunnableSymmetry == Permutations(Runnables)
=============================================================================
