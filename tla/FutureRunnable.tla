---------------------------- MODULE FutureRunnable ----------------------------
(***************************************************************************)
(* The future of a thread pool, sFutureRunnable of                         *)
(* niLang/src/Concurrent.cpp: Submit puts it in a worker's queue, its Run  *)
(* runs the program's runnable unless Cancel took that away, and sets a    *)
(* manual-reset event.  ShutdownNow may throw it away before.              *)
(*                                                                         *)
(* Cancel of another thread while Run copies the counted pointer is a data *)
(* race of the code and is left out: a copy is one step here.              *)
(***************************************************************************)
CONSTANTS
  Holders,  \* the threads that have the future
  Results,  \* what the runnable may return
  Null      \* niVarNull

VARIABLES
  runnable,  \* mptrRunnable is not NULL
  ret,       \* mRet
  ran,       \* meventRan
  worker,    \* where the future is on its way through the pool
  pc,        \* where each holder is
  \* history
  spoiled,   \* Cancel came before the worker
  answer     \* what each holder's last call returned

vars == <<runnable, ret, ran, worker, pc, spoiled, answer>>

TypeOK ==
  /\ runnable \in BOOLEAN
  /\ ret \in Results \cup {Null}
  /\ ran \in BOOLEAN
  /\ worker \in {"queued", "running", "signal", "done", "thrown"}
  /\ pc \in [Holders -> {"out", "blocked", "woken", "take"}]
  /\ spoiled \in BOOLEAN
  /\ answer \in [Holders -> Results \cup {Null, "none", "yes", "no"}]

Init ==
  /\ runnable = TRUE /\ ret = Null /\ ran = FALSE
  /\ worker = "queued"
  /\ pc = [h \in Holders |-> "out"]
  /\ spoiled = FALSE
  /\ answer = [h \in Holders |-> "none"]

(***************************************************************************)
(* The worker.                                                             *)
(***************************************************************************)

Run ==
  /\ worker = "queued"
  /\ worker' = IF runnable THEN "running" ELSE "signal"
  /\ UNCHANGED <<runnable, ret, ran, pc, spoiled, answer>>

RunReturns(v) ==
  /\ worker = "running"
  /\ worker' = "signal"
  /\ ret' = v
  /\ UNCHANGED <<runnable, ran, pc, spoiled, answer>>

\* Mutant: the event wakes those who wait, but is not set.
PulseRan ==
  /\ worker = "signal"
  /\ worker' = "done"
  /\ pc' = [h \in Holders |-> IF pc[h] = "blocked" THEN "woken" ELSE pc[h]]
  /\ UNCHANGED <<runnable, ret, ran, spoiled, answer>>

SignalRan ==
  /\ worker = "signal"
  /\ worker' = "done"
  /\ ran' = TRUE
  /\ pc' = [h \in Holders |-> IF pc[h] = "blocked" THEN "woken" ELSE pc[h]]
  /\ UNCHANGED <<runnable, ret, spoiled, answer>>

Worker == Run \/ (\E v \in Results : RunReturns(v)) \/ SignalRan

\* Clear of the queue, in ShutdownNow or at the end of the worker.
ThrownAway ==
  /\ worker = "queued"
  /\ worker' = "thrown"
  /\ UNCHANGED <<runnable, ret, ran, pc, spoiled, answer>>

(***************************************************************************)
(* The holders.                                                            *)
(***************************************************************************)

Cancel(h) ==
  /\ pc[h] = "out"
  /\ runnable' = FALSE
  /\ spoiled' = (spoiled \/ worker = "queued")
  /\ UNCHANGED <<ret, ran, worker, pc, answer>>

Wait(h) ==
  /\ pc[h] = "out"
  /\ pc' = [pc EXCEPT ![h] = IF ran THEN "woken" ELSE "blocked"]
  /\ UNCHANGED <<runnable, ret, ran, worker, spoiled, answer>>

Wakes(h) ==
  /\ pc[h] = "woken"
  /\ pc' = [pc EXCEPT ![h] = "out"]
  /\ answer' = [answer EXCEPT ![h] = "yes"]
  /\ UNCHANGED <<runnable, ret, ran, worker, spoiled>>

\* The timeout, and GetIsDone, which is Wait(0).
GivesUp(h) ==
  /\ pc[h] = "blocked"
  /\ pc' = [pc EXCEPT ![h] = "out"]
  /\ answer' = [answer EXCEPT ![h] = "no"]
  /\ UNCHANGED <<runnable, ret, ran, worker, spoiled>>

\* GetValue looks at the event, then at mRet.
GetValue(h) ==
  /\ pc[h] = "out"
  /\ IF ran
     THEN pc' = [pc EXCEPT ![h] = "take"] /\ UNCHANGED answer
     ELSE answer' = [answer EXCEPT ![h] = Null] /\ UNCHANGED pc
  /\ UNCHANGED <<runnable, ret, ran, worker, spoiled>>

TakeValue(h) ==
  /\ pc[h] = "take"
  /\ pc' = [pc EXCEPT ![h] = "out"]
  /\ answer' = [answer EXCEPT ![h] = ret]
  /\ UNCHANGED <<runnable, ret, ran, worker, spoiled>>

Holder(h) ==
  \/ Cancel(h) \/ Wait(h) \/ Wakes(h) \/ GivesUp(h) \/ GetValue(h) \/ TakeValue(h)

Next == Worker \/ ThrownAway \/ \E h \in Holders : Holder(h)

Spec == Init /\ [][Next]_vars

(***************************************************************************)
(* What the future promises.                                               *)
(***************************************************************************)

\* An answer other than "not yet" is given only when the pool is done with the
\* runnable; a value is what it returned; and one canceled while it was queued is
\* not run, but done.
TellsWhatRan ==
  /\ \A h \in Holders : answer[h] \in Results \cup {"yes"} => worker = "done"
  /\ \A h \in Holders : answer[h] \in Results => answer[h] = ret
  /\ spoiled => worker # "running" /\ ret = Null

\* A Wait without a timeout returns, unless the pool threw the future away: then
\* nobody sets its event.
WaitEnds ==
  \A h \in Holders : pc[h] = "blocked" ~> (pc[h] # "blocked" \/ worker = "thrown")
=============================================================================
