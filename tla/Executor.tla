------------------------------ MODULE Executor ------------------------------
(***************************************************************************)
(* What the executors of niLang (iExecutor, IConcurrent.h) keep of what    *)
(* they promise: the life of a runnable handed to Execute or Submit,       *)
(* without queues, threads or events.                                      *)
(*                                                                         *)
(* A runnable is offered, and either refused or pending; a pending one is  *)
(* started once and finishes, or is thrown away, which only a shutdown may *)
(* do.  Where GetIsTerminated waits for the runnables, nothing starts and  *)
(* nothing runs once it is true; elsewhere it only repeats GetIsShutdown.  *)
(***************************************************************************)

CONSTANTS
  Runnables,      \* the runnables offered to the executor
  DropOnShutdown, \* TRUE: any shutdown may throw pending runnables away;
                  \* FALSE: only a shutdown "now" may
  AwaitsRunning   \* TRUE: GetIsTerminated waits for what runs;
                  \* FALSE: it is true as soon as GetIsShutdown is

VARIABLES
  status,      \* where each runnable is in its life
  shut,        \* GetIsShutdown
  now,         \* ShutdownNow has been asked for
  terminated   \* GetIsTerminated

vars == <<status, shut, now, terminated>>

Status == {"new", "offered", "refused", "pending", "running", "done", "dropped"}

TypeOK ==
  /\ status \in [Runnables -> Status]
  /\ shut \in BOOLEAN
  /\ now \in BOOLEAN
  /\ terminated \in BOOLEAN

Init ==
  /\ status = [r \in Runnables |-> "new"]
  /\ shut = FALSE
  /\ now = FALSE
  /\ terminated = FALSE

Becomes(r, from, to) ==
  /\ status[r] = from
  /\ status' = [status EXCEPT ![r] = to]

\* The call finds the executor open; it has not yet queued the runnable.
Offer(r) ==
  /\ ~shut
  /\ Becomes(r, "new", "offered")
  /\ UNCHANGED <<shut, now, terminated>>

\* The call returns false: it came after a shutdown, or lost a race with one.
Refuse(r) ==
  /\ shut
  /\ Becomes(r, "new", "refused") \/ Becomes(r, "offered", "refused")
  /\ UNCHANGED <<shut, now, terminated>>

\* The call returns true.  Nothing says that the executor is still open.
Accept(r) ==
  /\ Becomes(r, "offered", "pending")
  /\ UNCHANGED <<shut, now, terminated>>

Start(r) ==
  /\ AwaitsRunning => ~terminated
  /\ Becomes(r, "pending", "running")
  /\ UNCHANGED <<shut, now, terminated>>

Finish(r) ==
  /\ Becomes(r, "running", "done")
  /\ UNCHANGED <<shut, now, terminated>>

\* Pending runnables are thrown away, one or a whole queue of them.
ThrowAway ==
  /\ IF DropOnShutdown THEN shut ELSE now
  /\ \E R \in SUBSET {r \in Runnables : status[r] = "pending"} :
       status' = [r \in Runnables |-> IF r \in R THEN "dropped" ELSE status[r]]

Drop ==
  /\ ThrowAway
  /\ UNCHANGED <<shut, now, terminated>>

Shutdown ==
  /\ shut' = TRUE
  /\ now' \in {now, TRUE}
  /\ terminated' = IF AwaitsRunning THEN terminated ELSE TRUE
  /\ UNCHANGED status

Terminate ==
  /\ AwaitsRunning
  /\ shut
  /\ \A r \in Runnables : status[r] # "running"
  /\ terminated' = TRUE
  /\ UNCHANGED status \/ ThrowAway
  /\ UNCHANGED <<shut, now>>

Next ==
  \/ \E r \in Runnables :
       Offer(r) \/ Refuse(r) \/ Accept(r) \/ Start(r) \/ Finish(r)
  \/ Drop
  \/ Shutdown
  \/ Terminate

Spec == Init /\ [][Next]_vars
=============================================================================
