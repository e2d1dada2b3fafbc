------------------------- MODULE CooperativeExecutor -------------------------
(***************************************************************************)
(* ExecutorCooperative (niLang/src/Concurrent.cpp) with its RunnableQueue  *)
(* and the futures of Submit (sFutureCooperativeRunnable).                 *)
(*                                                                         *)
(* One thread, the owner, runs everything: Update polls the queue and runs *)
(* what it finds, and a runnable may itself call Update, Wait on a future, *)
(* which updates too, or Shutdown.  So the state of the owner is a stack   *)
(* of calls, its top last.  Other threads submit, cancel futures and call  *)
(* ShutdownNow at any moment; Update, Wait and Shutdown poll, which only   *)
(* the owner may do (RunnableQueue::Poll asserts it).                      *)
(***************************************************************************)
EXTENDS Integers, Sequences, FiniteSets

CONSTANTS
  Runnables,   \* the runnables submitted, each of them once
  Stoppers,    \* the other threads that call ShutdownNow
  OwnerStops,  \* what the owner may call of "Shutdown", "ShutdownNow"
  Waits,       \* who may wait for whose future: pairs <<who, for>>, where who
               \* is None for the owner outside of any runnable
  Updaters,    \* the runnables that may call Update
  Cancels,     \* the runnables whose future may be cancelled
  MaxDepth,    \* bound: the calls on the owner's stack
  None         \* the NULL runnable

ASSUME CooperativeAssumption ==
  /\ IsFiniteSet(Runnables)
  /\ None \notin Runnables
  /\ OwnerStops \subseteq {"Shutdown", "ShutdownNow"}
  /\ Waits \subseteq (Runnables \cup {None}) \X Runnables
  /\ Updaters \subseteq Runnables
  /\ Cancels \subseteq Runnables
  /\ MaxDepth \in Nat

VARIABLES
  queue,        \* RunnableQueue::_queue
  canAdd,       \* RunnableQueue::_canAdd
  mode,         \* _shutdownMode
  interrupted,  \* _interruptedUpdate
  stack,        \* the owner's calls, the innermost last
  cpc,          \* per runnable: where the call of Submit is
  cancelled,    \* the runnables whose future was cancelled
  finished,     \* the runnables whose future is done (mbIsDone)
  spc,          \* per stopper: where its ShutdownNow is
  \* history
  starts,       \* how often each runnable was started
  order,        \* the runnables in the order in which they were accepted
  early,        \* those accepted before any shutdown began
  stopped       \* the owner's shutdowns that returned

vars == <<queue, canAdd, mode, interrupted, stack, cpc, cancelled, finished,
          spc, starts, order, early, stopped>>

\* A call on the stack: Update with the runnable in its hand, Wait with the one
\* it waits for, or a shutdown.
Call ==
  [op   : {"update", "wait", "Shutdown", "ShutdownNow"},
   pc   : {"poll", "check", "run", "running", "skipped", "ran", "test", "set",
           "update", "clear"},
   of   : Runnables \cup {None},
   time : BOOLEAN,   \* update: its slice is not 0; wait: it has a timeout
   cut  : BOOLEAN]   \* history: its runnable called InterruptUpdate last

Top    == stack[Len(stack)]
Pop    == SubSeq(stack, 1, Len(stack) - 1)
Queued == {queue[i] : i \in DOMAIN queue}

\* The owner's innermost call is of kind op and has come to pc.
At(op, pc) == stack # <<>> /\ Top.op = op /\ Top.pc = pc

\* The stack with its innermost call at pc, holding r.
Moved(pc, r) == Pop \o <<[Top EXCEPT !.pc = pc, !.of = r]>>

\* The stack without its innermost call, and what the caller does next: Wait
\* tests again, Shutdown goes on to invalidate the queue.
Returned ==
  LET rest == Pop IN
  IF rest = <<>> THEN rest
  ELSE LET c == rest[Len(rest)] IN
       SubSeq(rest, 1, Len(rest) - 1) \o
         <<[c EXCEPT !.pc = IF c.op = "Shutdown" THEN "clear" ELSE @]>>

TypeOK ==
  /\ queue \in Seq(Runnables)
  /\ canAdd \in BOOLEAN
  /\ mode \in 0 .. 2
  /\ interrupted \in BOOLEAN
  /\ stack \in Seq(Call)
  /\ cpc \in [Runnables -> {"new", "adding", "accepted", "refused"}]
  /\ cancelled \subseteq Runnables
  /\ finished \subseteq Runnables
  /\ spc \in [Stoppers -> {"out", "set", "clear"}]
  /\ starts \in [Runnables -> Nat]
  /\ order \in Seq(Runnables)
  /\ early \subseteq Runnables
  /\ stopped \in BOOLEAN

Init ==
  /\ queue = <<>>
  /\ canAdd = TRUE
  /\ mode = 0
  /\ interrupted = FALSE
  /\ stack = <<>>
  /\ cpc = [r \in Runnables |-> "new"]
  /\ cancelled = {}
  /\ finished = {}
  /\ spc = [s \in Stoppers |-> "out"]
  /\ starts = [r \in Runnables |-> 0]
  /\ order = <<>>
  /\ early = {}
  /\ stopped = FALSE

(***************************************************************************)
(* Submit of runnable r, by any thread.  Execute differs from it only in   *)
(* that nobody holds a future.                                             *)
(***************************************************************************)

SubmitBegins(r) ==
  /\ cpc[r] = "new"
  /\ cpc' = [cpc EXCEPT ![r] = IF mode # 0 THEN "refused" ELSE "adding"]
  /\ UNCHANGED <<queue, canAdd, mode, interrupted, stack, cancelled, finished,
                 spc, starts, order, early, stopped>>

\* RunnableQueue::Add.
SubmitAdds(r) ==
  /\ cpc[r] = "adding"
  /\ IF canAdd
     THEN /\ queue' = Append(queue, r)
          /\ order' = Append(order, r)
          /\ early' = IF mode = 0 THEN early \cup {r} ELSE early
          /\ cpc' = [cpc EXCEPT ![r] = "accepted"]
     ELSE /\ cpc' = [cpc EXCEPT ![r] = "refused"]
          /\ UNCHANGED <<queue, order, early>>
  /\ UNCHANGED <<canAdd, mode, interrupted, stack, cancelled, finished, spc,
                 starts, stopped>>

\* sFutureCooperativeRunnable::Cancel: the future forgets runnable and executor.
Cancel(r) ==
  /\ r \in Cancels
  /\ cpc[r] = "accepted"
  /\ cancelled' = cancelled \cup {r}
  /\ UNCHANGED <<queue, canAdd, mode, interrupted, stack, cpc, finished, spc,
                 starts, order, early, stopped>>

(***************************************************************************)
(* Update.                                                                 *)
(***************************************************************************)

\* The runnable whose code runs on top of the stack, None outside of any.
InRunnable == IF stack = <<>> THEN None ELSE Top.of
OwnerFree  == stack = <<>> \/ At("update", "running")

\* The owner, or the runnable it runs, makes a call.
Calls(c) ==
  /\ OwnerFree
  /\ Len(stack) < MaxDepth
  /\ stack' = (IF stack = <<>> THEN <<>> ELSE Pop \o <<[Top EXCEPT !.cut = FALSE]>>)
              \o <<c>>

NewUpdate(slice) ==
  [op |-> "update", pc |-> "poll", of |-> None, time |-> slice, cut |-> FALSE]

UpdateBegins ==
  /\ InRunnable \in Updaters \cup {None}
  /\ \E slice \in BOOLEAN : Calls(NewUpdate(slice))
  /\ interrupted' = FALSE
  /\ UNCHANGED <<queue, canAdd, mode, cpc, cancelled, finished, spc, starts,
                 order, early, stopped>>

\* Mutant: the head is popped before it is read.
PollLosesOne ==
  /\ At("update", "poll")
  /\ IF Len(queue) < 2
     THEN stack' = Moved("check", None)
     ELSE stack' = Moved("check", queue[2])
  /\ queue' = IF queue = <<>> THEN queue ELSE Tail(queue)
  /\ UNCHANGED <<canAdd, mode, interrupted, cpc, cancelled, finished, spc,
                 starts, order, early, stopped>>

\* Mutant: the queue is a stack.
PollLast ==
  /\ At("update", "poll")
  /\ IF queue = <<>>
     THEN stack' = Moved("check", None) /\ UNCHANGED queue
     ELSE /\ stack' = Moved("check", queue[Len(queue)])
          /\ queue' = SubSeq(queue, 1, Len(queue) - 1)
  /\ UNCHANGED <<canAdd, mode, interrupted, cpc, cancelled, finished, spc,
                 starts, order, early, stopped>>

\* Mutant: Peek in the place of Poll.
PollPeeks ==
  /\ At("update", "poll")
  /\ stack' = Moved("check", IF queue = <<>> THEN None ELSE Head(queue))
  /\ UNCHANGED <<queue, canAdd, mode, interrupted, cpc, cancelled, finished,
                 spc, starts, order, early, stopped>>

\* RunnableQueue::Poll.
Poll ==
  /\ At("update", "poll")
  /\ IF queue = <<>>
     THEN stack' = Moved("check", None) /\ UNCHANGED queue
     ELSE stack' = Moved("check", Head(queue)) /\ queue' = Tail(queue)
  /\ UNCHANGED <<canAdd, mode, interrupted, cpc, cancelled, finished, spc,
                 starts, order, early, stopped>>

\* An empty queue, or ShutdownNow, ends the update; what was polled is dropped.
CheckEnds ==
  /\ At("update", "check")
  /\ Top.of = None \/ mode = 2
  /\ stack' = Returned
  /\ UNCHANGED <<queue, canAdd, mode, interrupted, cpc, cancelled, finished,
                 spc, starts, order, early, stopped>>

\* Mutant: what was polled is run without looking whether there is anything.
CheckPassesAnything ==
  /\ At("update", "check")
  /\ mode # 2
  /\ stack' = Moved("run", Top.of)
  /\ UNCHANGED <<queue, canAdd, mode, interrupted, cpc, cancelled, finished,
                 spc, starts, order, early, stopped>>

CheckPasses ==
  /\ At("update", "check")
  /\ Top.of # None /\ mode # 2
  /\ stack' = Moved("run", Top.of)
  /\ UNCHANGED <<queue, canAdd, mode, interrupted, cpc, cancelled, finished,
                 spc, starts, order, early, stopped>>

\* sFutureCooperativeRunnable::Run begins; it calls the runnable unless the
\* future was cancelled.
RunBegins ==
  /\ At("update", "run")
  /\ stack' = Moved(IF Top.of \in cancelled THEN "skipped" ELSE "running", Top.of)
  /\ starts' = [starts EXCEPT ![Top.of] = @ + 1]
  /\ UNCHANGED <<queue, canAdd, mode, interrupted, cpc, cancelled, finished,
                 spc, order, early, stopped>>

RunReturns ==
  /\ At("update", "running") \/ At("update", "skipped")
  /\ stack' = Moved("ran", None)
  /\ finished' = finished \cup {Top.of}
  /\ UNCHANGED <<queue, canAdd, mode, interrupted, cpc, cancelled, spc, starts,
                 order, early, stopped>>

\* The update ends after a runnable: interrupted, shut down, or out of time.
UpdateEnds ==
  /\ At("update", "ran")
  /\ stack' = Returned
  /\ UNCHANGED <<queue, canAdd, mode, interrupted, cpc, cancelled, finished,
                 spc, starts, order, early, stopped>>

\* Mutant: the interruption is not looked at.
UpdateGoesOnAnyway ==
  /\ At("update", "ran")
  /\ mode = 0 /\ Top.time
  /\ stack' = Moved("poll", None)
  /\ UNCHANGED <<queue, canAdd, mode, interrupted, cpc, cancelled, finished,
                 spc, starts, order, early, stopped>>

UpdateGoesOn ==
  /\ At("update", "ran")
  /\ ~interrupted /\ mode = 0 /\ Top.time
  /\ stack' = Moved("poll", None)
  /\ UNCHANGED <<queue, canAdd, mode, interrupted, cpc, cancelled, finished,
                 spc, starts, order, early, stopped>>

\* InterruptUpdate, which any thread may call; usually the runnable that runs.
InterruptUpdate ==
  /\ stack # <<>>
  /\ interrupted' = TRUE
  /\ stack' = IF At("update", "running") THEN Pop \o <<[Top EXCEPT !.cut = TRUE]>>
              ELSE stack
  /\ UNCHANGED <<queue, canAdd, mode, cpc, cancelled, finished, spc, starts,
                 order, early, stopped>>

(***************************************************************************)
(* sFutureCooperativeRunnable::Wait.                                       *)
(***************************************************************************)

WaitBegins ==
  /\ \E r \in Runnables, timed \in BOOLEAN :
       /\ <<InRunnable, r>> \in Waits
       /\ cpc[r] = "accepted"
       /\ Calls([op |-> "wait", pc |-> "test", of |-> r, time |-> timed,
                 cut |-> FALSE])
  /\ UNCHANGED <<queue, canAdd, mode, interrupted, cpc, cancelled, finished,
                 spc, starts, order, early, stopped>>

\* The future is done or cancelled, or the time that the updates took, each
\* rounded down to milliseconds, adds up to the timeout.
WaitEnds ==
  /\ At("wait", "test")
  /\ Top.of \in finished \cup cancelled \/ Top.time
  /\ stack' = Returned
  /\ UNCHANGED <<queue, canAdd, mode, interrupted, cpc, cancelled, finished,
                 spc, starts, order, early, stopped>>

\* Mutant: the future does not see that it is done.
WaitUpdatesDone ==
  /\ At("wait", "test")
  /\ Top.of \notin cancelled
  /\ stack' = stack \o <<NewUpdate(FALSE)>>
  /\ interrupted' = FALSE
  /\ UNCHANGED <<queue, canAdd, mode, cpc, cancelled, finished, spc, starts,
                 order, early, stopped>>

\* Update(0) runs one runnable at most.
WaitUpdates ==
  /\ At("wait", "test")
  /\ Top.of \notin finished \cup cancelled
  /\ stack' = stack \o <<NewUpdate(FALSE)>>
  /\ interrupted' = FALSE
  /\ UNCHANGED <<queue, canAdd, mode, cpc, cancelled, finished, spc, starts,
                 order, early, stopped>>

(***************************************************************************)
(* Shutdown and ShutdownNow of the owner, ShutdownNow of the others.       *)
(***************************************************************************)

\* A shutdown that finds the mode it would set, or a stronger one, returns.
ShutdownBegins ==
  /\ \E op \in OwnerStops :
       /\ IF op = "Shutdown" THEN mode = 0 ELSE mode # 2
       /\ Calls([op |-> op, pc |-> "set", of |-> None, time |-> FALSE,
                 cut |-> FALSE])
  /\ UNCHANGED <<queue, canAdd, mode, interrupted, cpc, cancelled, finished,
                 spc, starts, order, early, stopped>>

\* Shutdown sets the mode and updates.  Its slice is its timeout, but the mode
\* ends the update after one runnable anyway.
ShutdownSets ==
  /\ At("Shutdown", "set")
  /\ mode' = 1
  /\ interrupted' = FALSE
  /\ \E slice \in BOOLEAN : stack' = Moved("update", None) \o <<NewUpdate(slice)>>
  /\ UNCHANGED <<queue, canAdd, cpc, cancelled, finished, spc, starts, order,
                 early, stopped>>

ShutdownNowSets ==
  /\ At("ShutdownNow", "set")
  /\ mode' = 2
  /\ stack' = Moved("clear", None)
  /\ UNCHANGED <<queue, canAdd, interrupted, cpc, cancelled, finished, spc,
                 starts, order, early, stopped>>

\* Mutant: the queue is cleared and stays open.
InvalidateKeepsOpen ==
  /\ queue' = <<>>
  /\ UNCHANGED canAdd

\* RunnableQueue::Invalidate.
InvalidateQueue ==
  /\ queue' = <<>>
  /\ canAdd' = FALSE

ShutdownReturns ==
  /\ At("Shutdown", "clear") \/ At("ShutdownNow", "clear")
  /\ InvalidateQueue
  /\ stack' = Returned
  /\ stopped' = TRUE
  /\ UNCHANGED <<mode, interrupted, cpc, cancelled, finished, spc, starts,
                 order, early>>

NowBegins(s) ==
  /\ spc[s] = "out"
  /\ mode # 2
  /\ spc' = [spc EXCEPT ![s] = "set"]
  /\ UNCHANGED <<queue, canAdd, mode, interrupted, stack, cpc, cancelled,
                 finished, starts, order, early, stopped>>

NowSets(s) ==
  /\ spc[s] = "set"
  /\ mode' = 2
  /\ spc' = [spc EXCEPT ![s] = "clear"]
  /\ UNCHANGED <<queue, canAdd, interrupted, stack, cpc, cancelled, finished,
                 starts, order, early, stopped>>

NowReturns(s) ==
  /\ spc[s] = "clear"
  /\ InvalidateQueue
  /\ spc' = [spc EXCEPT ![s] = "out"]
  /\ UNCHANGED <<mode, interrupted, stack, cpc, cancelled, finished, starts,
                 order, early, stopped>>

(***************************************************************************)
(* The whole executor.                                                     *)
(***************************************************************************)

\* What the owner does of itself once it is inside a call.
Owner ==
  \/ Poll \/ CheckEnds \/ CheckPasses \/ RunBegins \/ RunReturns
  \/ UpdateEnds \/ UpdateGoesOn \/ WaitEnds \/ WaitUpdates
  \/ ShutdownSets \/ ShutdownNowSets \/ ShutdownReturns

Submit(r)  == SubmitBegins(r) \/ SubmitAdds(r)
Stopper(s) == NowSets(s) \/ NowReturns(s)

Next ==
  \/ Owner \/ UpdateBegins \/ WaitBegins \/ ShutdownBegins \/ InterruptUpdate
  \/ \E r \in Runnables : Submit(r) \/ Cancel(r)
  \/ \E s \in Stoppers : NowBegins(s) \/ Stopper(s)

Spec == Init /\ [][Next]_vars

\* Every Run returns and every call goes on.  The application updates the main
\* executor in each turn of its loop (niAppLib.cpp).  Only runnables that make
\* calls for ever could keep a Run from returning: RunReturns is fair by itself
\* because they make each of their calls a bounded number of times.
Fairness ==
  /\ WF_vars(Owner)
  /\ SF_vars(RunReturns)
  /\ SF_vars(stack = <<>> /\ UpdateBegins)
  /\ \A r \in Runnables : WF_vars(SubmitAdds(r))
  /\ \A s \in Stoppers : WF_vars(Stopper(s))

FairSpec == Spec /\ Fairness

(***************************************************************************)
(* What the executor keeps.                                                *)
(***************************************************************************)

\* No runnable is started twice, however updates are nested.
RunsAtMostOnce == \A r \in Runnables : starts[r] <= 1

Held == {stack[i].of : i \in {j \in DOMAIN stack : stack[j].op = "update"}}

\* As long as nothing shuts the executor down, an accepted runnable is in the
\* queue, in the hand of an update on the stack, or done.
NothingDropped ==
  mode = 0 => \A r \in Runnables :
                cpc[r] = "accepted" => r \in Queued \cup Held \cup finished

\* Runnables start in the order in which they were accepted, those started by
\* nested updates included: nothing older than a started one is still queued.
StartsInOrder ==
  \A i, j \in DOMAIN order :
    i < j /\ order[i] \in Queued => starts[order[j]] = 0

\* An update whose runnable called InterruptUpdate runs nothing more, provided
\* that runnable makes no call afterwards: an Update or a Wait inside of it
\* takes the interruption back.
InterruptHolds ==
  \A i \in DOMAIN stack : stack[i].cut => stack[i].pc # "poll"

\* When Shutdown has returned, every runnable accepted before it was called has
\* run, if ShutdownNow was not called as well.
ShutdownDrains == stopped /\ mode = 1 => early \subseteq finished

\* No update on the stack has a runnable in its hand, or just ran one.
Idle == \A i \in DOMAIN stack :
          stack[i].op = "update" => stack[i].of = None /\ stack[i].pc # "ran"

\* Once a shutdown of the owner has returned and the updates around it are done
\* with their runnables, no update ever gets hold of a runnable again, although
\* other threads submit and the owner goes on to update.
StoppedStaysIdle == [][stopped /\ Idle => Idle']_vars

\* A Wait returns, if nobody shuts the executor down: each turn of its loop runs
\* a runnable, until its own ran.
WaitReturns == At("wait", "test") ~> stack = <<>> \/ mode # 0

\* An accepted runnable is executed, if nobody shuts the executor down.
AcceptedRuns ==
  \A r \in Runnables : cpc[r] = "accepted" ~> r \in finished \/ mode # 0

(***************************************************************************)
(* The abstract executor: any shutdown may throw runnables away, and       *)
(* GetIsTerminated waits for nothing.                                      *)
(***************************************************************************)

GetIsShutdown   == mode # 0
GetIsTerminated == mode # 0

StatusOf(r) ==
  IF cpc[r] = "adding" THEN "offered"
  ELSE IF cpc[r] # "accepted" THEN cpc[r]
  ELSE IF r \in finished THEN "done"
  ELSE IF starts[r] > 0 THEN "running"
  ELSE IF r \in Queued \cup Held THEN "pending"
  ELSE "dropped"

Abstract == INSTANCE Executor WITH
  DropOnShutdown <- TRUE,
  AwaitsRunning <- FALSE,
  status <- [r \in Runnables |-> StatusOf(r)],
  shut <- GetIsShutdown,
  now <- FALSE,                 \* not looked at if DropOnShutdown
  terminated <- GetIsTerminated

\* The cooperative executor is an executor, one whose shutdowns may throw away
\* what they should run and whose GetIsTerminated only repeats GetIsShutdown.
ImplementsExecutor == Abstract!Spec

\* What the documentation says of GetIsTerminated: all runnables have completed.
TerminatedMeansCompleted ==
  GetIsTerminated =>
    \A r \in Runnables : StatusOf(r) \notin {"pending", "running"}
=============================================================================
