----------------------------- MODULE ThreadPool -----------------------------
(***************************************************************************)
(* ExecutorThreadPool (niLang/src/Concurrent.cpp) with the RunnableQueue   *)
(* and the manual-reset ThreadEvent of each of its threads.                *)
(*                                                                         *)
(* Three kinds of threads share the pool: its own workers, which drain     *)
(* their queue, steal from the others and sleep; one thread for each       *)
(* runnable, which calls Execute (or Submit) with it; and the stoppers,    *)
(* which call Shutdown and ShutdownNow and drop the last reference.        *)
(*                                                                         *)
(* A step is what a thread does between two points where another one can   *)
(* change what it sees.  Each method of RunnableQueue holds the queue's    *)
(* mutex from its first to its last line, so it is one step; the counters  *)
(* are atomics, and each of their reads and writes is a step.              *)
(***************************************************************************)
EXTENDS Integers, Sequences, FiniteSets

CONSTANTS
  NumThreads,       \* threads of the pool, 1..64 in the code
  Runnables,        \* the runnables handed to the pool, each of them once
  Stoppers,         \* the threads that shut the pool down
  Calls,            \* the calls a stopper may make, a set of [op, timed]
  MaxCalls,         \* bound: the calls one stopper makes
  Posix,            \* TRUE on POSIX, where GetIsAlive only says "was started"
  SpuriousWakeups,  \* TRUE: pthread_cond_wait may return without a signal
  None              \* the NULL runnable

Workers == 0 .. NumThreads - 1
Ops     == {"Shutdown", "ShutdownNow", "Destroy"}

ASSUME PoolAssumption ==
  /\ NumThreads \in Nat \ {0}
  /\ IsFiniteSet(Runnables)
  /\ None \notin Runnables
  /\ Calls \subseteq [op : Ops, timed : BOOLEAN]
  /\ MaxCalls \in Nat
  /\ Posix \in BOOLEAN
  /\ SpuriousWakeups \in BOOLEAN

VARIABLES
  \* per worker: its queue, its event, its place in _Run
  queue,        \* RunnableQueue::_queue
  canAdd,       \* RunnableQueue::_canAdd
  hasRunnable,  \* RunnableQueue::_hasRunnable is set
  isBusy,       \* sThread::isBusy
  wpc,          \* where the worker is in _Run
  hand,         \* the runnable r it holds, or None
  victim,       \* its scan in _GetLeastAvailableQueue
  \* per runnable: the thread that calls Execute with it
  cpc,          \* where the call is
  choice,       \* its scan in _GetMostAvailableQueue
  \* per stopper
  spc,          \* where its call is
  call,         \* the call
  at,           \* the thread its loop has come to
  made,         \* the calls it has begun
  answer,       \* what its last call returned: "none", "yes" or "no"
  \* the pool
  mode,         \* _shutdownMode
  doneCount,    \* _doneCount
  doneEvent,    \* _event is set
  life,         \* "live", "dying" in the destructor, "freed" after it
  \* history
  starts,       \* how often each runnable was started
  finished,     \* the runnables whose Run returned
  sawNow,       \* the mode has been 2
  late,         \* how many runnables each worker took to run them since then
  early         \* the runnables accepted before any shutdown was called

queueVars   == <<queue, canAdd, hasRunnable>>
workerVars  == <<isBusy, wpc, hand, victim>>
callerVars  == <<cpc, choice>>
stopperVars == <<spc, call, at, made, answer>>
poolVars    == <<mode, doneCount, doneEvent, life>>
runVars     == <<starts, finished>>
historyVars == <<sawNow, late, early>>
vars == <<queueVars, workerVars, callerVars, stopperVars, poolVars, runVars,
          historyVars>>

WorkerPCs  == {"wait", "blocked", "reset", "check", "poll", "polled", "recheck",
               "look", "steal", "run", "running", "idle", "again", "count",
               "leaving", "ended"}
CallerPCs  == {"new", "look", "accepted", "refused"}
StopperPCs == {"out", "set", "loop", "wait", "blocked", "delete"}

CallRecord == [op : Ops, timed : BOOLEAN]
UpScan   == [next : 0 .. NumThreads, best : Workers, cost : Nat]
DownScan == [next : -1 .. NumThreads - 1, best : Workers, cost : Nat]

NoCall   == [op |-> "Shutdown", timed |-> FALSE]
MaxCost  == Cardinality(Runnables) + 2   \* TypeMax<tU32>: above every cost
\* Where the two scans begin: the first looks for the lowest cost, upwards from
\* thread 0, the second for the highest, downwards from the last thread.
ScanUp   == [next |-> 0, best |-> 0, cost |-> MaxCost]
ScanDown == [next |-> NumThreads - 1, best |-> NumThreads - 1, cost |-> 0]

Accepted == {r \in Runnables : cpc[r] = "accepted"}
Queued(w) == {queue[w][i] : i \in DOMAIN queue[w]}
Ended(w) == wpc[w] \in {"leaving", "ended"}

TypeOK ==
  /\ queue \in [Workers -> Seq(Runnables)]
  /\ canAdd \in [Workers -> BOOLEAN]
  /\ hasRunnable \in [Workers -> BOOLEAN]
  /\ isBusy \in [Workers -> BOOLEAN]
  /\ wpc \in [Workers -> WorkerPCs]
  /\ hand \in [Workers -> Runnables \cup {None}]
  /\ victim \in [Workers -> DownScan]
  /\ cpc \in [Runnables -> CallerPCs]
  /\ choice \in [Runnables -> UpScan]
  /\ spc \in [Stoppers -> StopperPCs]
  /\ call \in [Stoppers -> CallRecord]
  /\ at \in [Stoppers -> 0 .. NumThreads]
  /\ made \in [Stoppers -> Nat]
  /\ answer \in [Stoppers -> {"none", "yes", "no"}]
  /\ mode \in 0 .. 2
  /\ doneCount \in Nat
  /\ doneEvent \in BOOLEAN
  /\ life \in {"live", "dying", "freed"}
  /\ starts \in [Runnables -> Nat]
  /\ finished \subseteq Runnables
  /\ sawNow \in BOOLEAN
  /\ late \in [Workers -> Nat]
  /\ early \subseteq Runnables

\* The pool as its constructor leaves it: every thread has reported its queue.
Init ==
  /\ queue = [w \in Workers |-> <<>>]
  /\ canAdd = [w \in Workers |-> TRUE]
  /\ hasRunnable = [w \in Workers |-> FALSE]
  /\ isBusy = [w \in Workers |-> FALSE]
  /\ wpc = [w \in Workers |-> "wait"]
  /\ hand = [w \in Workers |-> None]
  /\ victim = [w \in Workers |-> ScanDown]
  /\ cpc = [r \in Runnables |-> "new"]
  /\ choice = [r \in Runnables |-> ScanUp]
  /\ spc = [s \in Stoppers |-> "out"]
  /\ call = [s \in Stoppers |-> NoCall]
  /\ at = [s \in Stoppers |-> 0]
  /\ made = [s \in Stoppers |-> 0]
  /\ answer = [s \in Stoppers |-> "none"]
  /\ mode = 0
  /\ doneCount = 0
  /\ doneEvent = FALSE
  /\ life = "live"
  /\ starts = [r \in Runnables |-> 0]
  /\ finished = {}
  /\ sawNow = FALSE
  /\ late = [w \in Workers |-> 0]
  /\ early = {}

(***************************************************************************)
(* Shared helpers.                                                         *)
(***************************************************************************)

\* The cost of a queue, as both scans compute it.
Cost(w) == Len(queue[w]) + (IF isBusy[w] THEN 1 ELSE 0)

\* Signal on the event of worker w: it is set, and the thread that already
\* waits on it is released, whatever becomes of the event afterwards.
SignalWorker(w) ==
  /\ hasRunnable' = [hasRunnable EXCEPT ![w] = TRUE]
  /\ wpc' = [wpc EXCEPT ![w] = IF @ = "blocked" THEN "reset" ELSE @]

\* A worker takes one step of _Run.
Goes(w, from, to) ==
  /\ life # "freed"
  /\ wpc[w] = from
  /\ wpc' = [wpc EXCEPT ![w] = to]

\* History: worker w takes a runnable that waited, and will run it.
Takes(w) == late' = IF sawNow THEN [late EXCEPT ![w] = @ + 1] ELSE late

\* Mutant: the last thread but one already sets _event.
CountDoneEarly ==
  /\ doneCount' = doneCount + 1
  /\ doneEvent' = (doneEvent \/ doneCount' = NumThreads - 1)

\* _doneCount goes up; the call that makes it the number of threads sets
\* _event, and whoever waits on it returns true.
CountDone ==
  /\ doneCount' = doneCount + 1
  /\ doneEvent' = (doneEvent \/ doneCount' = NumThreads)

(***************************************************************************)
(* Execute and Submit, in the thread that calls them with runnable r.      *)
(***************************************************************************)

ExecuteRefused(r) ==
  /\ life = "live"
  /\ cpc[r] = "new"
  /\ mode # 0
  /\ cpc' = [cpc EXCEPT ![r] = "refused"]
  /\ UNCHANGED <<queueVars, workerVars, choice, stopperVars, poolVars, runVars,
                 historyVars>>

ExecuteBegin(r) ==
  /\ life = "live"
  /\ cpc[r] = "new"
  /\ mode = 0
  /\ cpc' = [cpc EXCEPT ![r] = "look"]
  /\ UNCHANGED <<queueVars, workerVars, choice, stopperVars, poolVars, runVars,
                 historyVars>>

\* One turn of the loop of _GetMostAvailableQueue: the lowest cost, and the
\* first queue that has it.
ExecuteLook(r) ==
  /\ cpc[r] = "look"
  /\ LET c == choice[r] IN
     /\ c.next < NumThreads
     /\ choice' = [choice EXCEPT ![r] =
          IF Cost(c.next) < c.cost
          THEN [next |-> c.next + 1, best |-> c.next, cost |-> Cost(c.next)]
          ELSE [c EXCEPT !.next = @ + 1]]
  /\ UNCHANGED <<queueVars, workerVars, cpc, stopperVars, poolVars, runVars,
                 historyVars>>

\* RunnableQueue::Add.  The bound on its items is ~0 and is never met.
ExecuteAdd(r) ==
  /\ cpc[r] = "look"
  /\ choice[r].next = NumThreads
  /\ LET w == choice[r].best IN
     IF canAdd[w]
     THEN /\ queue' = [queue EXCEPT ![w] = Append(@, r)]
          /\ SignalWorker(w)
          /\ cpc' = [cpc EXCEPT ![r] = "accepted"]
          /\ early' = IF \A s \in Stoppers : made[s] = 0
                      THEN early \cup {r} ELSE early
     ELSE /\ cpc' = [cpc EXCEPT ![r] = "refused"]
          /\ UNCHANGED <<queue, hasRunnable, wpc, early>>
  /\ choice' = [choice EXCEPT ![r] = ScanUp]
  /\ UNCHANGED <<canAdd, isBusy, hand, victim, stopperVars, poolVars, runVars,
                 sawNow, late>>

(***************************************************************************)
(* The workers: _Run.                                                      *)
(***************************************************************************)

\* WaitForRunnable(eInvalidHandle) finds the event set.
WaitPasses(w) ==
  /\ hasRunnable[w]
  /\ Goes(w, "wait", "reset")
  /\ UNCHANGED <<queueVars, isBusy, hand, victim, callerVars, stopperVars,
                 poolVars, runVars, historyVars>>

WaitBlocks(w) ==
  /\ ~hasRunnable[w]
  /\ Goes(w, "wait", "blocked")
  /\ UNCHANGED <<queueVars, isBusy, hand, victim, callerVars, stopperVars,
                 poolVars, runVars, historyVars>>

\* The wait is one pthread_cond_wait that does not look at the flag again.
WakeSpuriously(w) ==
  /\ SpuriousWakeups
  /\ Goes(w, "blocked", "reset")
  /\ UNCHANGED <<queueVars, isBusy, hand, victim, callerVars, stopperVars,
                 poolVars, runVars, historyVars>>

ResetOwnEvent(w) ==
  /\ Goes(w, "reset", "check")
  /\ hasRunnable' = [hasRunnable EXCEPT ![w] = FALSE]
  /\ UNCHANGED <<queue, canAdd, isBusy, hand, victim, callerVars, stopperVars,
                 poolVars, runVars, historyVars>>

\* Mutant: an orderly shutdown clears the queue too.
CheckShut(w) ==
  /\ mode # 0
  /\ Goes(w, "check", "count")
  /\ canAdd' = [canAdd EXCEPT ![w] = FALSE]
  /\ queue' = [queue EXCEPT ![w] = <<>>]
  /\ UNCHANGED <<hasRunnable, isBusy, hand, victim, callerVars, stopperVars,
                 poolVars, runVars, historyVars>>

\* Mode 2: the queue is closed and cleared.  Otherwise the worker is busy.
CheckNow(w) ==
  /\ mode = 2
  /\ Goes(w, "check", "count")
  /\ canAdd' = [canAdd EXCEPT ![w] = FALSE]
  /\ queue' = [queue EXCEPT ![w] = <<>>]
  /\ UNCHANGED <<hasRunnable, isBusy, hand, victim, callerVars, stopperVars,
                 poolVars, runVars, historyVars>>

CheckPasses(w) ==
  /\ mode # 2
  /\ Goes(w, "check", "poll")
  /\ isBusy' = [isBusy EXCEPT ![w] = TRUE]
  /\ UNCHANGED <<queueVars, hand, victim, callerVars, stopperVars, poolVars,
                 runVars, historyVars>>

\* RunnableQueue::Poll: resets the event when it takes the last runnable, not
\* when it finds none.
Poll(w) ==
  /\ Goes(w, "poll", "polled")
  /\ IF queue[w] = <<>>
     THEN /\ hand' = [hand EXCEPT ![w] = None]
          /\ UNCHANGED <<queue, hasRunnable>>
     ELSE /\ hand' = [hand EXCEPT ![w] = Head(queue[w])]
          /\ queue' = [queue EXCEPT ![w] = Tail(@)]
          /\ hasRunnable' = IF Tail(queue[w]) = <<>>
                            THEN [hasRunnable EXCEPT ![w] = FALSE]
                            ELSE hasRunnable
  /\ UNCHANGED <<canAdd, isBusy, victim, callerVars, stopperVars, poolVars,
                 runVars, historyVars>>

\* Mutant: what was polled is run without looking at the mode.
PolledOneAnyMode(w) ==
  /\ hand[w] # None
  /\ Goes(w, "polled", "run")
  /\ Takes(w)
  /\ UNCHANGED <<queueVars, isBusy, hand, victim, callerVars, stopperVars,
                 poolVars, runVars, sawNow, early>>

\* Mutant: what was polled is run without looking whether there is anything.
PolledAnything(w) ==
  /\ mode # 2
  /\ Goes(w, "polled", "run")
  /\ Takes(w)
  /\ UNCHANGED <<queueVars, isBusy, hand, victim, callerVars, stopperVars,
                 poolVars, runVars, sawNow, early>>

PolledOne(w) ==
  /\ hand[w] # None
  /\ mode # 2
  /\ Goes(w, "polled", "run")
  /\ Takes(w)
  /\ UNCHANGED <<queueVars, isBusy, hand, victim, callerVars, stopperVars,
                 poolVars, runVars, sawNow, early>>

\* Mutant: any shutdown sends a worker that polled a runnable to steal another.
PolledShut(w) ==
  /\ hand[w] = None \/ mode # 0
  /\ Goes(w, "polled", "recheck")
  /\ UNCHANGED <<queueVars, isBusy, hand, victim, callerVars, stopperVars,
                 poolVars, runVars, historyVars>>

PolledNone(w) ==
  /\ hand[w] = None \/ mode = 2
  /\ Goes(w, "polled", "recheck")
  /\ UNCHANGED <<queueVars, isBusy, hand, victim, callerVars, stopperVars,
                 poolVars, runVars, historyVars>>

\* The mode is read again: 2 leaves the loop and drops what was polled.
RecheckNow(w) ==
  /\ mode = 2
  /\ Goes(w, "recheck", "idle")
  /\ hand' = [hand EXCEPT ![w] = None]
  /\ UNCHANGED <<queueVars, isBusy, victim, callerVars, stopperVars, poolVars,
                 runVars, historyVars>>

\* Anything else goes on to steal, and r is overwritten by what is stolen.
RecheckPasses(w) ==
  /\ mode # 2
  /\ Goes(w, "recheck", "look")
  /\ hand' = [hand EXCEPT ![w] = None]
  /\ UNCHANGED <<queueVars, isBusy, victim, callerVars, stopperVars, poolVars,
                 runVars, historyVars>>

\* One turn of the loop of _GetLeastAvailableQueue, the call whose result is
\* used: the highest cost, and the last queue that has it.
StealLook(w) ==
  /\ LET v == victim[w] IN
     /\ v.next >= 0
     /\ victim' = [victim EXCEPT ![w] =
          IF Cost(v.next) > v.cost
          THEN [next |-> v.next - 1, best |-> v.next, cost |-> Cost(v.next)]
          ELSE [v EXCEPT !.next = @ - 1]]
  /\ Goes(w, "look", "look")
  /\ UNCHANGED <<queueVars, isBusy, hand, callerVars, stopperVars, poolVars,
                 runVars, historyVars>>

\* Mutant: the thief takes the head of the queue and leaves it there.
StealPeek(w) ==
  /\ victim[w].next = -1
  /\ LET v == victim[w].best IN
     /\ hasRunnable' = [hasRunnable EXCEPT ![v] = FALSE]
     /\ IF queue[v] = <<>>
        THEN Goes(w, "look", "idle") /\ UNCHANGED <<hand, late>>
        ELSE /\ Goes(w, "look", "run") /\ Takes(w)
             /\ hand' = [hand EXCEPT ![w] = Head(queue[v])]
  /\ victim' = [victim EXCEPT ![w] = ScanDown]
  /\ UNCHANGED <<queue, canAdd, isBusy, callerVars, stopperVars, poolVars,
                 runVars, sawNow, early>>

\* RunnableQueue::_StealPoll: resets the victim's event before it looks.
StealPoll(w) ==
  /\ victim[w].next = -1
  /\ LET v == victim[w].best IN
     /\ hasRunnable' = [hasRunnable EXCEPT ![v] = FALSE]
     /\ IF queue[v] = <<>>
        THEN /\ Goes(w, "look", "idle")
             /\ UNCHANGED <<queue, hand, late>>
        ELSE /\ Goes(w, "look", "run")
             /\ Takes(w)
             /\ hand' = [hand EXCEPT ![w] = Head(queue[v])]
             /\ queue' = [queue EXCEPT ![v] = Tail(@)]
  /\ victim' = [victim EXCEPT ![w] = ScanDown]
  /\ UNCHANGED <<canAdd, isBusy, callerVars, stopperVars, poolVars,
                 runVars, sawNow, early>>

RunBegins(w) ==
  /\ Goes(w, "run", "running")
  /\ starts' = [starts EXCEPT ![hand[w]] = @ + 1]
  /\ UNCHANGED <<queueVars, isBusy, hand, victim, callerVars, stopperVars,
                 poolVars, finished, historyVars>>

\* Run returns (sFutureRunnable::Run has signalled its future by then).
RunReturns(w) ==
  /\ Goes(w, "running", "poll")
  /\ finished' = finished \cup {hand[w]}
  /\ hand' = [hand EXCEPT ![w] = None]
  /\ UNCHANGED <<queueVars, isBusy, victim, callerVars, stopperVars, poolVars,
                 starts, historyVars>>

\* Mutant: the event is reset after the loop instead of before it.
BecomeIdleResets(w) ==
  /\ Goes(w, "idle", "again")
  /\ isBusy' = [isBusy EXCEPT ![w] = FALSE]
  /\ hasRunnable' = [hasRunnable EXCEPT ![w] = FALSE]
  /\ UNCHANGED <<queue, canAdd, hand, victim, callerVars, stopperVars, poolVars,
                 runVars, historyVars>>

BecomeIdle(w) ==
  /\ Goes(w, "idle", "again")
  /\ isBusy' = [isBusy EXCEPT ![w] = FALSE]
  /\ UNCHANGED <<queueVars, hand, victim, callerVars, stopperVars, poolVars,
                 runVars, historyVars>>

\* Mutant: only ShutdownNow ends the thread.
AgainOrEndNow(w) ==
  /\ Goes(w, "again", IF mode = 2 THEN "count" ELSE "wait")
  /\ UNCHANGED <<queueVars, isBusy, hand, victim, callerVars, stopperVars,
                 poolVars, runVars, historyVars>>

\* After the loop, any shutdown ends the thread.
AgainOrEnd(w) ==
  /\ Goes(w, "again", IF mode # 0 THEN "count" ELSE "wait")
  /\ UNCHANGED <<queueVars, isBusy, hand, victim, callerVars, stopperVars,
                 poolVars, runVars, historyVars>>

\* _IncDoneCountForShutdown at the end of the thread.
WorkerCounts(w) ==
  /\ Goes(w, "count", "leaving")
  /\ CountDone
  /\ UNCHANGED <<queueVars, isBusy, hand, victim, callerVars, stopperVars, mode,
                 life, runVars, historyVars>>

\* The thread is gone for the operating system; it touches nothing of the pool.
WorkerExits(w) ==
  /\ wpc[w] = "leaving"
  /\ wpc' = [wpc EXCEPT ![w] = "ended"]
  /\ UNCHANGED <<queueVars, isBusy, hand, victim, callerVars, stopperVars,
                 poolVars, runVars, historyVars>>

(***************************************************************************)
(* The stoppers: Shutdown, ShutdownNow, and the destructor, which calls    *)
(* ShutdownNow through Invalidate with no timeout and then frees _threads. *)
(***************************************************************************)

\* The last reference is dropped only when nobody else uses the pool.
LastReference(s) ==
  /\ \A r \in Runnables : cpc[r] # "look"
  /\ \A t \in Stoppers \ {s} : spc[t] = "out"

\* A call begins with its reading of the mode: Shutdown sets it only if it is
\* 0, ShutdownNow returns at once if it is 2.
CallBegins(s, c) ==
  /\ life = "live"
  /\ spc[s] = "out"
  /\ made[s] < MaxCalls
  /\ c.op = "Destroy" => LastReference(s)
  /\ made' = [made EXCEPT ![s] = @ + 1]
  /\ life' = IF c.op = "Destroy" THEN "dying" ELSE life
  /\ UNCHANGED <<queueVars, workerVars, callerVars, at, mode, doneCount,
                 doneEvent, runVars, historyVars>>

BeginShutdown(s, c) ==
  /\ c.op = "Shutdown"
  /\ CallBegins(s, c)
  /\ spc' = [spc EXCEPT ![s] = IF mode = 0 THEN "set" ELSE "loop"]
  /\ call' = [call EXCEPT ![s] = c]
  /\ UNCHANGED answer

BeginShutdownNow(s, c) ==
  /\ c.op \in {"ShutdownNow", "Destroy"}
  /\ mode # 2
  /\ CallBegins(s, c)
  /\ spc' = [spc EXCEPT ![s] = "set"]
  /\ call' = [call EXCEPT ![s] = c]
  /\ UNCHANGED answer

\* The call c of stopper s returns a; the destructor goes on to free the pool.
Returns(s, c, a) ==
  /\ spc' = [spc EXCEPT ![s] = IF c.op = "Destroy" THEN "delete" ELSE "out"]
  /\ call' = [call EXCEPT ![s] = NoCall]
  /\ answer' = [answer EXCEPT ![s] = a]

AlreadyShutdownNow(s, c) ==
  /\ c.op \in {"ShutdownNow", "Destroy"}
  /\ mode = 2
  /\ CallBegins(s, c)
  /\ Returns(s, c, "yes")

SetMode(s) ==
  /\ spc[s] = "set"
  /\ mode' = IF call[s].op = "Shutdown" THEN 1 ELSE 2
  /\ sawNow' = (sawNow \/ mode' = 2)
  /\ spc' = [spc EXCEPT ![s] = "loop"]
  /\ UNCHANGED <<queueVars, workerVars, callerVars, call, at, made, answer,
                 doneCount, doneEvent, life, runVars, late, early>>

\* iThread::GetIsAlive of worker w.
GetIsAlive(w) == Posix \/ wpc[w] # "ended"

\* One turn of the loop over _threads: a thread that is not alive is counted as
\* done, an other one is signalled.
LoopCounts(s) ==
  /\ spc[s] = "loop"
  /\ at[s] \in Workers
  /\ ~GetIsAlive(at[s])
  /\ CountDone
  /\ at' = [at EXCEPT ![s] = @ + 1]
  /\ UNCHANGED <<queueVars, workerVars, callerVars, spc, call, made, answer,
                 mode, life, runVars, historyVars>>

LoopSignals(s) ==
  /\ spc[s] = "loop"
  /\ at[s] \in Workers
  /\ GetIsAlive(at[s])
  /\ SignalWorker(at[s])
  /\ at' = [at EXCEPT ![s] = @ + 1]
  /\ UNCHANGED <<queue, canAdd, isBusy, hand, victim, callerVars, spc, call,
                 made, answer, poolVars, runVars, historyVars>>

LoopEnds(s) ==
  /\ spc[s] = "loop"
  /\ at[s] = NumThreads
  /\ spc' = [spc EXCEPT ![s] = "wait"]
  /\ at' = [at EXCEPT ![s] = 0]
  /\ UNCHANGED <<queueVars, workerVars, callerVars, call, made, answer, poolVars,
                 runVars, historyVars>>

\* _event.Wait: the event is set, or the thread blocks on it.
WaitReturns(s) ==
  /\ spc[s] \in {"wait", "blocked"}
  /\ doneEvent
  /\ Returns(s, call[s], "yes")
  /\ UNCHANGED <<queueVars, workerVars, callerVars, at, made, poolVars, runVars,
                 historyVars>>

StopperBlocks(s) ==
  /\ spc[s] = "wait"
  /\ ~doneEvent
  /\ spc' = [spc EXCEPT ![s] = "blocked"]
  /\ UNCHANGED <<queueVars, workerVars, callerVars, call, at, made, answer,
                 poolVars, runVars, historyVars>>

WaitTimesOut(s) ==
  /\ spc[s] = "blocked"
  /\ call[s].timed
  /\ Returns(s, call[s], "no")
  /\ UNCHANGED <<queueVars, workerVars, callerVars, at, made, poolVars, runVars,
                 historyVars>>

\* A wait without a signal returns WAIT_OBJECT_0 all the same.
WaitReturnsSpuriously(s) ==
  /\ SpuriousWakeups
  /\ spc[s] = "blocked"
  /\ ~doneEvent
  /\ Returns(s, call[s], "yes")
  /\ UNCHANGED <<queueVars, workerVars, callerVars, at, made, poolVars, runVars,
                 historyVars>>

\* delete[] _threads, and the pool's own memory.
DeleteThreads(s) ==
  /\ spc[s] = "delete"
  /\ spc' = [spc EXCEPT ![s] = "out"]
  /\ life' = "freed"
  /\ UNCHANGED <<queueVars, workerVars, callerVars, call, at, made, answer, mode,
                 doneCount, doneEvent, runVars, historyVars>>

(***************************************************************************)
(* The whole pool.                                                         *)
(***************************************************************************)

Caller(r) ==
  ExecuteRefused(r) \/ ExecuteBegin(r) \/ ExecuteLook(r) \/ ExecuteAdd(r)

\* A step of worker w that the code takes of itself, so that it is fair.
Worker(w) ==
  \/ WaitPasses(w) \/ WaitBlocks(w) \/ ResetOwnEvent(w)
  \/ CheckNow(w) \/ CheckPasses(w)
  \/ Poll(w) \/ PolledOne(w) \/ PolledNone(w)
  \/ RecheckNow(w) \/ RecheckPasses(w) \/ StealLook(w) \/ StealPoll(w)
  \/ RunBegins(w) \/ RunReturns(w)
  \/ BecomeIdle(w) \/ AgainOrEnd(w) \/ WorkerCounts(w) \/ WorkerExits(w)

\* The steps of a call that is under way.
Stopper(s) ==
  \/ SetMode(s) \/ LoopCounts(s) \/ LoopSignals(s) \/ LoopEnds(s)
  \/ WaitReturns(s) \/ StopperBlocks(s) \/ WaitTimesOut(s) \/ DeleteThreads(s)

StopperBegins(s) ==
  \E c \in Calls : BeginShutdown(s, c) \/ BeginShutdownNow(s, c)
                   \/ AlreadyShutdownNow(s, c)

Next ==
  \/ \E r \in Runnables : Caller(r)
  \/ \E w \in Workers : Worker(w) \/ WakeSpuriously(w)
  \/ \E s \in Stoppers : Stopper(s) \/ StopperBegins(s)
                         \/ WaitReturnsSpuriously(s)

Spec == Init /\ [][Next]_vars

\* Every thread keeps running, a call that began goes on, and every Run
\* returns.  Nobody is obliged to call, and a wakeup may never be spurious.
Fairness ==
  /\ \A w \in Workers : WF_vars(Worker(w))
  /\ \A r \in Runnables : WF_vars(ExecuteLook(r) \/ ExecuteAdd(r))
  /\ \A s \in Stoppers : WF_vars(Stopper(s))

FairSpec == Spec /\ Fairness
(***************************************************************************)
(* What the pool keeps.                                                    *)
(***************************************************************************)

\* No runnable is started twice, although the owner of a queue and any number
\* of thieves take from it while others scan it.
RunsAtMostOnce == \A r \in Runnables : starts[r] <= 1

\* Unless ShutdownNow was asked for, an accepted runnable is always somewhere:
\* in a queue, in the hands of a worker that will run it, or finished.
NothingDropped ==
  ~sawNow => \A r \in Accepted :
               \/ r \in finished
               \/ \E w \in Workers : r \in Queued(w) \/ hand[w] = r

\* GetIsTerminated is not true before every worker has left its loop, nor while
\* one of them still holds a runnable (_doneCount counts each thread once).
TerminatedMeansEnded ==
  doneEvent => \A w \in Workers : Ended(w) /\ hand[w] = None

\* The destructor does not free _threads and the pool under a running worker.
FreedAfterEnd == life = "freed" => \A w \in Workers : Ended(w)

\* A true answer of Shutdown or ShutdownNow means that the pool terminated.
YesMeansTerminated ==
  \A s \in Stoppers : answer[s] = "yes" => \A w \in Workers : Ended(w)

\* Once ShutdownNow has set its mode, every worker takes one more of the waiting
\* runnables at most: it reads the mode before it steals, and not after.
NowHaltsWaiting == \A w \in Workers : late[w] <= 1

\* The promise of ShutdownNow's documentation: once its mode is set, no runnable
\* that waits in a queue is taken to be run.
NowHaltsAllWaiting == \A w \in Workers : late[w] = 0

\* At termination every runnable accepted before any shutdown was called has
\* run, if the shutdown was an orderly one.
EarlyRunsBeforeTermination ==
  doneEvent /\ ~sawNow => early \subseteq finished

\* An accepted runnable is eventually executed, unless somebody shuts the pool
\* down: no wakeup that announces it is lost to a worker that takes something
\* else, steals, or is about to sleep.
AcceptedRuns ==
  \A r \in Runnables : cpc[r] = "accepted" ~> r \in finished \/ mode # 0

\* A call of Shutdown or ShutdownNow returns, even one without a timeout.
ShutdownReturns == \A s \in Stoppers : spc[s] = "loop" ~> spc[s] = "out"

(***************************************************************************)
(* Why they hold: the inductive invariant of the proofs.                   *)
(***************************************************************************)

\* What a worker may hold depends on where it is in _Run.
HandsMatch ==
  \A w \in Workers :
    /\ hand[w] # None => wpc[w] \in {"polled", "recheck", "run", "running"}
    /\ wpc[w] \in {"run", "running"} => hand[w] # None

\* Every slot of a queue and every hand holds a runnable of its own, accepted
\* and not yet started, except that the hand of a running worker started it.
OnePlace ==
  /\ \A w \in Workers : \A i \in DOMAIN queue[w] :
       cpc[queue[w][i]] = "accepted" /\ starts[queue[w][i]] = 0
  /\ \A v, w \in Workers : \A i \in DOMAIN queue[v], j \in DOMAIN queue[w] :
       queue[v][i] = queue[w][j] => v = w /\ i = j
  /\ \A v, w \in Workers : \A i \in DOMAIN queue[v] : queue[v][i] # hand[w]
  /\ \A v, w \in Workers : hand[v] = hand[w] /\ hand[v] # None => v = w
  /\ \A w \in Workers : hand[w] # None =>
       /\ cpc[hand[w]] = "accepted"
       /\ starts[hand[w]] = IF wpc[w] = "running" THEN 1 ELSE 0
       /\ hand[w] \notin finished

\* A runnable that was started is in a running worker's hand, or finished; only
\* accepted runnables are started.
StartsMatch ==
  \A r \in Runnables :
    /\ starts[r] \in {0, 1}
    /\ starts[r] = 1 => /\ cpc[r] = "accepted"
                        /\ r \in finished \/ \E w \in Workers : hand[w] = r
    /\ r \in finished => starts[r] = 1

\* Only ShutdownNow lets a worker hold a runnable it is about to drop.
NowMatches ==
  /\ mode = 2 => sawNow
  /\ sawNow => mode # 0
  /\ \A w \in Workers : wpc[w] = "recheck" /\ hand[w] # None => sawNow

\* Where GetIsAlive never says that a thread ended, _doneCount counts exactly
\* the workers that ended, and some shutdown was asked for before any did.
CountMatches ==
  Posix =>
    /\ doneCount = Cardinality({w \in Workers : Ended(w)})
    /\ doneEvent <=> doneCount = NumThreads
    /\ \A w \in Workers : wpc[w] \in {"count", "leaving", "ended"} => mode # 0

PoolInvariant ==
  HandsMatch /\ OnePlace /\ StartsMatch /\ NowMatches /\ NothingDropped
    /\ CountMatches

(***************************************************************************)
(* The abstract executor the pool implements.                              *)
(***************************************************************************)

\* A runnable's place in the life that Executor describes.
StatusOf(r) ==
  IF cpc[r] = "look" THEN "offered"
  ELSE IF cpc[r] # "accepted" THEN cpc[r]
  ELSE IF r \in finished THEN "done"
  ELSE IF starts[r] > 0 THEN "running"
  ELSE IF \E w \in Workers : r \in Queued(w) \/ hand[w] = r THEN "pending"
  ELSE "dropped"

Abstract == INSTANCE Executor WITH
  DropOnShutdown <- FALSE,
  AwaitsRunning <- TRUE,
  status <- [r \in Runnables |-> StatusOf(r)],
  shut <- (mode # 0),
  now <- sawNow,
  terminated <- doneEvent

\* The pool is an executor: a runnable is refused only by a shut pool, started
\* once, thrown away only after ShutdownNow, and never started or left running
\* once GetIsTerminated is true.
ImplementsExecutor == Abstract!Spec
=============================================================================
