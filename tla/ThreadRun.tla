------------------------------ MODULE ThreadRun ------------------------------
(***************************************************************************)
(* ThreadRun of iConcurrent on POSIX: the future sThreadRun                *)
(* (niLang/src/Concurrent.cpp), its ThreadImpl (niLang/src/Threads.cpp),   *)
(* and the auto-reset events of UnixThread.h by which they are joined.     *)
(*                                                                         *)
(* The threads of the program that hold the future are the waiters; one of *)
(* them creates it, and its first AddRef starts the native thread.  That   *)
(* thread signals the event mThreadProcCompletedEvent twice: once for      *)
(* Start, once for Join.  An auto-reset event has no memory of how often   *)
(* it was signalled, and a wait that times out clears it too.              *)
(***************************************************************************)
EXTENDS Integers, FiniteSets

CONSTANTS
  Waiters,   \* the threads that hold the future
  Starter,   \* the one that creates it
  MaxWaits,  \* bound: the calls of Wait one waiter makes
  Serial,    \* TRUE: the program makes one call of Wait at a time
  Patient,   \* TRUE: a reference is dropped only after Wait returned true
  Thread     \* the native thread, as a holder of references

ASSUME ThreadRunAssumption ==
  /\ IsFiniteSet(Waiters)
  /\ Starter \in Waiters
  /\ MaxWaits \in Nat
  /\ Serial \in BOOLEAN
  /\ Patient \in BOOLEAN
  /\ Thread \notin Waiters

VARIABLES
  tpc,        \* where the native thread is in _RunThread and _ThreadProc
  handle,     \* ThreadImpl::mHandle is not 0
  completed,  \* ThreadImpl::mThreadProcCompletedEvent is set
  started,    \* sThreadRun::meventStarted is set
  holders,    \* who holds references to the future
  implRefs,   \* who holds references to the ThreadImpl: "future", "thread"
  ran,        \* the runnable's Run returned and mRet is set
  pc,         \* where each waiter is
  want,       \* what the wait on an event is for
  timed,      \* the call of Wait has a timeout
  waits,      \* the calls of Wait begun
  answer,     \* what the last call of Wait returned
  \* history
  after,      \* the last call of Wait began after the thread had ended
  joins,      \* how often pthread_join was called
  touched     \* a ThreadImpl that was freed had its count changed

threadVars == <<tpc, ran>>
eventVars  == <<completed, started>>
refVars    == <<handle, holders, implRefs>>
waiterVars == <<pc, want, timed, waits, answer>>
histVars   == <<after, joins, touched>>
vars == <<threadVars, eventVars, refVars, waiterVars, histVars>>

TypeOK ==
  /\ tpc \in {"none", "born", "signalled", "held", "running", "ran", "deref",
              "addref", "signal", "drop", "gone"}
  /\ handle \in BOOLEAN
  /\ handle => tpc # "none"
  /\ completed \in BOOLEAN
  /\ started \in BOOLEAN
  /\ holders \subseteq Waiters \cup {Thread}
  /\ implRefs \subseteq {"future", "thread"}
  /\ ran \in BOOLEAN
  /\ pc \in [Waiters -> {"new", "out", "wait", "blocked", "woken", "expired",
                         "join", "joining", "close"}]
  /\ want \in [Waiters -> {"id", "started", "done"}]
  /\ timed \in [Waiters -> BOOLEAN]
  /\ waits \in [Waiters -> 0 .. MaxWaits]
  /\ answer \in [Waiters -> {"none", "yes", "no"}]
  /\ after \in [Waiters -> BOOLEAN]
  /\ joins \in Nat
  /\ touched \in BOOLEAN

\* The future is made, its first reference is about to be counted.
Init ==
  /\ tpc = "none"
  /\ handle = FALSE
  /\ completed = FALSE
  /\ started = FALSE
  /\ holders = {}
  /\ implRefs = {"future"}
  /\ ran = FALSE
  /\ pc = [w \in Waiters |-> IF w = Starter THEN "new" ELSE "out"]
  /\ want = [w \in Waiters |-> IF w = Starter THEN "id" ELSE "done"]
  /\ timed = [w \in Waiters |-> FALSE]
  /\ waits = [w \in Waiters |-> 0]
  /\ answer = [w \in Waiters |-> "none"]
  /\ after = [w \in Waiters |-> FALSE]
  /\ joins = 0
  /\ touched = FALSE

(***************************************************************************)
(* Waiting on an auto-reset event, as UnixThread.h does it.                *)
(***************************************************************************)

\* The event of want v: Start and Join wait on the same one.
IsSet(v) == IF v = "started" THEN started ELSE completed

\* The waiters that sleep on the event of want v wake, all of them.
Wake(V) ==
  pc' = [w \in Waiters |->
           IF pc[w] = "blocked" /\ want[w] \in V THEN "woken" ELSE pc[w]]

\* Any return from the wait clears the event.
ClearEvent(v) ==
  IF v = "started" THEN started' = FALSE /\ UNCHANGED completed
  ELSE completed' = FALSE /\ UNCHANGED started

\* What follows a wait that returned true: Start goes on to meventStarted, then
\* the new future is shared; Join goes on to pthread_join.
Following == [id |-> "wait", started |-> "out", done |-> "join"]
Proceed(w) ==
  /\ pc' = [pc EXCEPT ![w] = Following[want[w]]]
  /\ want' = [want EXCEPT ![w] = IF @ = "id" THEN "started" ELSE "done"]
  /\ holders' = IF want[w] = "started" THEN holders \cup Waiters ELSE holders

WaitPasses(w) ==
  /\ pc[w] = "wait" /\ IsSet(want[w])
  /\ ClearEvent(want[w])
  /\ Proceed(w)
  /\ UNCHANGED <<threadVars, handle, implRefs, timed, waits, answer, histVars>>

WaitBlocks(w) ==
  /\ pc[w] = "wait" /\ ~IsSet(want[w])
  /\ pc' = [pc EXCEPT ![w] = "blocked"]
  /\ UNCHANGED <<threadVars, eventVars, refVars, want, timed, waits, answer,
                 histVars>>

\* pthread_cond_wait and pthread_cond_timedwait may return without a signal.
WakeSpuriously(w) ==
  /\ pc[w] = "blocked"
  /\ pc' = [pc EXCEPT ![w] = "woken"]
  /\ UNCHANGED <<threadVars, eventVars, refVars, want, timed, waits, answer,
                 histVars>>

\* The mutex is had again; the event's flag is not looked at.
WaitEnds(w) ==
  /\ pc[w] = "woken"
  /\ ClearEvent(want[w])
  /\ Proceed(w)
  /\ UNCHANGED <<threadVars, handle, implRefs, timed, waits, answer, histVars>>

\* Only Wait times out: Start panics after 5 s, which counts as never.
TimesOut(w) ==
  /\ pc[w] = "blocked" /\ want[w] = "done"
  /\ pc' = [pc EXCEPT ![w] = "expired"]
  /\ UNCHANGED <<threadVars, eventVars, refVars, want, timed, waits, answer,
                 histVars>>

ReturnsNo(w) ==
  /\ pc[w] = "expired"
  /\ ClearEvent(want[w])
  /\ pc' = [pc EXCEPT ![w] = "out"]
  /\ answer' = [answer EXCEPT ![w] = "no"]
  /\ UNCHANGED <<threadVars, refVars, want, timed, waits, histVars>>

(***************************************************************************)
(* The waiters: AddRef and Start, Wait and Join, Release.                  *)
(***************************************************************************)

\* Mutant: a failed pthread_create goes unnoticed.
StartFails(w) ==
  /\ pc[w] = "new"
  /\ holders' = {w}
  /\ completed' = FALSE
  /\ handle' = TRUE
  /\ pc' = [pc EXCEPT ![w] = "wait"]
  /\ UNCHANGED <<tpc, started, implRefs, ran, want, timed, waits, answer,
                 histVars>>

\* Start resets the event, creates the thread and waits for its identifier.
Start(w) ==
  /\ pc[w] = "new"
  /\ holders' = {w}
  /\ completed' = FALSE
  /\ tpc' = "born"
  /\ handle' = TRUE
  /\ pc' = [pc EXCEPT ![w] = "wait"]
  /\ UNCHANGED <<started, implRefs, ran, want, timed, waits, answer, histVars>>

\* Waiter w calls Wait: with a timeout (GetIsDone is one of 0) it waits on the
\* event first.
CallsWait(w, t) ==
  /\ pc[w] = "out" /\ w \in holders
  /\ waits[w] < MaxWaits
  /\ Serial => \A v \in Waiters : pc[v] = "out"
  /\ timed' = [timed EXCEPT ![w] = t]
  /\ waits' = [waits EXCEPT ![w] = @ + 1]
  /\ after' = [after EXCEPT ![w] = tpc = "gone"]
  /\ UNCHANGED <<threadVars, eventVars, refVars, want, joins, touched>>

BeginWait(w, t) ==
  /\ handle
  /\ CallsWait(w, t)
  /\ pc' = [pc EXCEPT ![w] = IF t THEN "wait" ELSE "join"]
  /\ UNCHANGED answer

\* A closed thread counts as done.
AlreadyClosed(w, t) ==
  /\ ~handle
  /\ CallsWait(w, t)
  /\ answer' = [answer EXCEPT ![w] = "yes"]
  /\ UNCHANGED pc

\* Mutant: the thread is not joined once its event was signalled.
JoinNothing(w) ==
  /\ pc[w] = "join"
  /\ pc' = [pc EXCEPT ![w] = "close"]
  /\ joins' = joins + 1
  /\ UNCHANGED <<threadVars, eventVars, refVars, want, timed, waits, answer,
                 after, touched>>

Join(w) ==
  /\ pc[w] = "join"
  /\ pc' = [pc EXCEPT ![w] = "joining"]
  /\ joins' = joins + 1
  /\ UNCHANGED <<threadVars, eventVars, refVars, want, timed, waits, answer,
                 after, touched>>

JoinReturns(w) ==
  /\ pc[w] = "joining"
  /\ tpc = "gone"
  /\ pc' = [pc EXCEPT ![w] = "close"]
  /\ UNCHANGED <<threadVars, eventVars, refVars, want, timed, waits, answer,
                 histVars>>

Close(w) ==
  /\ pc[w] = "close"
  /\ handle' = FALSE
  /\ pc' = [pc EXCEPT ![w] = "out"]
  /\ answer' = [answer EXCEPT ![w] = "yes"]
  /\ UNCHANGED <<threadVars, eventVars, holders, implRefs, want, timed, waits,
                 histVars>>

\* h drops its reference; the last one closes the handle and frees the
\* ThreadImpl, unless the thread holds it.
DropReference(h) ==
  /\ holders' = holders \ {h}
  /\ IF holders = {h}
     THEN handle' = FALSE /\ implRefs' = implRefs \ {"future"}
     ELSE UNCHANGED <<handle, implRefs>>

Release(w) ==
  /\ pc[w] = "out" /\ w \in holders
  /\ Patient => answer[w] = "yes"
  /\ DropReference(w)
  /\ UNCHANGED <<threadVars, eventVars, waiterVars, histVars>>

(***************************************************************************)
(* The native thread: _RunThread around _ThreadProc.                       *)
(***************************************************************************)

ThreadGoes(from, to) == tpc = from /\ tpc' = to

\* The identifier is there: the signal for Start.
SignalStart ==
  /\ ThreadGoes("born", "signalled")
  /\ completed' = TRUE
  /\ Wake({"id", "done"})
  /\ UNCHANGED <<ran, started, refVars, want, timed, waits, answer, histVars>>

TakeReference ==
  /\ ThreadGoes("signalled", "held")
  /\ holders' = holders \cup {Thread}
  /\ UNCHANGED <<ran, eventVars, handle, implRefs, waiterVars, histVars>>

\* Mutant: the thread does not report that it started.
StartsSilently ==
  /\ ThreadGoes("held", "running")
  /\ UNCHANGED <<ran, eventVars, refVars, waiterVars, histVars>>

SignalStarted ==
  /\ ThreadGoes("held", "running")
  /\ started' = TRUE
  /\ Wake({"started"})
  /\ UNCHANGED <<ran, completed, refVars, want, timed, waits, answer, histVars>>

RunReturns ==
  /\ ThreadGoes("running", "ran")
  /\ ran' = TRUE
  /\ UNCHANGED <<eventVars, refVars, waiterVars, histVars>>

ReleaseOwn ==
  /\ ThreadGoes("ran", "deref")
  /\ DropReference(Thread)
  /\ UNCHANGED <<ran, eventVars, waiterVars, histVars>>

\* The weak pointer yields the ThreadImpl, not counted yet, or nothing.
Deref ==
  /\ ThreadGoes("deref", IF implRefs = {} THEN "gone" ELSE "addref")
  /\ UNCHANGED <<ran, eventVars, refVars, waiterVars, histVars>>

AddRefImpl ==
  /\ ThreadGoes("addref", "signal")
  /\ touched' = (touched \/ implRefs = {})
  /\ implRefs' = implRefs \cup {"thread"}
  /\ UNCHANGED <<ran, eventVars, handle, holders, waiterVars, after, joins>>

SignalJoin ==
  /\ ThreadGoes("signal", "drop")
  /\ completed' = TRUE
  /\ Wake({"id", "done"})
  /\ UNCHANGED <<ran, started, refVars, want, timed, waits, answer, histVars>>

ThreadEnds ==
  /\ ThreadGoes("drop", "gone")
  /\ implRefs' = implRefs \ {"thread"}
  /\ UNCHANGED <<ran, eventVars, handle, holders, waiterVars, histVars>>

(***************************************************************************)
(* The whole system.                                                       *)
(***************************************************************************)

NativeThread ==
  \/ SignalStart \/ TakeReference \/ SignalStarted \/ RunReturns \/ ReleaseOwn
  \/ Deref \/ AddRefImpl \/ SignalJoin \/ ThreadEnds

\* What a waiter does of itself once it is inside a call.
InCall(w) ==
  \/ Start(w) \/ WaitPasses(w) \/ WaitBlocks(w) \/ WaitEnds(w) \/ ReturnsNo(w)
  \/ Join(w) \/ JoinReturns(w) \/ Close(w)

Next ==
  \/ NativeThread
  \/ \E w \in Waiters :
       \/ InCall(w) \/ WakeSpuriously(w) \/ TimesOut(w) \/ Release(w)
       \/ \E t \in BOOLEAN : BeginWait(w, t) \/ AlreadyClosed(w, t)

Spec == Init /\ [][Next]_vars

\* Threads run, and the runnable's Run returns.
Fairness ==
  /\ WF_vars(NativeThread)
  /\ \A w \in Waiters : WF_vars(InCall(w)) /\ WF_vars(timed[w] /\ TimesOut(w))

FairSpec == Spec /\ Fairness

(***************************************************************************)
(* What the future keeps.                                                  *)
(***************************************************************************)

\* Wait and GetIsDone answer true only when the value is there, whatever signal
\* or spurious wakeup ended their wait.
YesMeansRan == \A w \in Waiters : answer[w] = "yes" => ran

\* The native thread is joined at most once: pthread_join of a thread that was
\* joined, or is being joined, is undefined.  True of waiters that call in turn.
JoinedOnce == joins <= 1

\* A program that drops the future only when it is done never frees the
\* ThreadImpl before the thread has signalled it and dropped its reference.
NothingFreedIsTouched ==
  /\ ~touched
  /\ implRefs = {} => tpc = "gone"

\* Every call of Wait returns, with a timeout or without, and so does the AddRef
\* that starts the thread.
WaitReturns == \A w \in Waiters : pc[w] # "out" ~> pc[w] = "out"

\* GetIsDone, and a Wait with a timeout, sees that a thread has ended that ended
\* before the call.
DoneIsSeen == \A w \in Waiters : after[w] => answer[w] # "no"
=============================================================================
