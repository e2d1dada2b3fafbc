--------------------------- MODULE ThreadRunProofs ---------------------------
(***************************************************************************)
(* Proofs about ThreadRun, for any number of waiters and of waits, however *)
(* signals, timeouts and spurious wakeups fall, of a program that makes    *)
(* one call of Wait at a time and drops the future only when it is done.   *)
(*                                                                         *)
(* The auto-reset events tell little: all that a waiter learns from a      *)
(* signal is that it may go on to pthread_join.  The invariant says what   *)
(* is true as long as the thread has not ended, and who may have joined.   *)
(***************************************************************************)
EXTENDS ThreadRun, TLAPS

\* What the program has to keep to.
Contract == Serial = TRUE /\ Patient = TRUE

\* Until the thread has ended, nobody was told yes, and what it uses is there.
AliveOK ==
  tpc # "gone" =>
    /\ \A w \in Waiters : answer[w] # "yes" /\ pc[w] # "close"
    /\ "future" \in implRefs
    /\ tpc # "none" => handle /\ Starter \in holders

\* Before the thread is born, only the starter has anything to do.
BornOK ==
  /\ \A w \in Waiters : pc[w] = "new" => w = Starter /\ tpc = "none"
  /\ tpc = "none" => holders = {} /\ \A w \in Waiters : pc[w] \in {"new", "out"}

RanOK == tpc \in {"ran", "deref", "addref", "signal", "drop", "gone"} => ran

\* One call at a time, and one join.
SerialOK == \A v, w \in Waiters : pc[v] # "out" /\ pc[w] # "out" => v = w

Joins == \E w \in Waiters : pc[w] \in {"joining", "close"}

JoinsOK ==
  /\ joins \in {0, 1}
  /\ \A w \in Waiters : pc[w] \notin {"out", "joining", "close"} => joins = 0
  /\ joins = 1 => ~handle \/ Joins

IInv ==
  /\ TypeOK /\ AliveOK /\ BornOK /\ RanOK /\ SerialOK /\ JoinsOK
  /\ ~touched

LEMMA InitInv == Init => IInv
<1> SUFFICES ASSUME Init PROVE IInv OBVIOUS
<1> USE ThreadRunAssumption DEF Init
<1>1. TypeOK
  <2>1. /\ pc \in [Waiters -> {"new", "out", "wait", "blocked", "woken", "expired",
                              "join", "joining", "close"}]
        /\ want \in [Waiters -> {"id", "started", "done"}]
    OBVIOUS
  <2>2. /\ timed \in [Waiters -> BOOLEAN]
        /\ waits \in [Waiters -> 0 .. MaxWaits]
    OBVIOUS
  <2>3. /\ answer \in [Waiters -> {"none", "yes", "no"}]
        /\ after \in [Waiters -> BOOLEAN]
    OBVIOUS
  <2>4. QED BY <2>1, <2>2, <2>3 DEF TypeOK
<1>2. AliveOK BY DEF AliveOK
<1>3. BornOK BY DEF BornOK
<1>4. RanOK BY DEF RanOK
<1>5. SerialOK
  <2>1. \A w \in Waiters : pc[w] # "out" => w = Starter OBVIOUS
  <2>2. QED BY <2>1 DEF SerialOK
<1>6. JoinsOK BY DEF JoinsOK
<1>7. QED BY <1>1, <1>2, <1>3, <1>4, <1>5, <1>6 DEF IInv

(***************************************************************************)
(* The native thread.                                                      *)
(***************************************************************************)

\* A signal wakes some who sleep and changes nothing else of the waiters.
LEMMA WakeWakes ==
  ASSUME TypeOK, NEW V, Wake(V)
  PROVE  /\ pc' \in [Waiters -> {"new", "out", "wait", "blocked", "woken", "expired",
                                 "join", "joining", "close"}]
         /\ \A w \in Waiters : pc'[w] = pc[w] \/ (pc[w] = "blocked" /\ pc'[w] = "woken")
BY DEF TypeOK, Wake

LEMMA SignalsInv ==
  ASSUME IInv, SignalStart \/ SignalStarted \/ SignalJoin
  PROVE  IInv'
<1>1. /\ tpc' \in {"signalled", "running", "drop"} /\ tpc \notin {"none", "gone"}
      /\ tpc' = "drop" => tpc = "signal"
      /\ \E V : Wake(V)
      /\ completed' \in {completed, TRUE} /\ started' \in {started, TRUE}
      /\ UNCHANGED <<ran, refVars, want, timed, waits, answer, histVars>>
  BY DEF SignalStart, SignalStarted, SignalJoin, ThreadGoes
<1>2. /\ pc' \in [Waiters -> {"new", "out", "wait", "blocked", "woken", "expired",
                              "join", "joining", "close"}]
      /\ \A w \in Waiters : pc'[w] = pc[w] \/ (pc[w] = "blocked" /\ pc'[w] = "woken")
  BY <1>1, WakeWakes DEF IInv
<1> USE <1>1, <1>2 DEF IInv, refVars, histVars
<1>3. TypeOK' BY DEF TypeOK
<1>4. AliveOK' BY DEF AliveOK
<1>5. BornOK' BY DEF BornOK
<1>6. RanOK' BY DEF RanOK
<1>7. SerialOK' BY DEF SerialOK
<1>8. JoinsOK' BY DEF JoinsOK, Joins
<1>9. QED BY <1>3, <1>4, <1>5, <1>6, <1>7, <1>8

LEMMA NativeThreadInv ==
  ASSUME IInv, NativeThread
  PROVE  IInv'
<1> USE ThreadRunAssumption DEF IInv, ThreadGoes, eventVars, waiterVars, histVars
<1>1. CASE TakeReference
  BY <1>1 DEF TakeReference, TypeOK, AliveOK, BornOK, RanOK, SerialOK, JoinsOK, Joins
<1>2. CASE RunReturns
  BY <1>2 DEF RunReturns, refVars, TypeOK, AliveOK, BornOK, RanOK, SerialOK, JoinsOK,
              Joins
<1>3. CASE ReleaseOwn
  <2>1. Starter \in holders /\ Starter # Thread /\ holders # {Thread}
    BY <1>3 DEF ReleaseOwn, AliveOK
  <2>2. UNCHANGED <<handle, implRefs>> /\ holders' = holders \ {Thread}
    BY <1>3, <2>1 DEF ReleaseOwn, DropReference
  <2>3. QED BY <1>3, <2>1, <2>2 DEF ReleaseOwn, TypeOK, AliveOK, BornOK, RanOK,
               SerialOK, JoinsOK, Joins
<1>4. CASE Deref
  <2>1. tpc' = "addref" BY <1>4 DEF Deref, AliveOK
  <2>2. QED BY <1>4, <2>1 DEF Deref, refVars, TypeOK, AliveOK, BornOK, RanOK,
               SerialOK, JoinsOK, Joins
<1>5. CASE AddRefImpl
  <2>1. ~touched' BY <1>5 DEF AddRefImpl, AliveOK
  <2>2. QED BY <1>5, <2>1 DEF AddRefImpl, TypeOK, AliveOK, BornOK, RanOK, SerialOK,
               JoinsOK, Joins
<1>6. CASE ThreadEnds
  BY <1>6 DEF ThreadEnds, TypeOK, AliveOK, BornOK, RanOK, SerialOK, JoinsOK, Joins
<1>7. QED BY <1>1, <1>2, <1>3, <1>4, <1>5, <1>6, SignalsInv DEF NativeThread

(***************************************************************************)
(* The waiters.                                                            *)
(***************************************************************************)

\* A waiter that is inside a call moves on: to a place where it has not joined
\* yet, or out of the call.
LEMMA MovesInv ==
  ASSUME IInv, NEW w \in Waiters, pc[w] \notin {"new", "out", "joining", "close"},
         NEW to \in {"out", "wait", "blocked", "woken", "expired", "join"},
         pc' = [pc EXCEPT ![w] = to],
         want' \in [Waiters -> {"id", "started", "done"}],
         completed' \in BOOLEAN, started' \in BOOLEAN,
         holders' \in {holders, holders \cup Waiters},
         answer' = answer \/ answer' = [answer EXCEPT ![w] = "no"],
         UNCHANGED <<threadVars, handle, implRefs, timed, waits, histVars>>
  PROVE  IInv'
<1>1. tpc # "none" BY DEF IInv, BornOK
<1>2. \A v \in Waiters : pc'[v] = IF v = w THEN to ELSE pc[v]
  BY DEF IInv, TypeOK
<1>3. \A v \in Waiters : answer'[v] = "yes" => answer[v] = "yes"
  BY DEF IInv, TypeOK
<1>4. joins = 0 BY DEF IInv, JoinsOK
<1> USE <1>1, <1>2, <1>3, <1>4 DEF IInv, threadVars, histVars
<1>5. TypeOK'
  <2>1. answer' \in [Waiters -> {"none", "yes", "no"}] BY DEF TypeOK
  <2>2. pc' \in [Waiters -> {"new", "out", "wait", "blocked", "woken", "expired",
                            "join", "joining", "close"}]
    BY DEF TypeOK
  <2>3. QED BY <2>1, <2>2 DEF TypeOK
<1>6. AliveOK' BY DEF AliveOK
<1>7. BornOK' BY DEF BornOK
<1>8. RanOK' BY DEF RanOK
<1>9. SerialOK' BY DEF SerialOK
<1>10. JoinsOK' BY DEF JoinsOK
<1>11. QED BY <1>5, <1>6, <1>7, <1>8, <1>9, <1>10

\* Every step of a wait on an event is such a move.
LEMMA EventWaitsInv ==
  ASSUME IInv, NEW w \in Waiters,
         \/ WaitPasses(w) \/ WaitBlocks(w) \/ WakeSpuriously(w)
         \/ WaitEnds(w) \/ TimesOut(w) \/ ReturnsNo(w)
  PROVE  IInv'
<1>1. CASE WaitPasses(w) \/ WaitEnds(w)
  <2>1. PICK to : to = Following[want[w]] OBVIOUS
  <2>2. to \in {"wait", "out", "join"} /\ pc[w] \in {"wait", "woken"}
    BY <1>1, <2>1 DEF WaitPasses, WaitEnds, Following, IInv, TypeOK
  <2>3. /\ pc' = [pc EXCEPT ![w] = to]
        /\ want' = [want EXCEPT ![w] = IF @ = "id" THEN "started" ELSE "done"]
        /\ holders' \in {holders, holders \cup Waiters}
    BY <1>1, <2>1 DEF WaitPasses, WaitEnds, Proceed
  <2>4. want' \in [Waiters -> {"id", "started", "done"}]
    BY <2>3 DEF IInv, TypeOK
  <2>5. completed' \in BOOLEAN /\ started' \in BOOLEAN
    BY <1>1 DEF WaitPasses, WaitEnds, ClearEvent, IInv, TypeOK
  <2>6. UNCHANGED <<threadVars, handle, implRefs, timed, waits, answer, histVars>>
    BY <1>1 DEF WaitPasses, WaitEnds
  <2>7. QED BY <2>2, <2>3, <2>4, <2>5, <2>6, MovesInv
<1>2. CASE WaitBlocks(w) \/ WakeSpuriously(w) \/ TimesOut(w)
  <2>1. PICK to \in {"blocked", "woken", "expired"} : pc' = [pc EXCEPT ![w] = to]
    BY <1>2 DEF WaitBlocks, WakeSpuriously, TimesOut
  <2>2. /\ pc[w] \in {"wait", "blocked"}
        /\ UNCHANGED <<threadVars, eventVars, refVars, want, timed, waits, answer,
                       histVars>>
    BY <1>2 DEF WaitBlocks, WakeSpuriously, TimesOut
  <2>3. /\ want' \in [Waiters -> {"id", "started", "done"}]
        /\ completed' \in BOOLEAN /\ started' \in BOOLEAN
        /\ UNCHANGED <<handle, implRefs, holders>>
    BY <2>2 DEF IInv, TypeOK, eventVars, refVars
  <2>4. QED BY <2>1, <2>2, <2>3, MovesInv
<1>3. CASE ReturnsNo(w)
  <2>1. completed' \in BOOLEAN /\ started' \in BOOLEAN
    BY <1>3 DEF ReturnsNo, ClearEvent, IInv, TypeOK
  <2>2. want' \in [Waiters -> {"id", "started", "done"}]
    BY <1>3 DEF ReturnsNo, IInv, TypeOK
  <2>3. QED BY <1>3, <2>1, <2>2, MovesInv DEF ReturnsNo, refVars
<1>4. QED BY <1>1, <1>2, <1>3

\* Only the starter makes a thread, once.
LEMMA StartInv ==
  ASSUME IInv, NEW w \in Waiters, Start(w)
  PROVE  IInv'
<1>1. w = Starter /\ tpc = "none" /\ pc[w] = "new"
  BY DEF Start, IInv, BornOK
<1>2. \A v \in Waiters : pc'[v] = IF v = w THEN "wait" ELSE pc[v]
  BY DEF Start, IInv, TypeOK
<1> USE <1>1, <1>2, ThreadRunAssumption DEF IInv, Start, histVars
<1>3. TypeOK' BY DEF TypeOK
<1>4. AliveOK' BY DEF AliveOK
<1>5. BornOK' BY DEF BornOK
<1>6. RanOK' BY DEF RanOK
<1>7. SerialOK' BY DEF SerialOK
<1>8. JoinsOK' BY DEF JoinsOK, Joins
<1>9. QED BY <1>3, <1>4, <1>5, <1>6, <1>7, <1>8

\* A call of Wait begins when nobody is in one: a handle that is still there was
\* not joined.
LEMMA CallsInv ==
  ASSUME Contract, IInv, NEW w \in Waiters, NEW t \in BOOLEAN,
         BeginWait(w, t) \/ AlreadyClosed(w, t)
  PROVE  IInv'
<1>1. /\ \A v \in Waiters : pc[v] = "out"
      /\ w \in holders
      /\ waits[w] < MaxWaits
      /\ timed' = [timed EXCEPT ![w] = t]
      /\ waits' = [waits EXCEPT ![w] = @ + 1]
      /\ after' = [after EXCEPT ![w] = tpc = "gone"]
      /\ UNCHANGED <<threadVars, eventVars, refVars, want, joins, touched>>
  BY DEF Contract, BeginWait, AlreadyClosed, CallsWait
<1>2. tpc # "none" BY <1>1 DEF IInv, BornOK
<1>3. /\ timed' \in [Waiters -> BOOLEAN]
      /\ waits' \in [Waiters -> 0 .. MaxWaits]
      /\ after' \in [Waiters -> BOOLEAN]
  <2>1. timed' \in [Waiters -> BOOLEAN] BY <1>1 DEF IInv, TypeOK
  <2>2. waits[w] + 1 \in 0 .. MaxWaits
    BY <1>1, ThreadRunAssumption DEF IInv, TypeOK
  <2>3. waits' \in [Waiters -> 0 .. MaxWaits] BY <1>1, <2>2 DEF IInv, TypeOK
  <2>4. after' \in [Waiters -> BOOLEAN] BY <1>1, Zenon DEF IInv, TypeOK
  <2>5. QED BY <2>1, <2>3, <2>4
<1> USE <1>1, <1>2, <1>3 DEF IInv, threadVars, eventVars, refVars
<1>4. CASE BeginWait(w, t)
  <2>1. handle /\ answer' = answer BY <1>4 DEF BeginWait
  <2>2. PICK to \in {"wait", "join"} : pc' = [pc EXCEPT ![w] = to]
    BY <1>4 DEF BeginWait
  <2>3. \A v \in Waiters : pc'[v] = IF v = w THEN to ELSE "out"
    BY <2>2 DEF TypeOK
  <2>4. joins = 0 BY <2>1 DEF JoinsOK, Joins
  <2> USE <2>1, <2>3, <2>4
  <2>5. TypeOK' BY <2>2 DEF TypeOK
  <2>6. AliveOK' BY DEF AliveOK
  <2>7. BornOK' BY DEF BornOK
  <2>8. RanOK' BY DEF RanOK
  <2>9. SerialOK' BY DEF SerialOK
  <2>10. JoinsOK' BY DEF JoinsOK
  <2>11. QED BY <2>5, <2>6, <2>7, <2>8, <2>9, <2>10
<1>5. CASE AlreadyClosed(w, t)
  <2>1. /\ ~handle /\ pc' = pc
        /\ answer' = [answer EXCEPT ![w] = "yes"]
    BY <1>5 DEF AlreadyClosed
  <2>2. tpc = "gone" BY <2>1 DEF AliveOK
  <2> USE <2>1, <2>2
  <2>3. TypeOK' BY DEF TypeOK
  <2>4. AliveOK' BY DEF AliveOK
  <2>5. BornOK' BY DEF BornOK
  <2>6. RanOK' BY DEF RanOK
  <2>7. SerialOK' BY DEF SerialOK
  <2>8. JoinsOK' BY DEF JoinsOK, Joins
  <2>9. QED BY <2>3, <2>4, <2>5, <2>6, <2>7, <2>8
<1>6. QED BY <1>4, <1>5

\* The join: the caller is the only one in a call, and nobody joined before.
LEMMA JoinInv ==
  ASSUME IInv, NEW w \in Waiters, Join(w) \/ JoinReturns(w) \/ Close(w)
  PROVE  IInv'
<1>1. PICK to : /\ to \in {"joining", "close", "out"}
                /\ pc' = [pc EXCEPT ![w] = to]
                /\ Join(w) => to = "joining"
                /\ JoinReturns(w) => to = "close"
                /\ Close(w) => to = "out"
  BY DEF Join, JoinReturns, Close
<1>2. \A v \in Waiters : pc'[v] = IF v = w THEN to ELSE pc[v]
  BY <1>1 DEF IInv, TypeOK
<1>3. \A v \in Waiters : v # w => pc[v] = "out"
  BY DEF Join, JoinReturns, Close, IInv, SerialOK
<1>4. tpc # "none" BY DEF Join, JoinReturns, Close, IInv, BornOK
<1> USE <1>1, <1>2, <1>3, <1>4
        DEF IInv, threadVars, eventVars, refVars, histVars
<1>5. CASE Join(w)
  <2>1. joins = 0 /\ joins' = 1 BY <1>5 DEF Join, JoinsOK
  <2>2. UNCHANGED <<threadVars, eventVars, refVars, want, timed, waits, answer, after,
                    touched>>
    BY <1>5 DEF Join
  <2> USE <1>5, <2>1, <2>2
  <2>3. TypeOK' BY DEF TypeOK
  <2>4. AliveOK' BY DEF AliveOK
  <2>5. BornOK' BY DEF BornOK
  <2>6. RanOK' BY DEF RanOK
  <2>7. SerialOK' BY DEF SerialOK
  <2>8. JoinsOK' BY DEF JoinsOK, Joins
  <2>9. QED BY <2>2, <2>3, <2>4, <2>5, <2>6, <2>7, <2>8
<1>6. CASE JoinReturns(w)
  <2>1. tpc = "gone" BY <1>6 DEF JoinReturns
  <2>2. UNCHANGED <<threadVars, eventVars, refVars, want, timed, waits, answer, histVars>>
    BY <1>6 DEF JoinReturns
  <2> USE <1>6, <2>1, <2>2
  <2>3. TypeOK' BY DEF TypeOK
  <2>4. AliveOK' BY DEF AliveOK
  <2>5. BornOK' BY DEF BornOK
  <2>6. RanOK' BY DEF RanOK
  <2>7. SerialOK' BY DEF SerialOK
  <2>8. JoinsOK'
    <3>1. pc[w] = "joining" BY DEF JoinReturns
    <3>2. QED BY <3>1 DEF JoinsOK, Joins
  <2>9. QED BY <2>2, <2>3, <2>4, <2>5, <2>6, <2>7, <2>8
<1>7. CASE Close(w)
  <2>1. tpc = "gone" BY <1>7 DEF Close, AliveOK
  <2>2. /\ handle' = FALSE
        /\ answer' = [answer EXCEPT ![w] = "yes"]
        /\ UNCHANGED <<threadVars, eventVars, holders, implRefs, want, timed, waits,
                       histVars>>
    BY <1>7 DEF Close
  <2> USE <1>7, <2>1, <2>2
  <2>3. TypeOK'
    <3>1. /\ answer' \in [Waiters -> {"none", "yes", "no"}]
          /\ pc' \in [Waiters -> {"new", "out", "wait", "blocked", "woken", "expired",
                                 "join", "joining", "close"}]
      BY <1>1 DEF TypeOK
    <3>2. QED BY <3>1 DEF TypeOK
  <2>4. AliveOK' BY DEF AliveOK
  <2>5. BornOK' BY DEF BornOK
  <2>6. RanOK' BY DEF RanOK
  <2>7. SerialOK' BY DEF SerialOK
  <2>8. JoinsOK' BY DEF JoinsOK
  <2>9. QED BY <2>2, <2>3, <2>4, <2>5, <2>6, <2>7, <2>8
<1>8. QED BY <1>5, <1>6, <1>7

\* The future is dropped by one that was told it is done.
LEMMA ReleaseInv ==
  ASSUME Contract, IInv, NEW w \in Waiters, Release(w)
  PROVE  IInv'
<1>1. answer[w] = "yes" BY DEF Release, Contract
<1>2. tpc = "gone" BY <1>1 DEF IInv, AliveOK
<1>3. /\ handle' \in {handle, FALSE}
      /\ holders' = holders \ {w}
      /\ implRefs' \in {implRefs, implRefs \ {"future"}}
      /\ UNCHANGED <<threadVars, eventVars, waiterVars, histVars>>
  BY DEF Release, DropReference
<1> USE <1>2, <1>3 DEF IInv, threadVars, eventVars, waiterVars, histVars
<1>4. TypeOK' BY DEF TypeOK
<1>5. AliveOK' BY DEF AliveOK
<1>6. BornOK' BY DEF BornOK
<1>7. RanOK' BY DEF RanOK
<1>8. SerialOK' BY DEF SerialOK
<1>9. JoinsOK'
  <2>1. joins' = joins /\ pc' = pc BY <1>3
  <2>2. Joins' <=> Joins BY <2>1 DEF Joins
  <2>3. ~handle => ~handle' BY <1>3
  <2>4. QED BY <2>1, <2>2, <2>3 DEF JoinsOK
<1>10. QED BY <1>4, <1>5, <1>6, <1>7, <1>8, <1>9

LEMMA NextInv ==
  ASSUME Contract, IInv, [Next]_vars
  PROVE  IInv'
<1>1. CASE UNCHANGED vars
  BY <1>1 DEF vars, threadVars, eventVars, refVars, waiterVars, histVars, IInv, TypeOK,
              AliveOK, BornOK, RanOK, SerialOK, JoinsOK, Joins
<1>2. CASE NativeThread BY <1>2, NativeThreadInv
<1>3. ASSUME NEW w \in Waiters,
             InCall(w) \/ WakeSpuriously(w) \/ TimesOut(w) \/ Release(w)
      PROVE  IInv'
  BY <1>3, StartInv, EventWaitsInv, JoinInv, ReleaseInv DEF InCall
<1>4. ASSUME NEW w \in Waiters, NEW t \in BOOLEAN,
             BeginWait(w, t) \/ AlreadyClosed(w, t)
      PROVE  IInv'
  BY <1>4, CallsInv
<1>5. QED BY <1>1, <1>2, <1>3, <1>4 DEF Next

LEMMA Invariant ==
  ASSUME Contract
  PROVE  Spec => []IInv
BY InitInv, NextInv, PTL DEF Spec

(***************************************************************************)
(* The theorems.                                                           *)
(***************************************************************************)

\* Wait and GetIsDone say yes only when the runnable has run: the two signals on
\* one event, a late timeout and a spurious wakeup all end in pthread_join.
THEOREM AnswersAreTrue ==
  ASSUME Contract
  PROVE  Spec => []YesMeansRan
<1>1. IInv => YesMeansRan BY DEF IInv, AliveOK, RanOK, YesMeansRan
<1>2. QED BY <1>1, Invariant, PTL

\* The ThreadImpl is there until its thread has ended: the weak pointer by which
\* the thread reaches it is never followed to freed memory.
THEOREM ThreadIsKept ==
  ASSUME Contract
  PROVE  Spec => []NothingFreedIsTouched
<1>1. IInv => NothingFreedIsTouched
  BY DEF IInv, AliveOK, NothingFreedIsTouched
<1>2. QED BY <1>1, Invariant, PTL
==============================================================================
