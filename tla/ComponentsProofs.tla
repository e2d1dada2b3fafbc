--------------------------- MODULE ComponentsProofs ---------------------------
(***************************************************************************)
(* Proofs about the futures, the timers and the request of Components, and *)
(* that all the components keep their types.                               *)
(***************************************************************************)
EXTENDS ObjectsProofs, ThreadRunProofs

(***************************************************************************)
(* Future values.  A reader looks at the event first and takes the mutex   *)
(* later; the invariant says which of the values the future has had since  *)
(* the call began it may still return.                                     *)
(***************************************************************************)

LEMMA ValuesApart ==
  /\ None \notin Values /\ None \notin Threads
  /\ "yes" \notin Values /\ "yes" # None
  /\ MaxValueSets \in Nat
BY ComponentsAssumption

\* The mutex is held from the change of the value to that of the event.
MutexOK ==
  /\ \A t \in Threads : valuePc[t] \in {"signal", "unset"} => mutex = t
  /\ mutex = None => value = current
  /\ \A t \in Threads : /\ valuePc[t] = "signal" => value \in Values
                        /\ valuePc[t] = "unset" => value = None

\* The event says whether the future has a value.
EventOK == isSet <=> current \in Values

\* What the calls under way may return.
CallsOK ==
  \A t \in Threads :
    /\ valuePc[t] \in {"take", "blocked", "woken"} => current \in had[t]
    /\ valuePc[t] = "blocked" => None \in had[t]
    /\ valuePc[t] = "woken" => had[t] \cap Values # {}

\* What the last calls have returned.
ReadsOK ==
  \A t \in Threads : valuePc[t] \in {"out", "signal", "unset"} =>
    IF read[t] = "yes" THEN had[t] \cap Values # {} ELSE read[t] \in had[t]

ValueInv == Shared!TypeOK /\ MutexOK /\ EventOK /\ CallsOK /\ ReadsOK

LEMMA ValueInit == Shared!Init => ValueInv
<1> SUFFICES ASSUME Shared!Init PROVE ValueInv OBVIOUS
<1> USE ValuesApart DEF Shared!Init
<1>1. Shared!TypeOK
  <2>1. /\ valuePc \in [Threads -> {"out", "signal", "unset", "take", "blocked",
                                   "woken"}]
        /\ valueSets \in 0 .. MaxValueSets
    OBVIOUS
  <2>2. /\ had \in [Threads -> SUBSET (Values \cup {None})]
        /\ read \in [Threads -> Values \cup {None, "yes"}]
    OBVIOUS
  <2>3. canceled \in BOOLEAN /\ isSet \in BOOLEAN OBVIOUS
  <2>4. QED BY <2>1, <2>2, <2>3 DEF Shared!TypeOK
<1>2. MutexOK /\ EventOK BY DEF MutexOK, EventOK
<1>3. CallsOK /\ ReadsOK BY DEF CallsOK, ReadsOK
<1>4. QED BY <1>1, <1>2, <1>3 DEF ValueInv

\* SetValue and Reset take the mutex and change the value.
LEMMA ChangeKeeps ==
  ASSUME ValueInv, NEW t \in Threads,
         (\E v \in Values : Shared!SetValue(t, v)) \/ Shared!Reset(t)
  PROVE  ValueInv'
<1> USE ValuesApart DEF ValueInv
<1>1. /\ valuePc[t] = "out" /\ mutex = None /\ mutex' = t
      /\ \/ valuePc' = [valuePc EXCEPT ![t] = "signal"] /\ value' \in Values
         \/ valuePc' = [valuePc EXCEPT ![t] = "unset"] /\ value' = None
      /\ canceled' \in {canceled, FALSE}
      /\ valueSets < MaxValueSets /\ valueSets' = valueSets + 1
      /\ UNCHANGED <<isSet, current, had, read>>
  BY DEF Shared!SetValue, Shared!Reset, Shared!Goes
<1>2. Shared!TypeOK'
  <2>1. canceled' \in BOOLEAN BY <1>1 DEF Shared!TypeOK
  <2>2. valueSets' \in 0 .. MaxValueSets BY <1>1 DEF Shared!TypeOK
  <2>3. QED BY <1>1, <2>1, <2>2 DEF Shared!TypeOK
<1>3. MutexOK' BY <1>1 DEF Shared!TypeOK, MutexOK
<1>4. EventOK' BY <1>1 DEF EventOK
<1>5. CallsOK' BY <1>1 DEF Shared!TypeOK, CallsOK
<1>6. ReadsOK' BY <1>1 DEF Shared!TypeOK, ReadsOK
<1>7. QED BY <1>2, <1>3, <1>4, <1>5, <1>6

\* Signal and ResetEvent let the mutex go: the future has the new value now.
LEMMA ChangedKeeps ==
  ASSUME ValueInv, NEW t \in Threads, Shared!Signal(t) \/ Shared!ResetEvent(t)
  PROVE  ValueInv'
<1> USE ValuesApart DEF ValueInv
<1>1. /\ valuePc[t] \in {"signal", "unset"} /\ mutex' = None
      /\ valuePc' \in [Threads -> {"out", "signal", "unset", "take", "blocked",
                                   "woken"}]
      /\ \A u \in Threads :
           \/ valuePc'[u] = valuePc[u] /\ u # t
              /\ (valuePc[u] = "blocked" => value = None)
           \/ u = t /\ valuePc'[u] = "out"
           \/ valuePc[u] = "blocked" /\ valuePc'[u] = "woken" /\ value \in Values
      /\ current' = value
      /\ had' = [u \in Threads |-> IF valuePc[u] = "out" THEN had[u]
                                   ELSE had[u] \cup {value}]
      /\ isSet' \in BOOLEAN /\ (isSet' <=> value \in Values)
      /\ UNCHANGED <<value, canceled, valueSets, read>>
  <2>1. CASE Shared!Signal(t)
    <3>1. value \in Values BY <2>1 DEF MutexOK, Shared!Signal
    <3>2. QED BY <2>1, <3>1 DEF Shared!Signal, Shared!Becomes, Shared!TypeOK
  <2>2. CASE Shared!ResetEvent(t)
    <3>1. value = None BY <2>2 DEF MutexOK, Shared!ResetEvent, Shared!Goes
    <3>2. QED BY <2>2, <3>1
          DEF Shared!ResetEvent, Shared!Becomes, Shared!Goes, Shared!TypeOK
  <2>3. QED BY <2>1, <2>2
<1>2. mutex = t BY <1>1 DEF MutexOK
<1>3. Shared!TypeOK'
  <2>1. had' \in [Threads -> SUBSET (Values \cup {None})]
    BY <1>1 DEF Shared!TypeOK
  <2>2. QED BY <1>1, <2>1 DEF Shared!TypeOK
<1>4. MutexOK' BY <1>1, <1>2 DEF MutexOK
<1>5. EventOK' BY <1>1 DEF EventOK
<1>6. CallsOK'
  <2>1. SUFFICES ASSUME NEW u \in Threads
        PROVE  /\ valuePc'[u] \in {"take", "blocked", "woken"} => current' \in had'[u]
               /\ valuePc'[u] = "blocked" => None \in had'[u]
               /\ valuePc'[u] = "woken" => had'[u] \cap Values # {}
    BY DEF CallsOK
  <2>2. valuePc'[u] # "out" => valuePc[u] # "out" BY <1>1
  <2>3. valuePc[u] # "out" => had'[u] = had[u] \cup {value} BY <1>1
  <2>4. QED BY <1>1, <2>2, <2>3 DEF CallsOK
<1>7. ReadsOK'
  <2>1. \A u \in Threads : had[u] \subseteq had'[u] BY <1>1
  <2>2. \A u \in Threads : valuePc'[u] \in {"out", "signal", "unset"} =>
                           valuePc[u] \in {"out", "signal", "unset"}
    BY <1>1
  <2>3. QED BY <1>1, <2>1, <2>2 DEF ReadsOK
<1>8. QED BY <1>3, <1>4, <1>5, <1>6, <1>7

\* GetValue and Wait begin: the call may return what the future is.
LEMMA CallKeeps ==
  ASSUME ValueInv, NEW t \in Threads, Shared!GetValue(t) \/ Shared!Wait(t)
  PROVE  ValueInv'
<1> USE ValuesApart DEF ValueInv
<1>1. /\ valuePc[t] = "out"
      /\ \/ valuePc' = valuePc /\ ~isSet /\ read' = [read EXCEPT ![t] = None]
         \/ /\ valuePc' \in {[valuePc EXCEPT ![t] = "take"],
                             [valuePc EXCEPT ![t] = "woken"]}
            /\ isSet /\ read' = read
         \/ valuePc' = [valuePc EXCEPT ![t] = "blocked"] /\ ~isSet /\ read' = read
      /\ had' = [had EXCEPT ![t] = {current}]
      /\ UNCHANGED <<value, canceled, isSet, mutex, valueSets, current>>
  BY DEF Shared!GetValue, Shared!Wait, Shared!Begins, Shared!Answers, Shared!Goes
<1>2. Shared!TypeOK'
  <2>1. had' \in [Threads -> SUBSET (Values \cup {None})]
    BY <1>1 DEF Shared!TypeOK
  <2>2. /\ valuePc' \in [Threads -> {"out", "signal", "unset", "take", "blocked",
                                    "woken"}]
        /\ read' \in [Threads -> Values \cup {None, "yes"}]
    BY <1>1 DEF Shared!TypeOK
  <2>3. QED BY <1>1, <2>1, <2>2 DEF Shared!TypeOK
<1>3. MutexOK' BY <1>1 DEF Shared!TypeOK, MutexOK
<1>4. EventOK' BY <1>1 DEF EventOK
<1>5. ~isSet => current = None BY DEF EventOK, Shared!TypeOK
<1>6. had'[t] = {current} /\ \A u \in Threads : u # t => had'[u] = had[u]
  BY <1>1 DEF Shared!TypeOK
<1>7. CallsOK' BY <1>1, <1>5, <1>6 DEF Shared!TypeOK, EventOK, CallsOK
<1>8. ReadsOK' BY <1>1, <1>5, <1>6 DEF Shared!TypeOK, ReadsOK
<1>9. QED BY <1>2, <1>3, <1>4, <1>7, <1>8

\* A call returns, or Cancel marks the future.
LEMMA ReturnKeeps ==
  ASSUME ValueInv, NEW t \in Threads,
         \/ Shared!TakeValue(t) \/ Shared!Wakes(t) \/ Shared!GivesUp(t)
         \/ Shared!Cancel(t)
  PROVE  ValueInv'
<1> USE ValuesApart DEF ValueInv
<1>1. /\ valuePc' = [valuePc EXCEPT ![t] = "out"]
      /\ \/ /\ valuePc[t] = "take" /\ mutex = None
            /\ read' = [read EXCEPT ![t] = value]
         \/ valuePc[t] = "woken" /\ read' = [read EXCEPT ![t] = "yes"]
         \/ valuePc[t] = "blocked" /\ read' = [read EXCEPT ![t] = None]
         \/ valuePc[t] = "out" /\ read' = read
      /\ canceled' \in {canceled, TRUE}
      /\ UNCHANGED <<value, isSet, mutex, valueSets, current, had>>
  BY DEF Shared!TakeValue, Shared!Wakes, Shared!GivesUp, Shared!Cancel,
         Shared!Answers, Shared!Goes
<1>2. Shared!TypeOK'
  <2>1. canceled' \in BOOLEAN BY <1>1 DEF Shared!TypeOK
  <2>2. valueSets' \in 0 .. MaxValueSets BY <1>1 DEF Shared!TypeOK
  <2>3. QED BY <1>1, <2>1, <2>2 DEF Shared!TypeOK
<1>3. MutexOK' BY <1>1 DEF Shared!TypeOK, MutexOK
<1>4. EventOK' BY <1>1 DEF EventOK
<1>5. CallsOK' BY <1>1 DEF Shared!TypeOK, CallsOK
<1>6. ReadsOK' BY <1>1 DEF Shared!TypeOK, MutexOK, CallsOK, ReadsOK
<1>7. QED BY <1>2, <1>3, <1>4, <1>5, <1>6

LEMMA ValueNext == ValueInv /\ [Shared!Next]_Shared!vars => ValueInv'
<1> SUFFICES ASSUME ValueInv, [Shared!Next]_Shared!vars PROVE ValueInv' OBVIOUS
<1>1. CASE UNCHANGED Shared!vars
  BY <1>1 DEF Shared!vars, ValueInv, Shared!TypeOK, MutexOK, EventOK, CallsOK,
              ReadsOK
<1>2. CASE Shared!Next
  BY <1>2, ChangeKeeps, ChangedKeeps, CallKeeps, ReturnKeeps DEF Shared!Next
<1>3. QED BY <1>1, <1>2

LEMMA ValueInvariant == Shared!Spec => []ValueInv
BY ValueInit, ValueNext, PTL DEF Shared!Spec

(***************************************************************************)
(* The future of a pool.  What a holder is told of rests on the event,     *)
(* which is set once, after the result.                                    *)
(***************************************************************************)

\* The event is set, and a holder is past it, only when the worker is done.
DoneOK ==
  /\ ranEvent => worker = "done"
  /\ \A h \in Holders : holderPc[h] \in {"woken", "take"} => worker = "done"

\* Nothing is returned before it ran; what was canceled in time has no runnable.
RanOnce ==
  /\ worker \in {"queued", "running", "thrown"} => ret = None
  /\ spoiled => ~runnable /\ worker # "running" /\ ret = None

PoolInv == Pooled!TypeOK /\ DoneOK /\ RanOnce /\ Pooled!TellsWhatRan

LEMMA PoolInit == Pooled!Init => PoolInv
BY ValuesApart, ComponentsAssumption
DEF Pooled!Init, PoolInv, Pooled!TypeOK, DoneOK, RanOnce, Pooled!TellsWhatRan

\* The worker runs the runnable and sets the event; or the pool throws it away.
LEMMA WorkerKeeps ==
  ASSUME PoolInv, Pooled!Worker \/ Pooled!ThrownAway
  PROVE  PoolInv'
<1> USE DEF PoolInv
<1>1. CASE Pooled!Run \/ Pooled!ThrownAway
  BY <1>1 DEF Pooled!Run, Pooled!ThrownAway, Pooled!TypeOK, DoneOK, RanOnce,
              Pooled!TellsWhatRan
<1>2. CASE \E v \in Values : Pooled!RunReturns(v)
  BY <1>2 DEF Pooled!RunReturns, Pooled!TypeOK, DoneOK, RanOnce,
              Pooled!TellsWhatRan
<1>3. CASE Pooled!SignalRan
  <2>1. Pooled!TypeOK' BY <1>3 DEF Pooled!SignalRan, Pooled!TypeOK
  <2>2. DoneOK' /\ RanOnce' BY <1>3 DEF Pooled!SignalRan, DoneOK, RanOnce
  <2>3. Pooled!TellsWhatRan' BY <1>3 DEF Pooled!SignalRan, Pooled!TellsWhatRan
  <2>4. QED BY <2>1, <2>2, <2>3
<1>4. QED BY <1>1, <1>2, <1>3 DEF Pooled!Worker

LEMMA CancelKeeps ==
  ASSUME PoolInv, NEW h \in Holders, Pooled!Cancel(h)
  PROVE  PoolInv'
<1> USE DEF PoolInv, Pooled!Cancel
<1>1. runnable' = FALSE /\ spoiled' \in BOOLEAN BY DEF Pooled!TypeOK
<1>2. Pooled!TypeOK' BY <1>1 DEF Pooled!TypeOK
<1>3. DoneOK' BY DEF DoneOK
<1>4. spoiled' => spoiled \/ worker = "queued" OBVIOUS
<1>5. RanOnce' BY <1>4 DEF RanOnce
<1>6. Pooled!TellsWhatRan' BY <1>4 DEF Pooled!TellsWhatRan, RanOnce
<1>7. QED BY <1>2, <1>3, <1>5, <1>6

\* The other calls of a holder move nobody else.
LEMMA HolderCallKeeps ==
  ASSUME PoolInv, NEW h \in Holders,
         \/ Pooled!Wait(h) \/ Pooled!Wakes(h) \/ Pooled!GivesUp(h)
         \/ Pooled!GetValue(h) \/ Pooled!TakeValue(h)
  PROVE  PoolInv'
<1> USE ValuesApart, ComponentsAssumption DEF PoolInv
<1>1. /\ UNCHANGED <<runnable, ret, ranEvent, worker, spoiled>>
      /\ \E s \in {"out", "blocked", "woken", "take"} :
           /\ holderPc' = [holderPc EXCEPT ![h] = s]
           /\ s \in {"woken", "take"} => ranEvent
      /\ \E a \in Values \cup {None, "none", "yes", "no"} :
           /\ told' = [told EXCEPT ![h] = a]
           /\ \/ a \in {told[h], None, "no"}
              \/ holderPc[h] = "woken" /\ a = "yes"
              \/ holderPc[h] = "take" /\ a = ret
  <2>1. told' = told => told' = [told EXCEPT ![h] = told[h]]
    BY DEF Pooled!TypeOK
  <2>2. holderPc' = holderPc => holderPc' = [holderPc EXCEPT ![h] = holderPc[h]]
    BY DEF Pooled!TypeOK
  <2>3. told[h] \in Values \cup {None, "none", "yes", "no"}
        /\ ret \in Values \cup {None}
    BY DEF Pooled!TypeOK
  <2>4. CASE Pooled!Wait(h) BY <2>1, <2>3, <2>4 DEF Pooled!Wait
  <2>5. CASE Pooled!Wakes(h) BY <2>3, <2>5 DEF Pooled!Wakes
  <2>6. CASE Pooled!GivesUp(h) BY <2>3, <2>6 DEF Pooled!GivesUp
  <2>7. CASE Pooled!GetValue(h) BY <2>1, <2>2, <2>3, <2>7 DEF Pooled!GetValue
  <2>8. CASE Pooled!TakeValue(h) BY <2>3, <2>8 DEF Pooled!TakeValue
  <2>9. QED BY <2>4, <2>5, <2>6, <2>7, <2>8
<1>2. Pooled!TypeOK' BY <1>1 DEF Pooled!TypeOK
<1>3. DoneOK' BY <1>1 DEF Pooled!TypeOK, DoneOK
<1>4. RanOnce' BY <1>1 DEF RanOnce
<1>5. Pooled!TellsWhatRan' BY <1>1 DEF Pooled!TypeOK, DoneOK, Pooled!TellsWhatRan
<1>6. QED BY <1>2, <1>3, <1>4, <1>5

LEMMA PoolNext == PoolInv /\ [Pooled!Next]_Pooled!vars => PoolInv'
<1> SUFFICES ASSUME PoolInv, [Pooled!Next]_Pooled!vars PROVE PoolInv' OBVIOUS
<1>1. CASE UNCHANGED Pooled!vars
  BY <1>1 DEF Pooled!vars, PoolInv, Pooled!TypeOK, DoneOK, RanOnce,
              Pooled!TellsWhatRan
<1>2. CASE Pooled!Next
  BY <1>2, WorkerKeeps, CancelKeeps, HolderCallKeeps
  DEF Pooled!Next, Pooled!Holder
<1>3. QED BY <1>1, <1>2

LEMMA PoolInvariant == Pooled!Spec => []PoolInv
BY PoolInit, PoolNext, PTL DEF Pooled!Spec

\* GetValue returns what a future value was at one moment of the call, although it
\* looks at the event before it takes the mutex, and Wait says yes only if it was
\* set at one; a pool's future answers only when the worker is done with it, with
\* what the runnable returned, and one canceled in the queue is not run
\* (sFutureValue and sFutureRunnable of Concurrent.cpp).
THEOREM FuturesAreTrue == Shared!Spec /\ Pooled!Spec => []FuturesTellTrue
<1>1. ValueInv => Shared!ReadsAreAtomic
  BY DEF ValueInv, ReadsOK, Shared!ReadsAreAtomic
<1>2. ValueInv /\ PoolInv => FuturesTellTrue BY <1>1 DEF PoolInv, FuturesTellTrue
<1>3. QED BY <1>2, ValueInvariant, PoolInvariant, PTL

(***************************************************************************)
(* Timers.  While UpdateTimers walks the map, some timers have the time of *)
(* the frame already and others not yet, and the timer whose handler runs  *)
(* has still to pay for the period it was triggered for.  The invariant    *)
(* balances what each has counted against its periods and the time that    *)
(* passed.                                                                 *)
(***************************************************************************)

LEMMA TimeIsWhole ==
  /\ Last \in Nat \ {0} /\ MaxUpdates \in Nat /\ MaxTimerSets \in Nat
  /\ MaxTriggers \in Nat \ {0}
  /\ Durations \subseteq Nat \ {0} /\ Frames \subseteq Nat \ {0}
BY ComponentsAssumption

\* The walk has still to add the frame to timer t.
Pending(t) ==
  \/ timerPc = "visit" /\ t >= at
  \/ timerPc \in {"while", "handler"} /\ t > at

\* What timer t will have counted once the walk has passed it.
Counted(t) ==
  start[t] + (IF Pending(t) THEN frame ELSE 0)
           - (IF timerPc = "handler" /\ at = t THEN duration[t] ELSE 0)

\* How much timer t is early, having been set ahead of the walk.
MayBeEarly(t, e) == e = 0 \/ (e \in Frames /\ by[t] \notin {0, t})

\* How much it is late, having been set by its own handler.
Late(t) == IF by[t] = t THEN duration[t] ELSE 0

\* What a timer has counted is the time that passed less its periods.
Balanced(t) ==
  /\ Counted(t) >= 0 - Late(t)
  /\ \E e \in Nat : /\ MayBeEarly(t, e)
                    /\ Counted(t) + fired[t] * duration[t] + Late(t)
                         = elapsed[t] + e

BalanceOK == \A t \in Clock!Timers : Clock!Live(t) => Balanced(t)

\* Only the timer that the walk is at may be expired, and those left at the limit.
ExpiredOK ==
  \A t \in Clock!Timers :
    Clock!Live(t) /\ ~cut[t] /\ ~(timerPc \in {"while", "handler"} /\ at = t)
      => start[t] < duration[t]

\* The walk has a frame, and triggers timers that are in the map.
WalkOK ==
  /\ timerPc # "idle" => frame \in Frames
  /\ timerPc = "while" => Clock!Live(at)

ClockInv == Clock!TypeOK /\ BalanceOK /\ ExpiredOK /\ WalkOK

LEMMA ClockInit == Clock!Init => ClockInv
<1> SUFFICES ASSUME Clock!Init PROVE ClockInv OBVIOUS
<1> USE TimeIsWhole DEF Clock!Init
<1>1. Clock!TypeOK
  <2>1. at \in Clock!Timers BY DEF Clock!Timers
  <2>2. /\ duration \in [Clock!Timers -> Durations \cup {Clock!Absent, Clock!Removed}]
        /\ start \in [Clock!Timers -> Int] /\ by \in [Clock!Timers -> 0 .. Last]
    OBVIOUS
  <2>3. /\ elapsed \in [Clock!Timers -> Nat] /\ fired \in [Clock!Timers -> Nat]
        /\ updates \in 0 .. MaxUpdates /\ sets \in 0 .. MaxTimerSets
        /\ triggers \in 0 .. MaxTriggers /\ cut \in [Clock!Timers -> BOOLEAN]
    OBVIOUS
  <2>4. QED BY <2>1, <2>2, <2>3 DEF Clock!TypeOK
<1>2. \A t \in Clock!Timers : ~Clock!Live(t) BY DEF Clock!Live, Clock!Absent
<1>3. BalanceOK /\ ExpiredOK BY <1>2 DEF BalanceOK, ExpiredOK
<1>4. WalkOK BY DEF WalkOK
<1>5. QED BY <1>1, <1>3, <1>4 DEF ClockInv

LEMMA DurationIsWhole ==
  ASSUME Clock!TypeOK, NEW u \in Clock!Timers
  PROVE  duration[u] \in Int
<1>1. duration[u] \in Durations \cup {Clock!Absent, Clock!Removed}
  BY DEF Clock!TypeOK
<1>2. Clock!Absent \in Int /\ Clock!Removed \in Int
  BY DEF Clock!Absent, Clock!Removed
<1>3. \A d \in Durations : d \in Int BY TimeIsWhole
<1>4. QED BY <1>1, <1>2, <1>3

\* A timer none of whose numbers changes keeps its balance.
LEMMA BalanceIsKept ==
  ASSUME NEW u, Balanced(u), Counted(u)' = Counted(u),
         duration'[u] = duration[u], fired'[u] = fired[u],
         elapsed'[u] = elapsed[u], by'[u] = by[u]
  PROVE  Balanced(u)'
BY DEF Balanced, MayBeEarly, Late

\* The program marks timers or clears the map.
LEMMA ChangeTimersKeeps ==
  ASSUME ClockInv,
         Clock!ClearTimers \/ \E h \in {Handler[t] : t \in Clock!Timers} :
                                Clock!InvalidateHandlerTimers(h)
  PROVE  ClockInv'
<1> USE TimeIsWhole DEF ClockInv, Clock!ClearTimers, Clock!InvalidateHandlerTimers
<1>1. /\ UNCHANGED <<start, timerPc, at, frame, triggers, updates, sets, elapsed,
                      fired, by, cut>>
      /\ timerPc \in {"idle", "handler"}
  BY DEF Clock!MayChange
<1>2. /\ duration' \in [Clock!Timers -> Durations \cup {Clock!Absent, Clock!Removed}]
      /\ \A u \in Clock!Timers : Clock!Live(u)' =>
           Clock!Live(u) /\ duration'[u] = duration[u]
  BY DEF Clock!TypeOK, Clock!Live, Clock!Absent, Clock!Removed
<1>3. Clock!TypeOK' BY <1>1, <1>2 DEF Clock!TypeOK
<1>4. BalanceOK'
  <2>1. SUFFICES ASSUME NEW u \in Clock!Timers, Clock!Live(u)' PROVE Balanced(u)'
    BY DEF BalanceOK
  <2>2. Clock!Live(u) /\ duration'[u] = duration[u] BY <1>2, <2>1
  <2>3. Counted(u)' = Counted(u) BY <1>1, <2>2 DEF Counted, Pending
  <2>4. QED BY <1>1, <2>2, <2>3, BalanceIsKept DEF BalanceOK
<1>5. ExpiredOK' BY <1>1, <1>2 DEF ExpiredOK
<1>6. WalkOK' BY <1>1 DEF WalkOK
<1>7. QED BY <1>3, <1>4, <1>5, <1>6

\* The program sets a timer, between updates or in a handler.
LEMMA SetTimerKeeps ==
  ASSUME ClockInv, NEW t \in Clock!Timers,
         NEW d \in Durations \cup {Clock!Removed}, Clock!SetTimer(t, d)
  PROVE  ClockInv'
<1> USE TimeIsWhole DEF ClockInv
<1>1. /\ UNCHANGED <<timerPc, at, frame, triggers, updates>>
      /\ timerPc \in {"idle", "handler"}
      /\ sets < MaxTimerSets /\ sets' = sets + 1
      /\ duration' = [duration EXCEPT ![t] = d] /\ start' = [start EXCEPT ![t] = 0]
      /\ elapsed' = [elapsed EXCEPT ![t] = 0] /\ fired' = [fired EXCEPT ![t] = 0]
      /\ by' = [by EXCEPT ![t] = IF timerPc = "idle" THEN 0 ELSE at]
      /\ cut' = [cut EXCEPT ![t] = FALSE]
  BY DEF Clock!SetTimer, Clock!MayChange
<1>2. /\ duration'[t] = d /\ start'[t] = 0 /\ elapsed'[t] = 0 /\ fired'[t] = 0
      /\ by'[t] = IF timerPc = "idle" THEN 0 ELSE at
      /\ \A u \in Clock!Timers : u # t =>
           /\ duration'[u] = duration[u] /\ start'[u] = start[u]
           /\ elapsed'[u] = elapsed[u] /\ fired'[u] = fired[u] /\ by'[u] = by[u]
           /\ cut'[u] = cut[u]
  BY <1>1 DEF Clock!TypeOK
<1>3. Clock!TypeOK'
  <2>1. /\ duration' \in [Clock!Timers -> Durations \cup {Clock!Absent, Clock!Removed}]
        /\ start' \in [Clock!Timers -> Int]
    BY <1>1 DEF Clock!TypeOK
  <2>2. /\ elapsed' \in [Clock!Timers -> Nat] /\ fired' \in [Clock!Timers -> Nat]
        /\ sets' \in 0 .. MaxTimerSets /\ cut' \in [Clock!Timers -> BOOLEAN]
    BY <1>1 DEF Clock!TypeOK
  <2>3. by' \in [Clock!Timers -> 0 .. Last]
    <3>1. at \in 0 .. Last /\ 0 \in 0 .. Last BY DEF Clock!TypeOK, Clock!Timers
    <3>2. QED BY <1>1, <3>1 DEF Clock!TypeOK
  <2>4. QED BY <1>1, <2>1, <2>2, <2>3 DEF Clock!TypeOK
<1>4. BalanceOK'
  <2>1. SUFFICES ASSUME NEW u \in Clock!Timers, Clock!Live(u)' PROVE Balanced(u)'
    BY DEF BalanceOK
  <2>2. CASE u # t
    <3>1. Clock!Live(u) BY <1>2, <2>1, <2>2 DEF Clock!Live
    <3>2. Counted(u)' = Counted(u) BY <1>1, <1>2, <2>2 DEF Counted, Pending
    <3>3. QED BY <1>2, <2>2, <3>1, <3>2, BalanceIsKept DEF BalanceOK
  <2>3. CASE u = t
    <3>1. d \in Nat /\ d > 0 BY <1>2, <2>1, <2>3 DEF Clock!Live, Clock!Removed
    <3>2. fired'[t] * duration'[t] = 0 BY <1>2, <3>1
    <3>3. CASE timerPc = "idle"
      <4>1. Counted(t)' = 0 /\ by'[t] = 0 BY <1>1, <1>2, <3>3 DEF Counted, Pending
      <4>2. Late(t)' = 0 BY <4>1 DEF Late, Clock!Timers
      <4>3. MayBeEarly(t, 0)' BY DEF MayBeEarly
      <4>4. QED BY <1>2, <2>3, <3>2, <4>1, <4>2, <4>3 DEF Balanced
    <3>4. CASE timerPc = "handler"
      <4>1. at \in Nat /\ at > 0 /\ t \in Nat /\ frame \in Frames /\ by'[t] = at
        BY <1>2, <3>4 DEF Clock!TypeOK, Clock!Timers, WalkOK
      <4>2. CASE t = at
        <5>1. Counted(t)' = 0 - d
          BY <1>1, <1>2, <3>1, <3>4, <4>1, <4>2 DEF Counted, Pending
        <5>2. Late(t)' = d BY <1>2, <4>1, <4>2 DEF Late
        <5>3. MayBeEarly(t, 0)' BY DEF MayBeEarly
        <5>4. QED BY <1>2, <2>3, <3>1, <3>2, <5>1, <5>2, <5>3 DEF Balanced
      <4>3. CASE t > at
        <5> PICK e \in Nat : e = frame BY <4>1
        <5>1. Counted(t)' = e
          BY <1>1, <1>2, <3>1, <3>4, <4>1, <4>3 DEF Counted, Pending
        <5>2. Late(t)' = 0 BY <1>2, <4>1, <4>3 DEF Late
        <5>3. MayBeEarly(t, e)' BY <4>1, <4>3 DEF MayBeEarly
        <5>4. QED BY <1>2, <2>3, <3>2, <5>1, <5>2, <5>3 DEF Balanced
      <4>4. CASE t < at
        <5>1. Counted(t)' = 0
          BY <1>1, <1>2, <3>1, <3>4, <4>1, <4>4 DEF Counted, Pending
        <5>2. Late(t)' = 0 BY <1>2, <4>1, <4>4 DEF Late
        <5>3. MayBeEarly(t, 0)' BY DEF MayBeEarly
        <5>4. QED BY <1>2, <2>3, <3>2, <5>1, <5>2, <5>3 DEF Balanced
      <4>5. QED BY <4>1, <4>2, <4>3, <4>4
    <3>5. QED BY <1>1, <2>3, <3>3, <3>4
  <2>4. QED BY <2>2, <2>3
<1>5. ExpiredOK'
  <2>1. \A u \in Clock!Timers : u = t \/ (Clock!Live(u)' => Clock!Live(u))
    BY <1>2 DEF Clock!Live
  <2>2. Clock!Live(t)' => start'[t] < duration'[t] BY <1>2 DEF Clock!Live
  <2>3. QED BY <1>1, <1>2, <2>1, <2>2 DEF ExpiredOK
<1>6. WalkOK' BY <1>1 DEF WalkOK
<1>7. QED BY <1>3, <1>4, <1>5, <1>6

\* An update begins: every timer has the frame before it.
LEMMA UpdateTimersKeeps ==
  ASSUME ClockInv, NEW f \in Frames, Clock!UpdateTimers(f)
  PROVE  ClockInv'
<1> USE TimeIsWhole DEF ClockInv, Clock!UpdateTimers
<1>1. /\ timerPc = "idle" /\ timerPc' = "visit" /\ at' = 1 /\ frame' = f
      /\ updates < MaxUpdates /\ updates' = updates + 1
      /\ \A u \in Clock!Timers :
           elapsed'[u] = IF Clock!Live(u) THEN elapsed[u] + f ELSE elapsed[u]
      /\ UNCHANGED <<duration, start, triggers, sets, fired, by, cut>>
  OBVIOUS
<1>2. Clock!TypeOK'
  <2>1. elapsed' \in [Clock!Timers -> Nat] BY DEF Clock!TypeOK
  <2>2. at' \in Clock!Timers BY <1>1 DEF Clock!Timers
  <2>3. updates' \in 0 .. MaxUpdates BY <1>1 DEF Clock!TypeOK
  <2>4. QED BY <1>1, <2>1, <2>2, <2>3 DEF Clock!TypeOK
<1>3. BalanceOK'
  <2>1. SUFFICES ASSUME NEW u \in Clock!Timers, Clock!Live(u)' PROVE Balanced(u)'
    BY DEF BalanceOK
  <2>2. Clock!Live(u) BY <2>1 DEF Clock!Live
  <2>3. /\ f \in Nat /\ start[u] \in Int /\ elapsed[u] \in Nat /\ u \in Nat /\ u >= 1
        /\ duration[u] \in Int
    <3>1. duration[u] \in Int BY DurationIsWhole
    <3>2. QED BY <3>1 DEF Clock!TypeOK, Clock!Timers
  <2>4. Counted(u) = start[u] /\ Counted(u)' = start[u] + f
    BY <1>1, <2>3 DEF Counted, Pending
  <2>5. elapsed'[u] = elapsed[u] + f BY <1>1, <2>2
  <2>6. Late(u)' = Late(u) /\ Late(u) \in Int BY <1>1, <2>3 DEF Late
  <2>7. PICK e \in Nat : /\ MayBeEarly(u, e)
                         /\ Counted(u) + fired[u] * duration[u] + Late(u)
                              = elapsed[u] + e
    BY <2>2 DEF BalanceOK, Balanced
  <2>8. MayBeEarly(u, e)' BY <1>1, <2>7 DEF MayBeEarly
  <2>9. PICK p : p = fired[u] * duration[u] OBVIOUS
  <2>10. p \in Int BY <2>3, <2>9 DEF Clock!TypeOK
  <2>11. Counted(u)' + p + Late(u)' = elapsed'[u] + e
    BY <2>3, <2>4, <2>5, <2>6, <2>7, <2>9, <2>10
  <2>12. Counted(u)' >= 0 - Late(u)'
    BY <2>2, <2>3, <2>4, <2>6 DEF BalanceOK, Balanced
  <2>13. QED BY <1>1, <2>8, <2>9, <2>11, <2>12 DEF Balanced
<1>4. ExpiredOK' BY <1>1 DEF ExpiredOK, Clock!Live
<1>5. WalkOK' BY <1>1 DEF WalkOK
<1>6. QED BY <1>2, <1>3, <1>4, <1>5

\* The walk goes on: only the timer it leaves is not to be visited any more.
LEMMA AdvancePasses ==
  ASSUME Clock!TypeOK, timerPc \in {"visit", "while", "handler"}, Clock!Advance
  PROVE  /\ timerPc' \in {"visit", "sweep"} /\ at' \in Clock!Timers /\ triggers' = 0
         /\ \A u \in Clock!Timers :
              IF u = at THEN ~Pending(u)' ELSE Pending(u)' <=> Pending(u)
<1>1. at \in 1 .. Last /\ Clock!Timers = 1 .. Last
  BY DEF Clock!TypeOK, Clock!Timers
<1>2. CASE at < Last
  BY <1>1, <1>2, TimeIsWhole DEF Clock!Advance, Pending
<1>3. CASE ~(at < Last)
  BY <1>1, <1>3, TimeIsWhole DEF Clock!Advance, Pending
<1>4. QED BY <1>2, <1>3

\* A step of the walk that leaves what the timers count keeps their balance.
LEMMA WalkKeepsBalance ==
  ASSUME BalanceOK, UNCHANGED <<elapsed, fired, by>>,
         \A u \in Clock!Timers : Clock!Live(u)' =>
           Clock!Live(u) /\ duration'[u] = duration[u] /\ Counted(u)' = Counted(u)
  PROVE  BalanceOK'
BY BalanceIsKept DEF BalanceOK

\* The timer the walk is at is removed, found not expired or triggered too often,
\* or its handler removed it: the walk goes on.
LEMMA PassKeeps ==
  ASSUME ClockInv,
         \/ Clock!Remove \/ Clock!NotExpired \/ Clock!TooOften \/ Clock!HandlerRemoved
  PROVE  ClockInv'
<1> USE TimeIsWhole DEF ClockInv
<1>1. /\ timerPc \in {"visit", "while", "handler"}
      /\ UNCHANGED <<start, frame, updates, sets, elapsed, fired, by>>
      /\ duration' \in [Clock!Timers -> Durations \cup {Clock!Absent, Clock!Removed}]
      /\ \A u \in Clock!Timers :
           Clock!Live(u)' => Clock!Live(u) /\ duration'[u] = duration[u]
      /\ \A u \in Clock!Timers :
           Clock!Live(u)' /\ u = at =>
             timerPc = "while" /\ (start[u] < duration[u] \/ cut'[u])
      /\ cut' \in [Clock!Timers -> BOOLEAN]
      /\ \A u \in Clock!Timers : u # at => cut'[u] = cut[u]
  <2>1. CASE Clock!Remove \/ Clock!NotExpired \/ Clock!HandlerRemoved
    BY <2>1 DEF Clock!Remove, Clock!NotExpired, Clock!HandlerRemoved, Clock!Advance,
                Clock!TypeOK, Clock!Live, Clock!Absent
  <2>2. CASE Clock!TooOften
    BY <2>2 DEF Clock!TooOften, Clock!Expired, Clock!Advance, Clock!TypeOK,
                Clock!Live
  <2>3. QED BY <2>1, <2>2
<1>2. \/ Clock!Advance
      \/ /\ at' = at /\ timerPc' = "sweep"
         /\ triggers' = 0 /\ \A u \in Clock!Timers : ~Clock!Live(u)'
  BY DEF Clock!Remove, Clock!NotExpired, Clock!TooOften, Clock!HandlerRemoved,
         Clock!Live, Clock!Absent
<1>3. timerPc' \in {"visit", "sweep"} /\ at' \in Clock!Timers /\ triggers' = 0
  BY <1>1, <1>2, AdvancePasses DEF Clock!TypeOK
<1>4. Clock!TypeOK' BY <1>1, <1>3, TimeIsWhole DEF Clock!TypeOK
<1>5. BalanceOK'
  <2>1. SUFFICES ASSUME NEW u \in Clock!Timers, Clock!Live(u)'
                 PROVE  Counted(u)' = Counted(u)
    BY <1>1, WalkKeepsBalance
  <2>2. Clock!Advance BY <1>2, <2>1
  <2>3. CASE u = at
    <3>1. timerPc = "while" BY <1>1, <2>1, <2>3
    <3>2. ~Pending(u)' BY <1>1, <2>2, <2>3, AdvancePasses
    <3>3. ~Pending(u) BY <2>3, <3>1 DEF Pending, Clock!Timers
    <3>4. QED BY <1>1, <1>3, <3>1, <3>2, <3>3 DEF Counted
  <2>4. CASE u # at
    <3>1. Pending(u)' <=> Pending(u) BY <1>1, <2>2, <2>4, AdvancePasses
    <3>2. QED BY <1>1, <1>3, <2>4, <3>1 DEF Counted
  <2>5. QED BY <2>3, <2>4
<1>6. ExpiredOK'
  <2>1. SUFFICES ASSUME NEW u \in Clock!Timers, Clock!Live(u)', ~cut'[u]
                 PROVE  start'[u] < duration'[u]
    BY DEF ExpiredOK
  <2>2. CASE u = at BY <1>1, <2>1, <2>2
  <2>3. CASE u # at BY <1>1, <2>1, <2>3 DEF ExpiredOK
  <2>4. QED BY <2>2, <2>3
<1>7. WalkOK' BY <1>1, <1>3 DEF WalkOK
<1>8. QED BY <1>4, <1>5, <1>6, <1>7

\* The timer the walk is at gets its frame.
LEMMA CountKeeps ==
  ASSUME ClockInv, Clock!Count
  PROVE  ClockInv'
<1> USE TimeIsWhole DEF ClockInv, Clock!Count
<1>1. /\ timerPc = "visit" /\ timerPc' = "while" /\ Clock!Live(at)
      /\ start' = [start EXCEPT ![at] = @ + frame] /\ at' = at
      /\ cut' = [cut EXCEPT ![at] = FALSE]
      /\ UNCHANGED <<duration, frame, triggers, updates, sets, elapsed, fired, by>>
  OBVIOUS
<1>2. at \in Clock!Timers /\ frame \in Int /\ frame \in Frames
  BY <1>1 DEF Clock!TypeOK, WalkOK
<1>3. Clock!TypeOK'
  <2>1. start' \in [Clock!Timers -> Int] /\ cut' \in [Clock!Timers -> BOOLEAN]
    BY <1>1, <1>2 DEF Clock!TypeOK
  <2>2. QED BY <1>1, <2>1 DEF Clock!TypeOK
<1>4. \A u \in Clock!Timers : Clock!Live(u)' => Clock!Live(u) BY <1>1 DEF Clock!Live
<1>5. \A u \in Clock!Timers : Counted(u)' = Counted(u)
  <2>1. TAKE u \in Clock!Timers
  <2>2. u \in Int /\ at \in Int /\ start[u] \in Int
    BY <1>2 DEF Clock!TypeOK, Clock!Timers
  <2>3. CASE u = at BY <1>1, <1>2, <2>2, <2>3 DEF Counted, Pending, Clock!TypeOK
  <2>4. CASE u # at BY <1>1, <1>2, <2>2, <2>4 DEF Counted, Pending, Clock!TypeOK
  <2>5. QED BY <2>3, <2>4
<1>6. BalanceOK' BY <1>1, <1>4, <1>5, WalkKeepsBalance
<1>7. ExpiredOK' BY <1>1, <1>2, <1>4 DEF ExpiredOK, Clock!TypeOK
<1>8. WalkOK' BY <1>1 DEF WalkOK, Clock!Live
<1>9. QED BY <1>3, <1>6, <1>7, <1>8

LEMMA OneMore == ASSUME NEW m \in Int, NEW n \in Int PROVE (m + 1) * n = m * n + n
OBVIOUS

\* A timer that expired is triggered: the period is taken off when its handler
\* returns.
LEMMA TriggerKeeps ==
  ASSUME ClockInv, Clock!Trigger
  PROVE  ClockInv'
<1> USE TimeIsWhole DEF ClockInv, Clock!Trigger, Clock!Expired
<1>1. /\ timerPc = "while" /\ timerPc' = "handler" /\ Clock!Live(at)
      /\ start[at] >= duration[at] /\ at' = at
      /\ fired' = [fired EXCEPT ![at] = @ + 1]
      /\ triggers + 1 < MaxTriggers /\ triggers' = triggers + 1
      /\ UNCHANGED <<duration, start, frame, updates, sets, elapsed, by, cut>>
  BY DEF WalkOK
<1>2. at \in Clock!Timers BY DEF Clock!TypeOK
<1>3. Clock!TypeOK'
  <2>1. fired' \in [Clock!Timers -> Nat] /\ triggers' \in 0 .. MaxTriggers
    BY <1>1, <1>2 DEF Clock!TypeOK
  <2>2. QED BY <1>1, <2>1 DEF Clock!TypeOK
<1>4. BalanceOK'
  <2>1. SUFFICES ASSUME NEW u \in Clock!Timers, Clock!Live(u)' PROVE Balanced(u)'
    BY DEF BalanceOK
  <2>2. Clock!Live(u) BY <1>1, <2>1 DEF Clock!Live
  <2>3. /\ u \in Int /\ at \in Int /\ start[u] \in Int /\ duration[u] \in Int
        /\ fired[u] \in Int /\ elapsed[u] \in Int
    <3>1. duration[u] \in Int BY DurationIsWhole
    <3>2. QED BY <1>2, <3>1 DEF Clock!TypeOK, Clock!Timers
  <2>4. CASE u # at
    <3>1. Counted(u)' = Counted(u) BY <1>1, <2>3, <2>4 DEF Counted, Pending
    <3>2. fired'[u] = fired[u] BY <1>1, <2>4 DEF Clock!TypeOK
    <3>3. QED BY <1>1, <2>2, <3>1, <3>2, BalanceIsKept DEF BalanceOK
  <2>5. CASE u = at
    <3>1. Counted(u) = start[u] /\ Counted(u)' = start[u] - duration[u]
      BY <1>1, <2>3, <2>5 DEF Counted, Pending
    <3>2. fired'[u] = fired[u] + 1 BY <1>1, <2>5 DEF Clock!TypeOK
    <3>3. Late(u)' = Late(u) /\ Late(u) \in Int /\ Late(u) >= 0
      BY <1>1, <2>2, <2>3 DEF Late, Clock!Live
    <3>4. PICK e \in Nat : /\ MayBeEarly(u, e)
                           /\ Counted(u) + fired[u] * duration[u] + Late(u)
                                = elapsed[u] + e
      BY <2>2 DEF BalanceOK, Balanced
    <3>5. MayBeEarly(u, e)' BY <1>1, <3>4 DEF MayBeEarly
    <3>6. PICK p \in Int : p = fired[u] * duration[u] BY <2>3
    <3>7. (fired[u] + 1) * duration[u] = p + duration[u] BY <2>3, <3>6, OneMore
    <3>8. Counted(u)' + (p + duration[u]) + Late(u)' = elapsed'[u] + e
      BY <1>1, <2>3, <3>1, <3>3, <3>4, <3>6
    <3>9. Counted(u)' >= 0 - Late(u)' BY <1>1, <2>3, <2>5, <3>1, <3>3
    <3>10. QED BY <1>1, <3>2, <3>5, <3>7, <3>8, <3>9 DEF Balanced
  <2>6. QED BY <2>4, <2>5
<1>5. ExpiredOK' BY <1>1 DEF ExpiredOK, Clock!Live
<1>6. WalkOK' BY <1>1 DEF WalkOK
<1>7. QED BY <1>3, <1>4, <1>5, <1>6

\* The handler returns and leaves its timer in the map: the period is taken off.
LEMMA HandlerReturnsKeeps ==
  ASSUME ClockInv, Clock!HandlerReturns
  PROVE  ClockInv'
<1> USE TimeIsWhole DEF ClockInv, Clock!HandlerReturns
<1>1. /\ timerPc = "handler" /\ timerPc' = "while" /\ Clock!Live(at) /\ at' = at
      /\ start' = [start EXCEPT ![at] = @ - duration[at]]
      /\ UNCHANGED <<duration, frame, triggers, updates, sets, elapsed, fired, by,
                     cut>>
  OBVIOUS
<1>2. at \in Clock!Timers /\ duration[at] \in Int
  BY DurationIsWhole DEF Clock!TypeOK
<1>3. Clock!TypeOK'
  <2>1. start' \in [Clock!Timers -> Int] BY <1>1, <1>2 DEF Clock!TypeOK
  <2>2. QED BY <1>1, <2>1 DEF Clock!TypeOK
<1>4. \A u \in Clock!Timers : Clock!Live(u)' => Clock!Live(u) BY <1>1 DEF Clock!Live
<1>5. \A u \in Clock!Timers : Counted(u)' = Counted(u)
  <2>1. TAKE u \in Clock!Timers
  <2>2. u \in Int /\ at \in Int /\ start[u] \in Int
    BY <1>2 DEF Clock!TypeOK, Clock!Timers
  <2>3. CASE u = at BY <1>1, <1>2, <2>2, <2>3 DEF Counted, Pending, Clock!TypeOK
  <2>4. CASE u # at BY <1>1, <1>2, <2>2, <2>4 DEF Counted, Pending, Clock!TypeOK
  <2>5. QED BY <2>3, <2>4
<1>6. BalanceOK' BY <1>1, <1>4, <1>5, WalkKeepsBalance
<1>7. ExpiredOK' BY <1>1, <1>2, <1>4 DEF ExpiredOK, Clock!TypeOK
<1>8. WalkOK' BY <1>1 DEF WalkOK, Clock!Live
<1>9. QED BY <1>3, <1>6, <1>7, <1>8

\* The last removals of an update.
LEMMA SweepKeeps ==
  ASSUME ClockInv, Clock!Sweep
  PROVE  ClockInv'
<1> USE TimeIsWhole DEF ClockInv, Clock!Sweep
<1>1. /\ timerPc = "sweep" /\ timerPc' = "idle"
      /\ UNCHANGED <<start, at, frame, triggers, updates, sets, elapsed, fired, by,
                     cut>>
      /\ duration' \in [Clock!Timers -> Durations \cup {Clock!Absent, Clock!Removed}]
      /\ \A u \in Clock!Timers :
           Clock!Live(u)' => Clock!Live(u) /\ duration'[u] = duration[u]
  BY DEF Clock!TypeOK, Clock!Live, Clock!Absent
<1>2. Clock!TypeOK' BY <1>1 DEF Clock!TypeOK
<1>3. \A u \in Clock!Timers : Counted(u)' = Counted(u)
  BY <1>1 DEF Counted, Pending
<1>4. BalanceOK' BY <1>1, <1>3, WalkKeepsBalance
<1>5. ExpiredOK' BY <1>1 DEF ExpiredOK
<1>6. WalkOK' BY <1>1 DEF WalkOK
<1>7. QED BY <1>2, <1>4, <1>5, <1>6

LEMMA ClockNext == ClockInv /\ [Clock!Next]_Clock!vars => ClockInv'
<1> SUFFICES ASSUME ClockInv, [Clock!Next]_Clock!vars PROVE ClockInv' OBVIOUS
<1>1. CASE UNCHANGED Clock!vars
  <2>1. /\ UNCHANGED <<duration, start, timerPc, at, frame, triggers, updates, sets,
                       elapsed, fired, by, cut>>
    BY <1>1 DEF Clock!vars
  <2>2. \A u : Counted(u)' = Counted(u) BY <2>1 DEF Counted, Pending
  <2>3. BalanceOK' BY <2>1, <2>2, WalkKeepsBalance DEF ClockInv, Clock!Live
  <2>4. QED BY <2>1, <2>3 DEF ClockInv, Clock!TypeOK, ExpiredOK, WalkOK, Clock!Live
<1>2. CASE Clock!Next
  BY <1>2, SetTimerKeeps, ChangeTimersKeeps, UpdateTimersKeeps, PassKeeps,
     CountKeeps, TriggerKeeps, HandlerReturnsKeeps, SweepKeeps
  DEF Clock!Next
<1>3. QED BY <1>1, <1>2

LEMMA ClockInvariant == Clock!Spec => []ClockInv
BY ClockInit, ClockNext, PTL DEF Clock!Spec

\* Between updates every timer was triggered once for each of its periods that has
\* passed, less those that the last update left when it had triggered the timer as
\* often as it may, however frames and periods fall; the handlers may set, mark and
\* clear the timers meanwhile, but set none once they have cleared them
\* (UpdateTimers, SetTimer and InvalidateHandlerTimers of TimerManager.h).
THEOREM TimersAreOnTime == Clock!Spec => []OnTime
<1>1. ASSUME ClockInv, timerPc = "idle", NEW t \in Clock!Timers, Clock!Live(t)
      PROVE  /\ \/ fired[t] * duration[t] <= elapsed[t]
                \/ by[t] # 0 /\ \E f \in Frames :
                                   fired[t] * duration[t] <= elapsed[t] + f
             /\ \/ cut[t]
                \/ elapsed[t] < (fired[t] + (IF by[t] = t THEN 2 ELSE 1)) * duration[t]
  <2>1. /\ start[t] \in Int /\ duration[t] \in Int /\ fired[t] \in Int
        /\ elapsed[t] \in Int /\ frame \in Int
    BY <1>1, TimeIsWhole, DurationIsWhole DEF ClockInv, Clock!TypeOK
  <2>2. Counted(t) = start[t] BY <1>1, <2>1 DEF Counted, Pending
  <2>3. cut[t] \/ start[t] < duration[t] BY <1>1 DEF ClockInv, ExpiredOK
  <2>4. PICK p \in Int : p = fired[t] * duration[t] BY <2>1
  <2>5. PICK e \in Nat : MayBeEarly(t, e) /\ start[t] + p + Late(t) = elapsed[t] + e
    BY <1>1, <2>2, <2>4 DEF ClockInv, BalanceOK, Balanced
  <2>6. start[t] >= 0 - Late(t) /\ Late(t) \in Int
    BY <1>1, <2>1, <2>2 DEF ClockInv, BalanceOK, Balanced, Late
  <2>7. p <= elapsed[t] + e BY <2>1, <2>5, <2>6
  <2>8. \/ p <= elapsed[t]
        \/ by[t] # 0 /\ \E f \in Frames : p <= elapsed[t] + f
    <3>1. CASE e = 0 BY <2>1, <2>7, <3>1
    <3>2. CASE e \in Frames /\ by[t] # 0 BY <2>7, <3>2
    <3>3. QED BY <2>5, <3>1, <3>2 DEF MayBeEarly
  <2>9. ASSUME start[t] < duration[t]
        PROVE  elapsed[t] < (fired[t] + (IF by[t] = t THEN 2 ELSE 1)) * duration[t]
    <3>1. elapsed[t] < p + duration[t] + Late(t) BY <2>1, <2>5, <2>6, <2>9
    <3>2. /\ (fired[t] + 1) * duration[t] = p + duration[t]
          /\ (fired[t] + 2) * duration[t] = p + duration[t] + duration[t]
      BY <2>1, <2>4
    <3>3. CASE by[t] = t BY <2>1, <3>1, <3>2, <3>3 DEF Late
    <3>4. CASE by[t] # t BY <2>1, <3>1, <3>2, <3>4 DEF Late
    <3>5. QED BY <3>3, <3>4
  <2>10. QED BY <2>3, <2>4, <2>8, <2>9
<1>2. ClockInv => OnTime BY <1>1 DEF OnTime, Clock!OnTime
<1>3. QED BY <1>2, ClockInvariant, PTL

(***************************************************************************)
(* The request.  FetchProofs proves it for Fetch as it stands; here its    *)
(* results are used for the transfer of Components.                        *)
(***************************************************************************)

Requests ==
  INSTANCE FetchProofs WITH
    pc <- fetchPc, state <- fetch

\* The transfer is the request FetchProofs is about.
LEMMA SameSpec == Transfer!Spec => Requests!Spec
<1>1. Transfer!Init => Requests!Init BY DEF Transfer!Init, Requests!Init
<1>2. Transfer!Next => Requests!Next
  BY DEF Transfer!Next, Transfer!Worker, Transfer!Run, Transfer!ReadPostData,
         Transfer!WriteRecvHeader, Transfer!WriteRecvData, Transfer!Progress,
         Transfer!CallsBack, Transfer!EndTransfer, Transfer!Send, Transfer!SetValue,
         Transfer!ThrownAway, Transfer!Dispatch, Transfer!Handle,
         Transfer!CodeMessages, Transfer!StateMessages, Transfer!UpdateState,
         Transfer!Message, Transfer!ReadyAfter, Transfer!OutcomeAfter,
         Transfer!workerVars, Transfer!requestVars, Transfer!fileVars,
         Requests!Next, Requests!Worker, Requests!Run, Requests!ReadPostData,
         Requests!WriteRecvHeader, Requests!WriteRecvData, Requests!Progress,
         Requests!CallsBack, Requests!EndTransfer, Requests!Send, Requests!SetValue,
         Requests!ThrownAway, Requests!Dispatch, Requests!Handle,
         Requests!CodeMessages, Requests!StateMessages, Requests!UpdateState,
         Requests!Message, Requests!ReadyAfter, Requests!OutcomeAfter,
         Requests!workerVars, Requests!requestVars, Requests!fileVars
<1>3. UNCHANGED Transfer!vars => UNCHANGED Requests!vars
  BY DEF Transfer!vars, Transfer!workerVars, Transfer!requestVars, Transfer!fileVars,
         Requests!vars, Requests!workerVars, Requests!requestVars, Requests!fileVars
<1>4. QED BY <1>1, <1>2, <1>3, PTL DEF Transfer!Spec, Requests!Spec

\* A request is opened once and Done once, and nothing is reported after that
\* (CURL.cpp, the handler of _Fetch).
THEOREM RequestsAreKept == Transfer!Spec => ImplementsRequest
<1>1. Requests!ZeroCode BY ComponentsAssumption DEF Requests!ZeroCode
<1>2. Requests!Spec => Requests!ImplementsRequest
  BY <1>1, Requests!FetchImplementsRequest
<1>3. Requests!ImplementsRequest => ImplementsRequest
  BY DEF Requests!ImplementsRequest, Requests!Request!Spec, ImplementsRequest,
         Transfer!ImplementsRequest, Transfer!Request!Spec,
         Requests!Request!Init, Requests!Request!Next, Requests!Request!vars,
         Transfer!Request!Init, Transfer!Request!Next, Transfer!Request!vars,
         Transfer!Request!Open, Transfer!Request!Report, Transfer!Request!Finish,
         Requests!Request!Open, Requests!Request!Report, Requests!Request!Finish
<1>4. QED BY <1>2, <1>3, SameSpec, PTL

\* Who sees a value in the future of a request, and has dispatched its messages, was
\* told the outcome if libcurl called back before the end and the queue refused no
\* message that tells of it, was told the status if the queue refused none that tells
\* of it, and can read the headers if the message that rewinds them was not refused
\* and none came after data (CURL.cpp, _RunSingle).
THEOREM RequestsAreTold == Transfer!Spec => []DoneMeansTold
<1>1. Requests!ZeroCode
  BY ComponentsAssumption DEF Requests!ZeroCode
<1>2. Requests!Spec => []Requests!DoneMeansTold BY <1>1, Requests!DoneIsTold
<1>3. Requests!DoneMeansTold => DoneMeansTold
  BY DEF Requests!DoneMeansTold, DoneMeansTold, Transfer!DoneMeansTold
<1>4. QED BY <1>2, <1>3, SameSpec, PTL

(***************************************************************************)
(* All the components.                                                     *)
(***************************************************************************)

\* Every component keeps the types of its state, whatever the number of threads,
\* strings, pointers, resources, timers and messages, of a program that makes one call
\* of Wait at a time and keeps a thread's future until it is done.
THEOREM ComponentsAreTyped ==
  ASSUME Contract
  PROVE  ComponentsSpec => []AllTyped
<1>1. Spec => []TypeOK
  <2>1. IInv => TypeOK BY DEF IInv
  <2>2. QED BY <2>1, Invariant, PTL
<1>2. Shared!Spec => []Shared!TypeOK
  <2>1. ValueInv => Shared!TypeOK BY DEF ValueInv
  <2>2. QED BY <2>1, ValueInvariant, PTL
<1>3. Pooled!Spec => []Pooled!TypeOK
  <2>1. PoolInv => Pooled!TypeOK BY DEF PoolInv
  <2>2. QED BY <2>1, PoolInvariant, PTL
<1>4. Strings!Spec => []Strings!TypeOK
  <2>1. StringsInv => Strings!TypeOK BY DEF StringsInv
  <2>2. QED BY <2>1, StringsInit, StringsNext, PTL DEF Strings!Spec
<1>5. Weak!Spec => []Weak!TypeOK
  <2>1. WeakInv => Weak!TypeOK BY DEF WeakInv
  <2>2. QED BY <2>1, WeakInit, WeakNext, PTL DEF Weak!Spec
<1>6. Transfer!Spec => []Transfer!TypeOK
  <2>1. Requests!ZeroCode /\ Requests!Bounds
    BY ComponentsAssumption DEF Requests!ZeroCode, Requests!Bounds
  <2>2. Requests!Spec => []Requests!TypeOK BY <2>1, Requests!FetchIsTyped
  <2>3. Requests!TypeOK => Transfer!TypeOK
    BY DEF Requests!TypeOK, Transfer!TypeOK, Requests!Kinds, Transfer!Kinds
  <2>4. QED BY <2>2, <2>3, SameSpec, PTL
<1>7. Devices!Spec => []Devices!TypeOK
  <2>1. DevicesInv => Devices!TypeOK BY DEF DevicesInv
  <2>2. QED BY <2>1, DevicesInit, DevicesNext, PTL DEF Devices!Spec
<1>8. Clock!Spec => []Clock!TypeOK
  <2>1. ClockInv => Clock!TypeOK BY DEF ClockInv
  <2>2. QED BY <2>1, ClockInvariant, PTL
<1>9. QED
  BY <1>1, <1>2, <1>3, <1>4, <1>5, <1>6, <1>7, <1>8, PTL DEF ComponentsSpec, AllTyped
===============================================================================
