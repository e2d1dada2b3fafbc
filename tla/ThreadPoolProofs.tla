-------------------------- MODULE ThreadPoolProofs --------------------------
(***************************************************************************)
(* Theorems about ThreadPool, for every number of threads, runnables and   *)
(* stoppers, and every set of calls.                                       *)
(***************************************************************************)
EXTENDS ThreadPool, FiniteSetTheorems, TLAPS

\* The threads are the numbers from 0, and the two scans start within them.
LEMMA ScansStart ==
  /\ 0 \in Workers
  /\ NumThreads - 1 \in Workers
  /\ ScanUp \in UpScan
  /\ ScanDown \in DownScan
  /\ NoCall \in CallRecord
<1>1. 0 \in Workers /\ NumThreads - 1 \in Workers
  BY PoolAssumption DEF Workers
<1>2. MaxCost \in Nat
  BY PoolAssumption, FS_CardinalityType DEF MaxCost
<1>3. ScanUp \in UpScan /\ ScanDown \in DownScan
  BY <1>1, <1>2, PoolAssumption DEF ScanUp, ScanDown, UpScan, DownScan
<1>4. NoCall \in CallRecord
  BY DEF NoCall, CallRecord, Ops
<1> QED BY <1>1, <1>3, <1>4

\* What the fields of a scan are.
LEMMA ScanFields ==
  /\ \A c \in UpScan : c.next \in 0 .. NumThreads /\ c.best \in Workers
                       /\ c.cost \in Nat
  /\ \A v \in DownScan : v.next \in -1 .. NumThreads - 1 /\ v.best \in Workers
                         /\ v.cost \in Nat
BY DEF UpScan, DownScan

\* One turn of a scan that has not come to its end yields a scan.
LEMMA ScanTurns ==
  /\ \A c \in UpScan, k \in Nat :
       c.next < NumThreads =>
         /\ c.next \in Workers
         /\ [next |-> c.next + 1, best |-> c.next, cost |-> k] \in UpScan
         /\ [c EXCEPT !.next = c.next + 1] \in UpScan
  /\ \A v \in DownScan, k \in Nat :
       v.next >= 0 =>
         /\ v.next \in Workers
         /\ [next |-> v.next - 1, best |-> v.next, cost |-> k] \in DownScan
         /\ [v EXCEPT !.next = v.next - 1] \in DownScan
BY PoolAssumption DEF UpScan, DownScan, Workers

\* A queue has a cost.
LEMMA CostType == ASSUME TypeOK, NEW w \in Workers PROVE Cost(w) \in Nat
  BY DEF TypeOK, Cost

LEMMA TypeInit == Init => TypeOK
<1> SUFFICES ASSUME Init PROVE TypeOK OBVIOUS
<1>1. queue \in [Workers -> Seq(Runnables)]
  BY DEF Init
<1>2. call \in [Stoppers -> CallRecord] /\ victim \in [Workers -> DownScan]
      /\ choice \in [Runnables -> UpScan]
  BY ScansStart DEF Init
<1>3. wpc \in [Workers -> WorkerPCs] /\ cpc \in [Runnables -> CallerPCs]
      /\ spc \in [Stoppers -> StopperPCs]
  BY DEF Init, WorkerPCs, CallerPCs, StopperPCs
<1>4. at \in [Stoppers -> 0 .. NumThreads]
  BY PoolAssumption DEF Init
<1>5. /\ canAdd \in [Workers -> BOOLEAN]
      /\ hasRunnable \in [Workers -> BOOLEAN]
      /\ isBusy \in [Workers -> BOOLEAN]
      /\ hand \in [Workers -> Runnables \cup {None}]
      /\ made \in [Stoppers -> Nat]
      /\ answer \in [Stoppers -> {"none", "yes", "no"}]
      /\ starts \in [Runnables -> Nat]
  BY DEF Init
<1>6. mode \in 0 .. 2 /\ doneCount \in Nat /\ life \in {"live", "dying", "freed"}
  BY DEF Init
<1>7. /\ doneEvent \in BOOLEAN /\ sawNow \in BOOLEAN
      /\ finished \subseteq Runnables /\ early \subseteq Runnables
      /\ late \in [Workers -> Nat]
  BY DEF Init
<1> QED BY <1>1, <1>2, <1>3, <1>4, <1>5, <1>6, <1>7 DEF TypeOK

LEMMA TypeNext == TypeOK /\ HandsMatch /\ [Next]_vars => TypeOK'
<1> SUFFICES ASSUME TypeOK, HandsMatch, [Next]_vars PROVE TypeOK' OBVIOUS
<1> USE DEF queueVars, workerVars, callerVars, stopperVars, poolVars, runVars,
            historyVars
<1>1. ASSUME NEW r \in Runnables, Caller(r) PROVE TypeOK'
  <2>1. CASE ExecuteRefused(r)
    BY <2>1 DEF ExecuteRefused, TypeOK, CallerPCs
  <2>2. CASE ExecuteBegin(r)
    BY <2>2 DEF ExecuteBegin, TypeOK, CallerPCs
  <2>3. CASE ExecuteLook(r)
    <3>1. choice[r] \in UpScan /\ choice[r].next < NumThreads
      BY <2>3 DEF ExecuteLook, TypeOK
    <3>2. PICK c \in UpScan : choice' = [choice EXCEPT ![r] = c]
      BY <2>3, <3>1, CostType, ScanTurns DEF ExecuteLook
    <3> QED BY <2>3, <3>2 DEF ExecuteLook, TypeOK
  <2>4. CASE ExecuteAdd(r)
    <3>1. choice[r].best \in Workers
      BY ScanFields DEF TypeOK
    <3>2. choice' \in [Runnables -> UpScan]
      BY <2>4, ScansStart DEF ExecuteAdd, TypeOK
    <3>3. CASE canAdd[choice[r].best]
      <4>1. queue' \in [Workers -> Seq(Runnables)]
        <5>1. queue' = [queue EXCEPT ![choice[r].best]
                               = Append(queue[choice[r].best], r)]
          BY <2>4, <3>3 DEF ExecuteAdd
        <5>2. Append(queue[choice[r].best], r) \in Seq(Runnables)
          BY <3>1 DEF TypeOK
        <5> QED BY <5>1, <5>2 DEF TypeOK
      <4>2. wpc' \in [Workers -> WorkerPCs]
            /\ hasRunnable' \in [Workers -> BOOLEAN]
        BY <2>4, <3>1, <3>3 DEF ExecuteAdd, SignalWorker, TypeOK, WorkerPCs
      <4>3. cpc' \in [Runnables -> CallerPCs] /\ early' \subseteq Runnables
        <5>1. cpc' = [cpc EXCEPT ![r] = "accepted"] /\ early' \subseteq early \cup {r}
          BY <2>4, <3>3 DEF ExecuteAdd
        <5> QED BY <5>1 DEF TypeOK, CallerPCs
      <4> QED BY <2>4, <3>2, <4>1, <4>2, <4>3 DEF ExecuteAdd, TypeOK
    <3>4. CASE ~canAdd[choice[r].best]
      BY <2>4, <3>2, <3>4 DEF ExecuteAdd, TypeOK, CallerPCs
    <3> QED BY <3>3, <3>4
  <2> QED BY <1>1, <2>1, <2>2, <2>3, <2>4 DEF Caller
<1>2. ASSUME NEW w \in Workers, Worker(w) \/ WakeSpuriously(w) PROVE TypeOK'
  <2> USE DEF Goes
  <2>1. CASE WaitPasses(w) \/ WaitBlocks(w) \/ WakeSpuriously(w)
    BY <2>1 DEF WaitPasses, WaitBlocks, WakeSpuriously, TypeOK, WorkerPCs
  <2>2. CASE ResetOwnEvent(w)
    BY <2>2 DEF ResetOwnEvent, TypeOK, WorkerPCs
  <2>3. CASE CheckNow(w)
    BY <2>3 DEF CheckNow, TypeOK, WorkerPCs
  <2>4. CASE CheckPasses(w)
    BY <2>4 DEF CheckPasses, TypeOK, WorkerPCs
  <2>5. CASE Poll(w)
    <3>1. queue[w] \in Seq(Runnables)
      BY DEF TypeOK
    <3>2. queue[w] # <<>> => Head(queue[w]) \in Runnables
                             /\ Tail(queue[w]) \in Seq(Runnables)
      BY <3>1
    <3> QED BY <2>5, <3>2 DEF Poll, TypeOK, WorkerPCs
  <2>6. CASE PolledOne(w) \/ PolledNone(w)
    <3>a. late \in [Workers -> Nat]
      BY DEF TypeOK
    <3>1. late' \in [Workers -> Nat]
      <4>1. CASE PolledOne(w)
        BY <3>a, <4>1 DEF PolledOne, Takes
      <4>2. CASE PolledNone(w)
        BY <3>a, <4>2 DEF PolledNone
      <4> QED BY <2>6, <4>1, <4>2
    <3> QED BY <2>6, <3>1 DEF PolledOne, PolledNone, TypeOK, WorkerPCs
  <2>7. CASE RecheckNow(w) \/ RecheckPasses(w)
    BY <2>7 DEF RecheckNow, RecheckPasses, TypeOK, WorkerPCs
  <2>8. CASE StealLook(w)
    <3>1. victim[w] \in DownScan /\ victim[w].next >= 0
      BY <2>8 DEF StealLook, TypeOK
    <3>2. PICK v \in DownScan : victim' = [victim EXCEPT ![w] = v]
      BY <2>8, <3>1, CostType, ScanTurns DEF StealLook
    <3> QED BY <2>8, <3>2 DEF StealLook, TypeOK, WorkerPCs
  <2>9. CASE StealPoll(w)
    <3> DEFINE v == victim[w].best
    <3>1. v \in Workers /\ queue[v] \in Seq(Runnables)
      BY ScanFields DEF TypeOK
    <3>2. queue[v] # <<>> => Head(queue[v]) \in Runnables
                             /\ Tail(queue[v]) \in Seq(Runnables)
      BY <3>1
    <3>3. queue' \in [Workers -> Seq(Runnables)]
          /\ hand' \in [Workers -> Runnables \cup {None}]
      BY <2>9, <3>1, <3>2 DEF StealPoll, TypeOK
    <3>4. victim' \in [Workers -> DownScan]
      BY <2>9, ScansStart DEF StealPoll, TypeOK
    <3>5. wpc' \in [Workers -> WorkerPCs]
          /\ hasRunnable' \in [Workers -> BOOLEAN]
      BY <2>9, <3>1 DEF StealPoll, TypeOK, WorkerPCs
    <3>6. late' \in [Workers -> Nat]
      BY <2>9 DEF StealPoll, Takes, TypeOK
    <3> QED BY <2>9, <3>3, <3>4, <3>5, <3>6 DEF StealPoll, TypeOK
  <2>10. CASE RunBegins(w)
    <3>1. hand[w] \in Runnables
      BY <2>10 DEF RunBegins, HandsMatch, TypeOK
    <3> QED BY <2>10, <3>1 DEF RunBegins, TypeOK, WorkerPCs
  <2>11. CASE RunReturns(w)
    <3>1. hand[w] \in Runnables
      BY <2>11 DEF RunReturns, HandsMatch, TypeOK
    <3> QED BY <2>11, <3>1 DEF RunReturns, TypeOK, WorkerPCs
  <2>12. CASE BecomeIdle(w) \/ AgainOrEnd(w)
    BY <2>12 DEF BecomeIdle, AgainOrEnd, TypeOK, WorkerPCs
  <2>13. CASE WorkerCounts(w)
    BY <2>13 DEF WorkerCounts, CountDone, TypeOK, WorkerPCs
  <2>14. CASE WorkerExits(w)
    BY <2>14 DEF WorkerExits, TypeOK, WorkerPCs
  <2> QED BY <1>2, <2>1, <2>2, <2>3, <2>4, <2>5, <2>6, <2>7, <2>8, <2>9, <2>10,
             <2>11, <2>12, <2>13, <2>14 DEF Worker
<1>3. ASSUME NEW s \in Stoppers,
             Stopper(s) \/ StopperBegins(s) \/ WaitReturnsSpuriously(s)
      PROVE TypeOK'
  <2> USE DEF Returns
  <2>1. CASE SetMode(s)
    BY <2>1 DEF SetMode, TypeOK, StopperPCs
  <2>2. CASE LoopCounts(s)
    <3>1. at[s] \in Workers /\ at'[s] \in 0 .. NumThreads
      BY <2>2, PoolAssumption DEF LoopCounts, TypeOK, Workers
    <3> QED BY <2>2, <3>1 DEF LoopCounts, CountDone, TypeOK
  <2>3. CASE LoopSignals(s)
    <3>1. at[s] \in Workers /\ at'[s] \in 0 .. NumThreads
      BY <2>3, PoolAssumption DEF LoopSignals, TypeOK, Workers
    <3> QED BY <2>3, <3>1 DEF LoopSignals, SignalWorker, TypeOK, WorkerPCs
  <2>4. CASE LoopEnds(s)
    BY <2>4, PoolAssumption DEF LoopEnds, TypeOK, StopperPCs
  <2>5. CASE WaitReturns(s) \/ WaitTimesOut(s) \/ WaitReturnsSpuriously(s)
    <3>1. PICK b \in {"yes", "no"} :
            /\ Returns(s, call[s], b)
            /\ UNCHANGED <<queueVars, workerVars, callerVars, at, made, poolVars,
                           runVars, historyVars>>
      BY <2>5 DEF WaitReturns, WaitTimesOut, WaitReturnsSpuriously
    <3>2. answer' \in [Stoppers -> {"none", "yes", "no"}]
      BY <3>1 DEF TypeOK
    <3>3. call' \in [Stoppers -> CallRecord] /\ spc' \in [Stoppers -> StopperPCs]
      BY <3>1, ScansStart DEF TypeOK, StopperPCs
    <3> QED BY <3>1, <3>2, <3>3
            DEF TypeOK, queueVars, workerVars, callerVars, poolVars, runVars,
                historyVars
  <2>6. CASE StopperBlocks(s) \/ DeleteThreads(s)
    BY <2>6 DEF StopperBlocks, DeleteThreads, TypeOK, StopperPCs
  <2>7. ASSUME NEW c \in Calls, BeginShutdown(s, c) \/ BeginShutdownNow(s, c)
        PROVE TypeOK'
    <3>1. c \in CallRecord
      BY PoolAssumption DEF CallRecord
    <3>2. spc' \in [Stoppers -> StopperPCs] /\ call' \in [Stoppers -> CallRecord]
      BY <2>7, <3>1 DEF BeginShutdown, BeginShutdownNow, TypeOK, StopperPCs
    <3>3. CallBegins(s, c) /\ UNCHANGED answer
      BY <2>7 DEF BeginShutdown, BeginShutdownNow
    <3> QED BY <3>2, <3>3 DEF CallBegins, TypeOK
  <2>8. ASSUME NEW c \in Calls, AlreadyShutdownNow(s, c) PROVE TypeOK'
    BY <2>8, ScansStart DEF AlreadyShutdownNow, CallBegins, TypeOK, StopperPCs
  <2> QED BY <1>3, <2>1, <2>2, <2>3, <2>4, <2>5, <2>6, <2>7, <2>8
          DEF Stopper, StopperBegins
<1>4. CASE UNCHANGED vars
  BY <1>4 DEF vars, TypeOK
<1> QED BY <1>1, <1>2, <1>3, <1>4 DEF Next

(***************************************************************************)
(* Taking a runnable from a queue and adding one to it.                    *)
(***************************************************************************)

\* What is left of a queue when its head is taken: the other slots, one lower.
LEMMA HeadTail ==
  ASSUME NEW S, NEW q \in Seq(S), q # <<>>
  PROVE  /\ 1 \in DOMAIN q /\ Head(q) = q[1]
         /\ \A i \in DOMAIN Tail(q) : i + 1 \in DOMAIN q /\ i + 1 # 1
                                     /\ Tail(q)[i] = q[i + 1]
         /\ \A i \in DOMAIN q : i = 1 \/ (/\ i - 1 \in DOMAIN Tail(q)
                                        /\ Tail(q)[i - 1] = q[i])
OBVIOUS

\* What a queue is after a push: the old slots, and a last one with r.
LEMMA Pushed ==
  ASSUME NEW S, NEW q \in Seq(S), NEW r \in S
  PROVE  /\ \A i \in DOMAIN q : i \in DOMAIN Append(q, r) /\ Append(q, r)[i] = q[i]
         /\ \A i \in DOMAIN Append(q, r) :
              \/ i \in DOMAIN q /\ Append(q, r)[i] = q[i]
              \/ i = Len(q) + 1 /\ Append(q, r)[i] = r
         /\ Len(q) + 1 \in DOMAIN Append(q, r) /\ Append(q, r)[Len(q) + 1] = r
OBVIOUS

\* A worker with an empty hand takes the head of a queue: its own (Poll) or that
\* of its victim (_StealPoll).
LEMMA TakeHead ==
  ASSUME TypeOK, OnePlace, NEW w \in Workers, NEW v \in Workers,
         hand[w] = None, queue[v] # <<>>, wpc'[w] # "running",
         \A u \in Workers \ {w} : wpc'[u] = wpc[u],
         hand' = [hand EXCEPT ![w] = Head(queue[v])],
         queue' = [queue EXCEPT ![v] = Tail(queue[v])],
         UNCHANGED <<cpc, starts, finished>>, StartsMatch
  PROVE  OnePlace'
<1> DEFINE x == Head(queue[v])
<1>1. /\ queue \in [Workers -> Seq(Runnables)]
      /\ hand \in [Workers -> Runnables \cup {None}]
  BY DEF TypeOK
<1>2. /\ 1 \in DOMAIN queue[v] /\ x = queue[v][1]
      /\ \A i \in DOMAIN Tail(queue[v]) :
           i + 1 \in DOMAIN queue[v] /\ i + 1 # 1 /\ Tail(queue[v])[i] = queue[v][i + 1]
  BY <1>1, HeadTail
<1>3. x \in Runnables /\ cpc[x] = "accepted" /\ starts[x] = 0
  BY <1>1, <1>2 DEF OnePlace
<1>4. x \notin finished
  BY <1>3 DEF StartsMatch
<1>5. \A u \in Workers : hand'[u] = IF u = w THEN x ELSE hand[u]
  BY <1>1
<1> DEFINE old(u, i) == IF u = v THEN i + 1 ELSE i
<1>6. ASSUME NEW u \in Workers, NEW i \in DOMAIN queue'[u]
      PROVE  /\ i \in Int
             /\ old(u, i) \in DOMAIN queue[u]
             /\ queue'[u][i] = queue[u][old(u, i)]
             /\ u = v => old(u, i) # 1
  <2>1. queue'[u] = IF u = v THEN Tail(queue[v]) ELSE queue[u]
    BY <1>1
  <2>2. queue'[u] \in Seq(Runnables)
    BY <1>1, <2>1
  <2>3. i \in Int
    BY <2>2
  <2> HIDE DEF x
  <2>4. CASE u = v
    <3>1. i \in DOMAIN Tail(queue[v]) /\ queue'[u][i] = Tail(queue[v])[i]
      BY <2>1, <2>4
    <3>2. i + 1 \in DOMAIN queue[u] /\ queue'[u][i] = queue[u][i + 1]
          /\ i + 1 # 1
      BY <1>2, <2>4, <3>1
    <3> QED BY <2>3, <2>4, <3>2
  <2>5. CASE u # v
    <3>1. i \in DOMAIN queue[u] /\ queue'[u][i] = queue[u][i]
      BY <2>1, <2>5
    <3> QED BY <2>3, <2>5, <3>1
  <2> QED BY <2>4, <2>5
<1> HIDE DEF x, old
<1>7. \A u \in Workers : \A i \in DOMAIN queue'[u] :
        cpc'[queue'[u][i]] = "accepted" /\ starts'[queue'[u][i]] = 0
  BY <1>6 DEF OnePlace
<1>8. ASSUME NEW t \in Workers, NEW u \in Workers, NEW i \in DOMAIN queue'[t],
             NEW j \in DOMAIN queue'[u], queue'[t][i] = queue'[u][j]
      PROVE  t = u /\ i = j
  <2>1. i \in Int /\ j \in Int
    BY <1>6
  <2>2. t = u /\ old(t, i) = old(u, j)
    BY <1>6, <1>8 DEF OnePlace
  <2> QED BY <2>1, <2>2 DEF old
<1>9. ASSUME NEW t \in Workers, NEW u \in Workers, NEW i \in DOMAIN queue'[t]
      PROVE  queue'[t][i] # hand'[u]
  <2>1. old(t, i) \in DOMAIN queue[t] /\ queue'[t][i] = queue[t][old(t, i)]
        /\ (t = v => old(t, i) # 1)
    BY <1>6
  <2>2. CASE u = w
    BY <1>2, <1>5, <2>1, <2>2 DEF OnePlace
  <2>3. CASE u # w
    BY <1>5, <2>1, <2>3 DEF OnePlace
  <2> QED BY <2>2, <2>3
<1>10. ASSUME NEW t \in Workers, NEW u \in Workers, hand'[t] = hand'[u],
              hand'[t] # None
       PROVE  t = u
  BY <1>2, <1>5, <1>10 DEF OnePlace
<1>11. ASSUME NEW u \in Workers, hand'[u] # None
       PROVE  /\ cpc'[hand'[u]] = "accepted"
              /\ starts'[hand'[u]] = IF wpc'[u] = "running" THEN 1 ELSE 0
              /\ hand'[u] \notin finished'
  BY <1>3, <1>4, <1>5, <1>11 DEF OnePlace
<1> QED BY <1>7, <1>8, <1>9, <1>10, <1>11 DEF OnePlace

\* Slots and hands that are emptied leave the others as they were.
LEMMA FewerPlaces ==
  ASSUME OnePlace,
         \A u \in Workers : queue'[u] = queue[u] \/ queue'[u] = <<>>,
         \A u \in Workers : hand'[u] # None =>
           /\ hand'[u] = hand[u]
           /\ wpc'[u] = "running" <=> wpc[u] = "running"
           /\ hand'[u] \notin finished' \/ UNCHANGED finished,
         \A u \in Workers : hand'[u] = hand[u] \/ hand'[u] = None,
         None \notin Runnables, queue' \in [Workers -> Seq(Runnables)],
         UNCHANGED <<cpc, starts>>
  PROVE  OnePlace'
<1>1. \A u \in Workers : \A i \in DOMAIN queue'[u] :
        i \in DOMAIN queue[u] /\ queue'[u][i] = queue[u][i]
            /\ queue'[u][i] # None
  <2>1. ASSUME NEW u \in Workers, NEW i \in DOMAIN queue'[u]
        PROVE  queue'[u] = queue[u] /\ queue'[u][i] \in Runnables
    <3>1. queue'[u] \in Seq(Runnables)
      OBVIOUS
    <3>2. queue'[u] # <<>> /\ queue'[u][i] \in Runnables
      BY <3>1
    <3> QED BY <3>2
  <2> QED BY <2>1
<1>2. \A u \in Workers : \A i \in DOMAIN queue'[u] :
        cpc'[queue'[u][i]] = "accepted" /\ starts'[queue'[u][i]] = 0
  BY <1>1 DEF OnePlace
<1>3. \A t, u \in Workers : \A i \in DOMAIN queue'[t], j \in DOMAIN queue'[u] :
        queue'[t][i] = queue'[u][j] => t = u /\ i = j
  BY <1>1 DEF OnePlace
<1>4. \A t, u \in Workers : \A i \in DOMAIN queue'[t] : queue'[t][i] # hand'[u]
  BY <1>1 DEF OnePlace
<1>5. \A t, u \in Workers : hand'[t] = hand'[u] /\ hand'[t] # None => t = u
  BY DEF OnePlace
<1>6. \A u \in Workers : hand'[u] # None =>
        /\ cpc'[hand'[u]] = "accepted"
        /\ starts'[hand'[u]] = IF wpc'[u] = "running" THEN 1 ELSE 0
        /\ hand'[u] \notin finished'
  BY DEF OnePlace
<1> QED BY <1>2, <1>3, <1>4, <1>5, <1>6 DEF OnePlace

\* A push to the end of one queue of a runnable that was nowhere.
LEMMA PushOne ==
  ASSUME TypeOK, OnePlace, StartsMatch, NEW w \in Workers, NEW r \in Runnables,
         cpc[r] # "accepted", cpc' = [cpc EXCEPT ![r] = "accepted"],
         queue' = [queue EXCEPT ![w] = Append(queue[w], r)],
         \A u \in Workers : wpc'[u] = "running" <=> wpc[u] = "running",
         UNCHANGED <<hand, starts, finished>>
  PROVE  OnePlace'
<1>1. /\ queue \in [Workers -> Seq(Runnables)]
      /\ cpc \in [Runnables -> CallerPCs]
      /\ hand \in [Workers -> Runnables \cup {None}]
  BY DEF TypeOK
<1>2. starts[r] = 0
  BY DEF StartsMatch
<1>3. \A u \in Workers : hand[u] # r
  BY PoolAssumption DEF OnePlace
<1>4. \A u \in Workers : \A i \in DOMAIN queue[u] :
        queue[u][i] # r /\ queue[u][i] \in Runnables
  BY <1>1 DEF OnePlace
<1>5. \A u \in Workers : \A i \in DOMAIN queue'[u] :
        \/ i \in DOMAIN queue[u] /\ queue'[u][i] = queue[u][i]
        \/ u = w /\ i = Len(queue[w]) + 1 /\ queue'[u][i] = r
  BY <1>1, Pushed
<1>6. \A u \in Workers : \A i \in DOMAIN queue'[u] :
        cpc'[queue'[u][i]] = "accepted" /\ starts'[queue'[u][i]] = 0
  BY <1>1, <1>2, <1>4, <1>5 DEF OnePlace
<1>7. \A t, u \in Workers : \A i \in DOMAIN queue'[t], j \in DOMAIN queue'[u] :
        queue'[t][i] = queue'[u][j] => t = u /\ i = j
  BY <1>4, <1>5 DEF OnePlace
<1>8. \A t, u \in Workers : \A i \in DOMAIN queue'[t] : queue'[t][i] # hand'[u]
  BY <1>3, <1>5 DEF OnePlace
<1>9. \A t, u \in Workers : hand'[t] = hand'[u] /\ hand'[t] # None => t = u
  BY DEF OnePlace
<1>10. \A u \in Workers : hand'[u] # None =>
         /\ cpc'[hand'[u]] = "accepted"
         /\ starts'[hand'[u]] = IF wpc'[u] = "running" THEN 1 ELSE 0
         /\ hand'[u] \notin finished'
  BY <1>1 DEF OnePlace
<1> QED BY <1>6, <1>7, <1>8, <1>9, <1>10 DEF OnePlace

\* A worker starts the runnable in its hand.
LEMMA StartOne ==
  ASSUME TypeOK, OnePlace, NEW w \in Workers, hand[w] # None,
         wpc' = [wpc EXCEPT ![w] = "running"], wpc[w] # "running",
         starts' = [starts EXCEPT ![hand[w]] = @ + 1],
         UNCHANGED <<queue, hand, cpc, finished>>
  PROVE  OnePlace'
<1>1. /\ starts \in [Runnables -> Nat] /\ hand[w] \in Runnables
      /\ wpc \in [Workers -> WorkerPCs]
      /\ queue \in [Workers -> Seq(Runnables)]
      /\ hand \in [Workers -> Runnables \cup {None}]
  BY DEF TypeOK
<1>2. starts[hand[w]] = 0 /\ starts'[hand[w]] = 1
  BY <1>1 DEF OnePlace
<1>3. \A u \in Workers : \A i \in DOMAIN queue[u] :
        queue[u][i] # hand[w] /\ starts'[queue[u][i]] = starts[queue[u][i]]
  BY <1>1 DEF OnePlace
<1>4. \A u \in Workers : hand[u] # None /\ u # w =>
        hand[u] # hand[w] /\ starts'[hand[u]] = starts[hand[u]]
            /\ wpc'[u] = wpc[u]
  BY <1>1 DEF OnePlace
<1>5. wpc'[w] = "running"
  BY <1>1
<1>6. \A u \in Workers : \A i \in DOMAIN queue'[u] :
        cpc'[queue'[u][i]] = "accepted" /\ starts'[queue'[u][i]] = 0
  BY <1>3 DEF OnePlace
<1>7. \A u \in Workers : hand'[u] # None =>
        /\ cpc'[hand'[u]] = "accepted"
        /\ starts'[hand'[u]] = IF wpc'[u] = "running" THEN 1 ELSE 0
        /\ hand'[u] \notin finished'
  BY <1>2, <1>4, <1>5 DEF OnePlace
<1> QED BY <1>6, <1>7 DEF OnePlace

(***************************************************************************)
(* Where every runnable is.                                                *)
(***************************************************************************)

Places == HandsMatch /\ OnePlace /\ StartsMatch

\* Steps that move no runnable.
LEMMA Elsewhere ==
  ASSUME TypeOK, TypeOK', Places, UNCHANGED <<queue, hand, starts, finished>>,
         \A r \in Runnables : cpc'[r] = "accepted" <=> cpc[r] = "accepted",
         \A w \in Workers :
           /\ hand[w] # None =>
                /\ wpc'[w] \in {"polled", "recheck", "run", "running"}
                /\ wpc'[w] = "running" <=> wpc[w] = "running"
           /\ wpc'[w] \in {"run", "running"} => hand[w] # None
  PROVE  Places'
<1>1. HandsMatch'
  BY DEF HandsMatch
<1>2. StartsMatch'
  BY DEF Places, StartsMatch
<1>3. \A w \in Workers : hand[w] # None => hand[w] \in Runnables
  BY DEF TypeOK
<1>4. \A w \in Workers : \A i \in DOMAIN queue[w] : queue[w][i] \in Runnables
  BY DEF TypeOK
<1>5. OnePlace'
  BY <1>3, <1>4 DEF Places, OnePlace
<1> QED BY <1>1, <1>2, <1>5 DEF Places

LEMMA PlacesInit == Init => Places
BY PoolAssumption DEF Init, Places, HandsMatch, OnePlace, StartsMatch

LEMMA PlacesNext == TypeOK /\ TypeOK' /\ Places /\ [Next]_vars => Places'
<1> SUFFICES ASSUME TypeOK, TypeOK', Places, [Next]_vars PROVE Places' OBVIOUS
<1> USE DEF queueVars, workerVars, callerVars, stopperVars, poolVars, runVars,
            historyVars
<1> None \notin Runnables
  BY PoolAssumption
<1>a. /\ queue \in [Workers -> Seq(Runnables)]
      /\ queue' \in [Workers -> Seq(Runnables)]
      /\ hand \in [Workers -> Runnables \cup {None}]
      /\ wpc \in [Workers -> WorkerPCs]
      /\ cpc \in [Runnables -> CallerPCs]
  BY DEF TypeOK
<1>b. HandsMatch /\ OnePlace /\ StartsMatch
  BY DEF Places
<1>1. ASSUME NEW r \in Runnables, Caller(r) PROVE Places'
  <2>1. CASE ExecuteRefused(r) \/ ExecuteBegin(r) \/ ExecuteLook(r)
    <3>1. UNCHANGED <<queue, hand, starts, finished, wpc>>
      BY <2>1 DEF ExecuteRefused, ExecuteBegin, ExecuteLook
    <3>2. \A q \in Runnables : cpc'[q] = "accepted" <=> cpc[q] = "accepted"
      BY <1>a, <2>1 DEF ExecuteRefused, ExecuteBegin, ExecuteLook
    <3> QED BY <1>b, <3>1, <3>2, Elsewhere DEF HandsMatch
  <2>2. CASE ExecuteAdd(r)
    <3> DEFINE v == choice[r].best
    <3>1. v \in Workers /\ cpc[r] = "look"
      BY <2>2, ScanFields DEF ExecuteAdd, TypeOK
    <3>2. UNCHANGED <<hand, starts, finished>>
      BY <2>2 DEF ExecuteAdd
    <3>3. CASE canAdd[v]
      <4>1. /\ queue' = [queue EXCEPT ![v] = Append(queue[v], r)]
            /\ cpc' = [cpc EXCEPT ![r] = "accepted"]
            /\ wpc' = [wpc EXCEPT ![v] = IF @ = "blocked" THEN "reset" ELSE @]
        BY <2>2, <3>3 DEF ExecuteAdd, SignalWorker
      <4> HIDE DEF v
      <4>2. \A u \in Workers : wpc'[u] = wpc[u]
          \/ (wpc[u] = "blocked" /\ wpc'[u] = "reset")
        BY <1>a, <4>1
      <4>3. OnePlace'
        BY <1>b, <3>1, <3>2, <4>1, <4>2, PushOne
      <4>4. HandsMatch'
        BY <1>b, <3>2, <4>2 DEF HandsMatch
      <4>5. StartsMatch'
        <5>1. \A q \in Runnables : cpc[q] = "accepted" => cpc'[q] = "accepted"
          BY <1>a, <4>1
        <5> QED BY <1>b, <3>2, <5>1 DEF StartsMatch
      <4> QED BY <4>3, <4>4, <4>5 DEF Places
    <3>4. CASE ~canAdd[v]
      <4>1. UNCHANGED <<queue, wpc>> /\ cpc' = [cpc EXCEPT ![r] = "refused"]
        BY <2>2, <3>4 DEF ExecuteAdd
      <4>2. \A q \in Runnables : cpc'[q] = "accepted" <=> cpc[q] = "accepted"
        BY <1>a, <3>1, <4>1
      <4> QED BY <1>b, <3>2, <4>1, <4>2, Elsewhere DEF HandsMatch
    <3> QED BY <3>3, <3>4
  <2> QED BY <1>1, <2>1, <2>2 DEF Caller
<1>2. ASSUME NEW w \in Workers, Worker(w) \/ WakeSpuriously(w) PROVE Places'
  <2> USE DEF Goes
  <2>1. CASE \/ WaitPasses(w) \/ WaitBlocks(w) \/ WakeSpuriously(w)
             \/ ResetOwnEvent(w) \/ CheckPasses(w) \/ PolledOne(w)
             \/ PolledNone(w) \/ StealLook(w) \/ BecomeIdle(w) \/ AgainOrEnd(w)
             \/ WorkerCounts(w) \/ WorkerExits(w)
    <3>1. UNCHANGED <<queue, hand, cpc, starts, finished>>
      BY <2>1 DEF WaitPasses, WaitBlocks, WakeSpuriously, ResetOwnEvent,
         CheckPasses, PolledOne, PolledNone, StealLook, BecomeIdle, AgainOrEnd,
         WorkerCounts, WorkerExits
    <3>2. /\ wpc' = [wpc EXCEPT ![w] = wpc'[w]]
          /\ \/ /\ wpc[w] \notin {"polled", "recheck", "run", "running"}
                /\ wpc'[w] \notin {"polled", "recheck", "run", "running"}
             \/ wpc[w] = "polled" /\ wpc'[w] = "recheck"
             \/ wpc[w] = "polled" /\ wpc'[w] = "run" /\ hand[w] # None
      BY <1>a, <2>1 DEF WaitPasses, WaitBlocks, WakeSpuriously, ResetOwnEvent,
         CheckPasses, PolledOne, PolledNone, StealLook, BecomeIdle, AgainOrEnd,
         WorkerCounts, WorkerExits
    <3>3. \A u \in Workers \ {w} : wpc'[u] = wpc[u]
      BY <1>a, <3>2
    <3> QED BY <1>b, <3>1, <3>2, <3>3, Elsewhere DEF HandsMatch
  <2>2. CASE CheckNow(w)
    <3>1. /\ hand[w] = None /\ wpc' = [wpc EXCEPT ![w] = "count"]
          /\ queue' = [queue EXCEPT ![w] = <<>>]
          /\ UNCHANGED <<hand, cpc, starts, finished>>
      BY <1>b, <2>2 DEF CheckNow, HandsMatch
    <3>2. /\ wpc'[w] = "count"
          /\ \A u \in Workers \ {w} : wpc'[u] = wpc[u]
          /\ \A u \in Workers : queue'[u] = queue[u] \/ queue'[u] = <<>>
      BY <1>a, <3>1
    <3>3. OnePlace'
      BY <1>a, <1>b, <3>1, <3>2, FewerPlaces
    <3>4. HandsMatch' /\ StartsMatch'
      BY <1>b, <3>1, <3>2 DEF HandsMatch, StartsMatch
    <3> QED BY <3>3, <3>4 DEF Places
  <2>3. ASSUME NEW v \in Workers, queue[v] # <<>>, hand[w] = None,
               hand' = [hand EXCEPT ![w] = Head(queue[v])],
               queue' = [queue EXCEPT ![v] = Tail(queue[v])],
               NEW to \in {"polled", "run"}, wpc' = [wpc EXCEPT ![w] = to],
               UNCHANGED <<cpc, starts, finished>>
        PROVE  Places'
    <3>1. wpc'[w] = to /\ \A u \in Workers \ {w} : wpc'[u] = wpc[u]
      BY <1>a, <2>3
    <3>2. OnePlace'
      BY <1>b, <2>3, <3>1, TakeHead
    <3>3. /\ hand'[w] \in Runnables
          /\ \A u \in Workers \ {w} : hand'[u] = hand[u]
      BY <1>a, <2>3
    <3>4. HandsMatch'
      BY <1>b, <2>3, <3>1, <3>3 DEF HandsMatch
    <3>5. StartsMatch'
      BY <1>b, <2>3, <3>3 DEF StartsMatch
    <3> QED BY <3>2, <3>4, <3>5 DEF Places
  <2>4. ASSUME UNCHANGED <<queue, hand, cpc, starts, finished>>,
               hand[w] = None, NEW to \in {"polled", "idle"},
               wpc' = [wpc EXCEPT ![w] = to]
        PROVE  Places'
    <3>1. wpc'[w] = to /\ \A u \in Workers \ {w} : wpc'[u] = wpc[u]
      BY <1>a, <2>4
    <3> QED BY <1>b, <2>4, <3>1, Elsewhere DEF HandsMatch
  <2>5. CASE Poll(w)
    <3>1. hand[w] = None
      BY <1>b, <2>5 DEF Poll, HandsMatch
    <3>2. CASE queue[w] = <<>>
      <4>1. hand' = hand
        BY <1>a, <2>5, <3>1, <3>2 DEF Poll
      <4> QED BY <2>4, <2>5, <3>1, <3>2, <4>1 DEF Poll
    <3>3. CASE queue[w] # <<>>
      BY <2>3, <2>5, <3>1, <3>3 DEF Poll
    <3> QED BY <3>2, <3>3
  <2>6. CASE StealPoll(w)
    <3> DEFINE v == victim[w].best
    <3>1. hand[w] = None
      BY <1>b, <2>6 DEF StealPoll, HandsMatch
    <3>2. v \in Workers
      BY ScanFields DEF TypeOK
    <3>3. CASE queue[v] = <<>>
      BY <2>4, <2>6, <3>1, <3>3 DEF StealPoll
    <3>4. CASE queue[v] # <<>>
      BY <2>3, <2>6, <3>1, <3>2, <3>4 DEF StealPoll
    <3> QED BY <3>3, <3>4
  <2>7. CASE RecheckNow(w) \/ RecheckPasses(w)
    <3>1. /\ hand' = [hand EXCEPT ![w] = None]
          /\ wpc' = [wpc EXCEPT ![w] = wpc'[w]] /\ wpc'[w] \in {"idle", "look"}
          /\ UNCHANGED <<queue, cpc, starts, finished>> /\ wpc[w] = "recheck"
      BY <1>a, <2>7 DEF RecheckNow, RecheckPasses
    <3>2. /\ \A u \in Workers \ {w} : wpc'[u] = wpc[u] /\ hand'[u] = hand[u]
          /\ hand'[w] = None
      BY <1>a, <3>1
    <3>3. OnePlace'
      BY <1>a, <1>b, <3>1, <3>2, FewerPlaces
    <3>4. HandsMatch'
      BY <1>b, <3>1, <3>2 DEF HandsMatch
    <3>5. \A r \in Runnables : starts[r] = 1 => hand[w] # r
      BY <1>b, <3>1, PoolAssumption DEF OnePlace
    <3>6. StartsMatch'
      BY <1>b, <3>1, <3>2, <3>5 DEF StartsMatch
    <3> QED BY <3>3, <3>4, <3>6 DEF Places
  <2>8. CASE RunBegins(w)
    <3>1. /\ wpc' = [wpc EXCEPT ![w] = "running"] /\ wpc[w] = "run"
          /\ starts' = [starts EXCEPT ![hand[w]] = @ + 1]
          /\ UNCHANGED <<queue, hand, cpc, finished>>
      BY <2>8 DEF RunBegins
    <3>2. hand[w] \in Runnables
      BY <1>a, <1>b, <3>1 DEF HandsMatch
    <3>3. OnePlace'
      BY <1>b, <3>1, <3>2, StartOne
    <3>4. /\ wpc'[w] = "running"
          /\ \A u \in Workers \ {w} : wpc'[u] = wpc[u]
      BY <1>a, <3>1
    <3>5. HandsMatch'
      BY <1>b, <3>1, <3>2, <3>4 DEF HandsMatch
    <3>6. starts[hand[w]] = 0 /\ cpc[hand[w]] = "accepted"
      BY <1>b, <3>1, <3>2 DEF OnePlace
    <3>7. \A r \in Runnables : starts'[r] = IF r = hand[w] THEN 1 ELSE starts[r]
      BY <3>1, <3>2, <3>6 DEF TypeOK
    <3>8. StartsMatch'
      BY <1>b, <3>1, <3>6, <3>7 DEF StartsMatch
    <3> QED BY <3>3, <3>5, <3>8 DEF Places
  <2>9. CASE RunReturns(w)
    <3>1. /\ wpc' = [wpc EXCEPT ![w] = "poll"] /\ wpc[w] = "running"
          /\ finished' = finished \cup {hand[w]}
          /\ hand' = [hand EXCEPT ![w] = None]
          /\ UNCHANGED <<queue, cpc, starts>>
      BY <2>9 DEF RunReturns
    <3>2. hand[w] \in Runnables /\ hand[w] # None
      BY <1>a, <1>b, <3>1 DEF HandsMatch
    <3>3. /\ wpc'[w] = "poll" /\ hand'[w] = None
          /\ \A u \in Workers \ {w} : wpc'[u] = wpc[u] /\ hand'[u] = hand[u]
      BY <1>a, <3>1
    <3>4. \A u \in Workers : hand'[u] # None => hand'[u] \notin finished'
      BY <1>b, <3>1, <3>3 DEF OnePlace
    <3>5. OnePlace'
      BY <1>a, <1>b, <3>1, <3>3, <3>4, FewerPlaces
    <3>6. HandsMatch'
      BY <1>b, <3>1, <3>3 DEF HandsMatch
    <3>7. starts[hand[w]] = 1 /\ cpc[hand[w]] = "accepted"
      BY <1>b, <3>1, <3>2 DEF OnePlace
    <3>8. StartsMatch'
      BY <1>b, <3>1, <3>3, <3>7 DEF StartsMatch
    <3> QED BY <3>5, <3>6, <3>8 DEF Places
  <2> QED BY <1>2, <2>1, <2>2, <2>5, <2>6, <2>7, <2>8, <2>9 DEF Worker
<1>3. ASSUME NEW s \in Stoppers,
             Stopper(s) \/ StopperBegins(s) \/ WaitReturnsSpuriously(s)
      PROVE Places'
  <2>1. UNCHANGED <<queue, hand, cpc, starts, finished>>
    BY <1>3 DEF Stopper, StopperBegins, WaitReturnsSpuriously, SetMode,
       LoopCounts, LoopSignals, LoopEnds, WaitReturns, StopperBlocks,
       WaitTimesOut, DeleteThreads, BeginShutdown, BeginShutdownNow,
       AlreadyShutdownNow, CallBegins
  <2>2. \/ UNCHANGED wpc
        \/ wpc' = [wpc EXCEPT ![at[s]] = IF @ = "blocked" THEN "reset" ELSE @]
    BY <1>3 DEF Stopper, StopperBegins, WaitReturnsSpuriously, SetMode,
       LoopCounts, LoopSignals, LoopEnds, WaitReturns, StopperBlocks,
       WaitTimesOut, DeleteThreads, BeginShutdown, BeginShutdownNow,
       AlreadyShutdownNow, CallBegins, SignalWorker
  <2>3. \A u \in Workers : wpc'[u] = wpc[u]
          \/ (wpc[u] = "blocked" /\ wpc'[u] = "reset")
    <3>1. CASE UNCHANGED wpc
      BY <3>1
    <3>2. ASSUME wpc' = [wpc EXCEPT ![at[s]] = IF @ = "blocked" THEN "reset" ELSE @],
                 NEW u \in Workers
          PROVE  \/ wpc'[u] = wpc[u]
                 \/ wpc[u] = "blocked" /\ wpc'[u] = "reset"
      BY <1>a, <3>2
    <3> QED BY <2>2, <3>1, <3>2
  <2> QED BY <1>b, <2>1, <2>3, Elsewhere DEF HandsMatch
<1>4. CASE UNCHANGED vars
  BY <1>b, <1>4, Elsewhere DEF vars, HandsMatch
<1> QED BY <1>1, <1>2, <1>3, <1>4 DEF Next

(***************************************************************************)
(* Nothing accepted is lost before a ShutdownNow.                          *)
(***************************************************************************)

Kept == NowMatches /\ NothingDropped

\* Where an accepted runnable is.
Home(r) == r \in finished \/ \E w \in Workers : r \in Queued(w) \/ hand[w] = r

LEMMA KeptInit == Init => Kept
<1> SUFFICES ASSUME Init PROVE Kept OBVIOUS
<1>1. Accepted = {}
  BY DEF Init, Accepted
<1> QED BY <1>1 DEF Init, Kept, NowMatches, NothingDropped

\* The step that sets the mode, and those that only read it.
LEMMA NowNext == TypeOK /\ HandsMatch /\ NowMatches /\ [Next]_vars => NowMatches'
<1> SUFFICES ASSUME TypeOK, HandsMatch, NowMatches, [Next]_vars PROVE NowMatches'
  OBVIOUS
<1> USE DEF queueVars, workerVars, callerVars, stopperVars, poolVars, runVars,
            historyVars
<1>a. wpc \in [Workers -> WorkerPCs] /\ hand \in [Workers -> Runnables \cup {None}]
  BY DEF TypeOK
<1>1. ASSUME NEW r \in Runnables, Caller(r) PROVE NowMatches'
  <2>1. UNCHANGED <<mode, sawNow, hand>>
    BY <1>1 DEF Caller, ExecuteRefused, ExecuteBegin, ExecuteLook, ExecuteAdd
  <2>2. \/ UNCHANGED wpc
        \/ \E u \in Workers :
             wpc' = [wpc EXCEPT ![u] = IF @ = "blocked" THEN "reset" ELSE @]
    <3>1. choice[r].best \in Workers
      BY ScanFields DEF TypeOK
    <3> QED BY <1>1, <3>1 DEF Caller, ExecuteRefused, ExecuteBegin, ExecuteLook,
               ExecuteAdd, SignalWorker
  <2>3. \A u \in Workers : wpc'[u] = "recheck" => wpc[u] = "recheck"
    BY <1>a, <2>2
  <2> QED BY <2>1, <2>3 DEF NowMatches
<1>2. ASSUME NEW w \in Workers, Worker(w) \/ WakeSpuriously(w) PROVE NowMatches'
  <2> USE DEF Goes
  <2>1. UNCHANGED <<mode, sawNow>>
    BY <1>2 DEF Worker, WaitPasses, WaitBlocks, WakeSpuriously, ResetOwnEvent,
       CheckNow, CheckPasses, Poll, PolledOne, PolledNone, RecheckNow,
       RecheckPasses, StealLook, StealPoll, RunBegins, RunReturns, BecomeIdle,
       AgainOrEnd, WorkerCounts, WorkerExits
  <2>2. CASE PolledNone(w)
    <3>1. hand' = hand /\ (hand[w] = None \/ mode = 2)
      BY <2>2 DEF PolledNone
    <3>2. \A u \in Workers \ {w} : wpc'[u] = wpc[u]
      BY <1>a, <2>2 DEF PolledNone
    <3> QED BY <2>1, <3>1, <3>2 DEF NowMatches
  <2>3. CASE ~PolledNone(w)
    <3>1. wpc' = [wpc EXCEPT ![w] = wpc'[w]] /\ wpc'[w] # "recheck"
      BY <1>2, <1>a, <2>3 DEF Worker, WaitPasses, WaitBlocks, WakeSpuriously,
         ResetOwnEvent, CheckNow, CheckPasses, Poll, PolledOne, RecheckNow,
         RecheckPasses, StealLook, StealPoll, RunBegins, RunReturns, BecomeIdle,
         AgainOrEnd, WorkerCounts, WorkerExits
    <3>2. hand' = [hand EXCEPT ![w] = hand'[w]]
      BY <1>2, <1>a, <2>3 DEF Worker, WaitPasses, WaitBlocks, WakeSpuriously,
         ResetOwnEvent, CheckNow, CheckPasses, Poll, PolledOne, RecheckNow,
         RecheckPasses, StealLook, StealPoll, RunBegins, RunReturns, BecomeIdle,
         AgainOrEnd, WorkerCounts, WorkerExits
    <3>3. \A u \in Workers \ {w} : wpc'[u] = wpc[u] /\ hand'[u] = hand[u]
      BY <1>a, <3>1, <3>2
    <3> QED BY <2>1, <3>1, <3>3 DEF NowMatches
  <2> QED BY <2>2, <2>3
<1>3. ASSUME NEW s \in Stoppers,
             Stopper(s) \/ StopperBegins(s) \/ WaitReturnsSpuriously(s)
      PROVE NowMatches'
  <2>1. UNCHANGED hand
    BY <1>3 DEF Stopper, StopperBegins, WaitReturnsSpuriously, SetMode,
       LoopCounts, LoopSignals, LoopEnds, WaitReturns, StopperBlocks,
       WaitTimesOut, DeleteThreads, BeginShutdown, BeginShutdownNow,
       AlreadyShutdownNow, CallBegins
  <2>2. CASE SetMode(s)
    <3>1. mode' \in {1, 2} /\ UNCHANGED <<wpc, hand>>
      BY <2>2 DEF SetMode
    <3>2. sawNow' <=> sawNow \/ mode' = 2
      BY <2>2 DEF SetMode, TypeOK
    <3> QED BY <3>1, <3>2 DEF NowMatches
  <2>3. CASE ~SetMode(s)
    <3>1. UNCHANGED <<mode, sawNow>>
      BY <1>3, <2>3 DEF Stopper, StopperBegins, WaitReturnsSpuriously,
         LoopCounts, LoopSignals, LoopEnds, WaitReturns, StopperBlocks,
         WaitTimesOut, DeleteThreads, BeginShutdown, BeginShutdownNow,
         AlreadyShutdownNow, CallBegins
    <3>2. \/ UNCHANGED wpc
          \/ wpc' = [wpc EXCEPT ![at[s]] = IF @ = "blocked" THEN "reset" ELSE @]
      BY <1>3, <2>3 DEF Stopper, StopperBegins, WaitReturnsSpuriously,
         LoopCounts, LoopSignals, LoopEnds, WaitReturns, StopperBlocks,
         WaitTimesOut, DeleteThreads, BeginShutdown, BeginShutdownNow,
         AlreadyShutdownNow, CallBegins, SignalWorker
    <3>3. \A u \in Workers : wpc'[u] = "recheck" => wpc[u] = "recheck"
      BY <1>a, <3>2
    <3> QED BY <2>1, <3>1, <3>3 DEF NowMatches
  <2> QED BY <2>2, <2>3
<1>4. CASE UNCHANGED vars
  BY <1>4 DEF vars, NowMatches
<1> QED BY <1>1, <1>2, <1>3, <1>4 DEF Next

\* A worker that takes the head of a queue leaves every runnable a home.
LEMMA TakenHome ==
  ASSUME TypeOK, NEW w \in Workers, NEW v \in Workers, queue[v] # <<>>,
         hand[w] = None, NEW r \in Runnables, Home(r), UNCHANGED finished,
         hand' = [hand EXCEPT ![w] = Head(queue[v])],
         queue' = [queue EXCEPT ![v] = Tail(queue[v])]
  PROVE  Home(r)'
<1>1. /\ queue \in [Workers -> Seq(Runnables)]
      /\ hand \in [Workers -> Runnables \cup {None}]
  BY DEF TypeOK
<1>2. r # None
  BY PoolAssumption
<1>3. CASE r \in finished
  BY <1>3 DEF Home
<1>4. ASSUME NEW u \in Workers, hand[u] = r PROVE Home(r)'
  BY <1>1, <1>2, <1>4 DEF Home
<1>5. ASSUME NEW u \in Workers, NEW i \in DOMAIN queue[u], queue[u][i] = r
      PROVE  Home(r)'
  <2>1. CASE u # v
    <3>1. queue'[u] = queue[u]
      BY <1>1, <2>1
    <3> QED BY <1>5, <3>1 DEF Home, Queued
  <2>2. CASE u = v /\ i = 1
    <3>1. hand'[w] = queue[v][1]
      BY <1>1, HeadTail
    <3> QED BY <1>5, <2>2, <3>1 DEF Home
  <2>3. CASE u = v /\ i # 1
    <3>1. i - 1 \in DOMAIN Tail(queue[v]) /\ Tail(queue[v])[i - 1] = r
      BY <1>1, <1>5, <2>3, HeadTail
    <3>2. queue'[v] = Tail(queue[v])
      BY <1>1
    <3> QED BY <3>1, <3>2 DEF Home, Queued
  <2> QED BY <2>1, <2>2, <2>3
<1> QED BY <1>3, <1>4, <1>5 DEF Home, Queued

LEMMA KeptNext ==
  TypeOK /\ TypeOK' /\ Places /\ Kept /\ [Next]_vars => Kept'
<1> SUFFICES ASSUME TypeOK, TypeOK', Places, Kept, [Next]_vars PROVE Kept'
  OBVIOUS
<1> USE DEF queueVars, workerVars, callerVars, stopperVars, poolVars, runVars,
            historyVars
<1>a. /\ queue \in [Workers -> Seq(Runnables)]
      /\ hand \in [Workers -> Runnables \cup {None}]
      /\ wpc \in [Workers -> WorkerPCs]
      /\ cpc \in [Runnables -> CallerPCs]
  BY DEF TypeOK
<1>b. HandsMatch /\ NowMatches
  BY DEF Places, Kept
<1>c. NowMatches'
  BY <1>b, NowNext
<1>d. ~sawNow => \A r \in Runnables : cpc[r] = "accepted" => Home(r)
  BY DEF Kept, NothingDropped, Accepted, Home
<1> SUFFICES ASSUME ~sawNow', NEW r \in Runnables, cpc'[r] = "accepted"
             PROVE  Home(r)'
  BY <1>c DEF Kept, NothingDropped, Accepted, Home
<1>e. ASSUME ~sawNow, cpc[r] = "accepted", UNCHANGED <<queue, hand, finished>>
      PROVE  Home(r)'
  BY <1>d, <1>e DEF Home, Queued
<1>1. ASSUME NEW q \in Runnables, Caller(q) PROVE Home(r)'
  <2>1. CASE ExecuteRefused(q) \/ ExecuteBegin(q) \/ ExecuteLook(q)
    <3>1. UNCHANGED <<queue, hand, finished, sawNow>>
      BY <2>1 DEF ExecuteRefused, ExecuteBegin, ExecuteLook
    <3>2. cpc[r] = "accepted"
      BY <1>a, <2>1 DEF ExecuteRefused, ExecuteBegin, ExecuteLook
    <3> QED BY <1>e, <3>1, <3>2
  <2>2. CASE ExecuteAdd(q)
    <3> DEFINE v == choice[q].best
    <3>1. v \in Workers /\ UNCHANGED <<hand, finished, sawNow>>
      BY <2>2, ScanFields DEF ExecuteAdd, TypeOK
    <3>2. CASE canAdd[v]
      <4>1. /\ queue' = [queue EXCEPT ![v] = Append(queue[v], q)]
            /\ cpc' = [cpc EXCEPT ![q] = "accepted"]
        BY <2>2, <3>2 DEF ExecuteAdd
      <4> HIDE DEF v
      <4>2. queue'[v] = Append(queue[v], q)
            /\ \A u \in Workers \ {v} : queue'[u] = queue[u]
        BY <1>a, <3>1, <4>1
      <4>3. CASE r = q
        <5>1. Len(queue[v]) + 1 \in DOMAIN queue'[v]
              /\ queue'[v][Len(queue[v]) + 1] = r
          BY <1>a, <3>1, <4>2, <4>3, Pushed
        <5> QED BY <3>1, <5>1 DEF Home, Queued
      <4>4. CASE r # q
        <5>1. Home(r)
          BY <1>a, <1>d, <3>1, <4>1, <4>4
        <5>2. \A i \in DOMAIN queue[v] :
                i \in DOMAIN queue'[v] /\ queue'[v][i] = queue[v][i]
          BY <1>a, <3>1, <4>2, Pushed
        <5>3. \A u \in Workers : r \in Queued(u) => r \in Queued(u)'
          BY <4>2, <5>2 DEF Queued
        <5> QED BY <3>1, <5>1, <5>3 DEF Home
      <4> QED BY <4>3, <4>4
    <3>3. CASE ~canAdd[v]
      <4>1. UNCHANGED queue /\ cpc' = [cpc EXCEPT ![q] = "refused"]
        BY <2>2, <3>3 DEF ExecuteAdd
      <4>2. cpc[r] = "accepted"
        BY <1>a, <4>1
      <4> QED BY <1>e, <3>1, <4>1, <4>2
    <3> QED BY <3>2, <3>3
  <2> QED BY <1>1, <2>1, <2>2 DEF Caller
<1>2. ASSUME NEW w \in Workers, Worker(w) \/ WakeSpuriously(w) PROVE Home(r)'
  <2> USE DEF Goes
  <2>1. UNCHANGED <<cpc, sawNow, mode>>
    BY <1>2 DEF Worker, WaitPasses, WaitBlocks, WakeSpuriously, ResetOwnEvent,
       CheckNow, CheckPasses, Poll, PolledOne, PolledNone, RecheckNow,
       RecheckPasses, StealLook, StealPoll, RunBegins, RunReturns, BecomeIdle,
       AgainOrEnd, WorkerCounts, WorkerExits
  <2>2. Home(r) /\ mode # 2
    BY <1>b, <1>d, <2>1 DEF NowMatches
  <2>3. CASE UNCHANGED <<queue, hand, finished>>
    BY <1>e, <2>1, <2>3
  <2>4. CASE Poll(w)
    <3>1. hand[w] = None
      BY <1>b, <2>4 DEF Poll, HandsMatch
    <3>2. CASE queue[w] = <<>>
      <4>1. UNCHANGED <<queue, hand, finished>>
        BY <1>a, <2>4, <3>1, <3>2 DEF Poll
      <4> QED BY <2>3, <4>1
    <3>3. CASE queue[w] # <<>>
      BY <2>2, <2>4, <3>1, <3>3, TakenHome DEF Poll
    <3> QED BY <3>2, <3>3
  <2>5. CASE StealPoll(w)
    <3> DEFINE v == victim[w].best
    <3>1. hand[w] = None
      BY <1>b, <2>5 DEF StealPoll, HandsMatch
    <3>2. v \in Workers
      BY ScanFields DEF TypeOK
    <3>3. CASE queue[v] = <<>>
      BY <2>3, <2>5, <3>3 DEF StealPoll
    <3>4. CASE queue[v] # <<>>
      BY <2>2, <2>5, <3>1, <3>2, <3>4, TakenHome DEF StealPoll
    <3> QED BY <3>3, <3>4
  <2>6. CASE RecheckNow(w) \/ RecheckPasses(w)
    <3>1. hand[w] = None
      BY <1>b, <2>1, <2>6 DEF RecheckNow, RecheckPasses, NowMatches
    <3>2. UNCHANGED <<queue, hand, finished>>
      BY <1>a, <2>6, <3>1 DEF RecheckNow, RecheckPasses
    <3> QED BY <2>3, <3>2
  <2>7. CASE RunReturns(w)
    <3>1. /\ finished' = finished \cup {hand[w]} /\ UNCHANGED queue
          /\ hand' = [hand EXCEPT ![w] = None]
      BY <2>7 DEF RunReturns
    <3>2. \A u \in Workers \ {w} : hand'[u] = hand[u]
      BY <1>a, <3>1
    <3> QED BY <2>2, <3>1, <3>2 DEF Home, Queued
  <2> QED BY <1>2, <2>2, <2>3, <2>4, <2>5, <2>6, <2>7
          DEF Worker, WaitPasses, WaitBlocks, WakeSpuriously, ResetOwnEvent,
          CheckNow, CheckPasses, PolledOne, PolledNone, StealLook, RunBegins,
          BecomeIdle, AgainOrEnd, WorkerCounts, WorkerExits
<1>3. ASSUME NEW s \in Stoppers,
             Stopper(s) \/ StopperBegins(s) \/ WaitReturnsSpuriously(s)
      PROVE Home(r)'
  <2>1. UNCHANGED <<queue, hand, cpc, finished>>
    BY <1>3 DEF Stopper, StopperBegins, WaitReturnsSpuriously, SetMode,
       LoopCounts, LoopSignals, LoopEnds, WaitReturns, StopperBlocks,
       WaitTimesOut, DeleteThreads, BeginShutdown, BeginShutdownNow,
       AlreadyShutdownNow, CallBegins
  <2>2. ~sawNow
    BY <1>3 DEF Stopper, StopperBegins, WaitReturnsSpuriously, SetMode,
       LoopCounts, LoopSignals, LoopEnds, WaitReturns, StopperBlocks,
       WaitTimesOut, DeleteThreads, BeginShutdown, BeginShutdownNow,
       AlreadyShutdownNow, CallBegins
  <2> QED BY <1>e, <2>1, <2>2
<1>4. CASE UNCHANGED vars
  BY <1>e, <1>4 DEF vars
<1> QED BY <1>1, <1>2, <1>3, <1>4 DEF Next

(***************************************************************************)
(* Termination.                                                            *)
(***************************************************************************)

EndedWorkers == {w \in Workers : Ended(w)}

LEMMA WorkersCounted ==
  /\ IsFiniteSet(Workers) /\ Cardinality(Workers) = NumThreads
  /\ \A W \in SUBSET Workers :
       /\ IsFiniteSet(W) /\ Cardinality(W) \in Nat
       /\ Cardinality(W) = NumThreads => W = Workers
<1>1. IsFiniteSet(Workers) /\ Cardinality(Workers) = NumThreads
  BY PoolAssumption, FS_Interval DEF Workers
<1> QED BY <1>1, FS_Subset, FS_CardinalityType

LEMMA CountInit == Init => CountMatches
<1> SUFFICES ASSUME Init PROVE CountMatches OBVIOUS
<1>1. EndedWorkers = {}
  BY DEF Init, EndedWorkers, Ended
<1>2. Cardinality(EndedWorkers) = 0
  BY <1>1, FS_EmptySet
<1>3. doneCount = 0 /\ ~doneEvent /\ NumThreads # 0
  BY PoolAssumption DEF Init
<1>4. \A w \in Workers : wpc[w] = "wait"
  BY DEF Init
<1> QED BY <1>2, <1>3, <1>4 DEF CountMatches, EndedWorkers

LEMMA CountNext ==
  TypeOK /\ TypeOK' /\ CountMatches /\ [Next]_vars => CountMatches'
<1> SUFFICES ASSUME TypeOK, TypeOK', CountMatches, [Next]_vars, Posix
             PROVE  CountMatches'
  BY DEF CountMatches
<1> USE DEF queueVars, workerVars, callerVars, stopperVars, poolVars, runVars,
            historyVars
<1>a. /\ wpc \in [Workers -> WorkerPCs] /\ mode' \in 0 .. 2
      /\ doneCount \in Nat /\ doneEvent \in BOOLEAN
  BY DEF TypeOK
<1>b. /\ doneCount = Cardinality(EndedWorkers)
      /\ doneEvent <=> doneCount = NumThreads
      /\ \A w \in Workers : wpc[w] \in {"count", "leaving", "ended"} => mode # 0
  BY DEF CountMatches, EndedWorkers
<1>c. ASSUME UNCHANGED <<doneCount, doneEvent>>, mode # 0 => mode' # 0,
             \A u \in Workers :
               /\ Ended(u)' <=> Ended(u)
               /\ wpc'[u] = "count" => wpc[u] = "count" \/ mode # 0
      PROVE  CountMatches'
  <2>1. EndedWorkers' = EndedWorkers
    BY <1>c DEF EndedWorkers
  <2>2. \A u \in Workers : wpc'[u] \in {"count", "leaving", "ended"} => mode' # 0
    BY <1>b, <1>c DEF Ended
  <2> QED BY <1>b, <1>c, <2>1, <2>2 DEF CountMatches, EndedWorkers
<1>1. ASSUME NEW r \in Runnables, Caller(r) PROVE CountMatches'
  <2>1. UNCHANGED <<mode, doneCount, doneEvent>>
    BY <1>1 DEF Caller, ExecuteRefused, ExecuteBegin, ExecuteLook, ExecuteAdd
  <2>2. \/ UNCHANGED wpc
        \/ \E u \in Workers :
             wpc' = [wpc EXCEPT ![u] = IF @ = "blocked" THEN "reset" ELSE @]
    <3>1. choice[r].best \in Workers
      BY ScanFields DEF TypeOK
    <3> QED BY <1>1, <3>1 DEF Caller, ExecuteRefused, ExecuteBegin, ExecuteLook,
               ExecuteAdd, SignalWorker
  <2>3. \A u \in Workers : wpc'[u] = wpc[u]
          \/ (wpc[u] = "blocked" /\ wpc'[u] = "reset")
    BY <1>a, <2>2
  <2> QED BY <1>c, <2>1, <2>3 DEF Ended
<1>2. ASSUME NEW w \in Workers, Worker(w) \/ WakeSpuriously(w)
      PROVE  CountMatches'
  <2> USE DEF Goes
  <2>1. CASE WorkerCounts(w)
    <3>1. /\ doneCount' = doneCount + 1 /\ UNCHANGED mode
          /\ doneEvent' = (doneEvent \/ doneCount' = NumThreads)
          /\ wpc[w] = "count" /\ wpc' = [wpc EXCEPT ![w] = "leaving"]
      BY <2>1 DEF WorkerCounts, CountDone
    <3>2. wpc'[w] = "leaving" /\ \A u \in Workers \ {w} : wpc'[u] = wpc[u]
      BY <1>a, <3>1
    <3>3. w \notin EndedWorkers /\ EndedWorkers' = EndedWorkers \cup {w}
      BY <3>1, <3>2 DEF EndedWorkers, Ended
    <3>4. EndedWorkers \in SUBSET Workers
      BY DEF EndedWorkers
    <3>5. Cardinality(EndedWorkers') = Cardinality(EndedWorkers) + 1
      BY <3>3, <3>4, FS_AddElement, WorkersCounted
    <3>6. ~doneEvent
      BY <1>b, <3>3, <3>4, WorkersCounted
    <3>7. doneEvent' <=> doneCount' = NumThreads
      BY <3>1, <3>6
    <3>8. \A u \in Workers : wpc'[u] \in {"count", "leaving", "ended"} => mode' # 0
      BY <1>b, <3>1, <3>2
    <3> QED BY <1>b, <3>1, <3>5, <3>7, <3>8 DEF CountMatches, EndedWorkers
  <2>2. CASE ~WorkerCounts(w)
    <3>1. UNCHANGED <<mode, doneCount, doneEvent>>
      BY <1>2, <2>2 DEF Worker, WaitPasses, WaitBlocks, WakeSpuriously,
         ResetOwnEvent, CheckNow, CheckPasses, Poll, PolledOne, PolledNone,
         RecheckNow, RecheckPasses, StealLook, StealPoll, RunBegins, RunReturns,
         BecomeIdle, AgainOrEnd, WorkerExits
    <3>2. /\ wpc' = [wpc EXCEPT ![w] = wpc'[w]]
          /\ \/ /\ wpc[w] \notin {"leaving", "ended"}
                /\ wpc'[w] \notin {"leaving", "ended"}
                /\ wpc'[w] = "count" => mode # 0
             \/ wpc[w] = "leaving" /\ wpc'[w] = "ended"
      BY <1>2, <1>a, <2>2 DEF Worker, WaitPasses, WaitBlocks, WakeSpuriously,
         ResetOwnEvent, CheckNow, CheckPasses, Poll, PolledOne, PolledNone,
         RecheckNow, RecheckPasses, StealLook, StealPoll, RunBegins, RunReturns,
         BecomeIdle, AgainOrEnd, WorkerExits
    <3>3. \A u \in Workers \ {w} : wpc'[u] = wpc[u]
      BY <1>a, <3>2
    <3> QED BY <1>c, <3>1, <3>2, <3>3 DEF Ended
  <2> QED BY <2>1, <2>2
<1>3. ASSUME NEW s \in Stoppers,
             Stopper(s) \/ StopperBegins(s) \/ WaitReturnsSpuriously(s)
      PROVE CountMatches'
  <2>1. ~LoopCounts(s)
    BY DEF LoopCounts, GetIsAlive
  <2>2. UNCHANGED <<doneCount, doneEvent>>
    BY <1>3, <2>1 DEF Stopper, StopperBegins, WaitReturnsSpuriously, SetMode,
       LoopSignals, LoopEnds, WaitReturns, StopperBlocks, WaitTimesOut,
       DeleteThreads, BeginShutdown, BeginShutdownNow, AlreadyShutdownNow,
       CallBegins
  <2>3. mode' = mode \/ mode' \in {1, 2}
    BY <1>3, <2>1 DEF Stopper, StopperBegins, WaitReturnsSpuriously, SetMode,
       LoopSignals, LoopEnds, WaitReturns, StopperBlocks, WaitTimesOut,
       DeleteThreads, BeginShutdown, BeginShutdownNow, AlreadyShutdownNow,
       CallBegins
  <2>4. \/ UNCHANGED wpc
        \/ wpc' = [wpc EXCEPT ![at[s]] = IF @ = "blocked" THEN "reset" ELSE @]
    BY <1>3, <2>1 DEF Stopper, StopperBegins, WaitReturnsSpuriously, SetMode,
       LoopSignals, LoopEnds, WaitReturns, StopperBlocks, WaitTimesOut,
       DeleteThreads, BeginShutdown, BeginShutdownNow, AlreadyShutdownNow,
       CallBegins, SignalWorker
  <2>5. \A u \in Workers : wpc'[u] = wpc[u]
          \/ (wpc[u] = "blocked" /\ wpc'[u] = "reset")
    BY <1>a, <2>4
  <2> QED BY <1>c, <2>2, <2>3, <2>5 DEF Ended
<1>4. CASE UNCHANGED vars
  BY <1>c, <1>4 DEF vars, Ended
<1> QED BY <1>1, <1>2, <1>3, <1>4 DEF Next

(***************************************************************************)
(* The theorems.                                                           *)
(***************************************************************************)

IInv == TypeOK /\ PoolInvariant

LEMMA Invariance == Spec => []IInv
<1>1. Init => IInv
  BY TypeInit, PlacesInit, KeptInit, CountInit
  DEF IInv, PoolInvariant, Places, Kept
<1>2. IInv /\ [Next]_vars => IInv'
  <2> SUFFICES ASSUME IInv, [Next]_vars PROVE IInv' OBVIOUS
  <2>1. TypeOK /\ Places /\ Kept /\ CountMatches
    BY DEF IInv, PoolInvariant, Places, Kept
  <2>2. TypeOK'
    BY <2>1, TypeNext DEF Places
  <2>3. Places' /\ Kept' /\ CountMatches'
    BY <2>1, <2>2, PlacesNext, KeptNext, CountNext
  <2> QED BY <2>2, <2>3 DEF IInv, PoolInvariant, Places, Kept
<1> QED BY <1>1, <1>2, PTL DEF Spec

\* The variables keep their types: no scan leaves the array of threads, and no
\* worker runs the NULL runnable.
THEOREM TypeCorrect == Spec => []TypeOK
<1>1. IInv => TypeOK
  BY DEF IInv
<1> QED BY <1>1, Invariance, PTL

\* However owners and thieves interleave, no runnable is started twice.
THEOREM AtMostOnce == Spec => []RunsAtMostOnce
<1>1. IInv => RunsAtMostOnce
  BY DEF IInv, PoolInvariant, StartsMatch, RunsAtMostOnce
<1> QED BY <1>1, Invariance, PTL

\* Until ShutdownNow is asked for, no accepted runnable disappears.
THEOREM NothingLost == Spec => []NothingDropped
<1>1. IInv => NothingDropped
  BY DEF IInv, PoolInvariant
<1> QED BY <1>1, Invariance, PTL

\* Where nobody but a worker counts, the count of all of them says that they ended.
LEMMA EventMeansEnded == ASSUME IInv, Posix PROVE TerminatedMeansEnded
<1> SUFFICES ASSUME doneEvent, NEW w \in Workers
             PROVE  Ended(w) /\ hand[w] = None
  BY DEF TerminatedMeansEnded
<1>1. Cardinality(EndedWorkers) = NumThreads
  BY DEF IInv, PoolInvariant, CountMatches, EndedWorkers
<1>2. EndedWorkers \in SUBSET Workers
  BY DEF EndedWorkers
<1>3. EndedWorkers = Workers
  BY <1>1, <1>2, WorkersCounted
<1>4. Ended(w)
  BY <1>3 DEF EndedWorkers
<1> QED BY <1>4 DEF IInv, PoolInvariant, HandsMatch, Ended

LEMMA EventMeansEndedNext == ASSUME Posix PROVE IInv' => TerminatedMeansEnded'
<1>1. IInv => TerminatedMeansEnded
  BY EventMeansEnded
<1> QED BY <1>1, PTL

\* On POSIX, GetIsTerminated is true only when every worker has ended.
THEOREM TerminatedOnPosix ==
  ASSUME Posix PROVE Spec => []TerminatedMeansEnded
<1>1. IInv => TerminatedMeansEnded
  BY EventMeansEnded
<1> QED BY <1>1, Invariance, PTL

\* Why all of this holds, and an invariant of its own: what each queue, hand and
\* counter has to do with the runnables and the workers.
THEOREM PlacesAgree == Spec => []PoolInvariant
<1>1. IInv => PoolInvariant
  BY DEF IInv
<1> QED BY <1>1, Invariance, PTL

(***************************************************************************)
(* What the answers of Shutdown and ShutdownNow mean.                      *)
(***************************************************************************)

\* One thread shuts the pool down, at will with a timeout, but it calls
\* ShutdownNow without one; and no wait ends without a signal.
Contract ==
  /\ Posix /\ ~SpuriousWakeups
  /\ \A s, t \in Stoppers : s = t
  /\ \A c \in Calls : c.op # "Shutdown" => ~c.timed

\* The mode 2 alone lets ShutdownNow say yes: either the call that set it is
\* still under way, or it has seen the event.
AnswerOK(s) ==
  /\ answer[s] = "yes" => doneEvent
  /\ spc[s] = "delete" => doneEvent
  /\ call[s].op # "Shutdown" => ~call[s].timed
  /\ mode = 2 => doneEvent \/ (/\ spc[s] \in {"loop", "wait", "blocked"}
                              /\ call[s].op # "Shutdown")

AnswersOK ==
  /\ \A s \in Stoppers : AnswerOK(s)
  /\ life = "freed" => doneEvent

\* A step that no stopper takes, or that changes nothing that its answers rest on.
LEMMA AnswersStay ==
  ASSUME AnswersOK, UNCHANGED <<mode, life, answer, spc, call>>, doneEvent => doneEvent'
  PROVE  AnswersOK'
BY DEF AnswersOK, AnswerOK

\* The event of the pool is never reset.
LEMMA EventStays == ASSUME CountDone PROVE doneEvent => doneEvent'
<1>1. doneEvent' = (doneEvent \/ doneCount' = NumThreads)
  BY DEF CountDone
<1> QED BY ONLY <1>1, Zenon

LEMMA AnswersNext ==
  ASSUME Contract, TypeOK, AnswersOK, [Next]_vars
  PROVE  AnswersOK'
<1> USE DEF queueVars, workerVars, callerVars, stopperVars, poolVars, runVars,
            historyVars
<1>1. ASSUME NEW r \in Runnables, Caller(r) PROVE AnswersOK'
  BY <1>1, AnswersStay
  DEF Caller, ExecuteRefused, ExecuteBegin, ExecuteLook, ExecuteAdd
<1>2. ASSUME NEW w \in Workers, Worker(w) \/ WakeSpuriously(w) PROVE AnswersOK'
  <2>1. UNCHANGED <<mode, life, answer, spc, call>>
    BY <1>2 DEF Worker, WaitPasses, WaitBlocks, WakeSpuriously, ResetOwnEvent,
       CheckNow, CheckPasses, Poll, PolledOne, PolledNone, RecheckNow, RecheckPasses,
       StealLook, StealPoll, RunBegins, RunReturns, BecomeIdle, AgainOrEnd,
       WorkerCounts, WorkerExits
  <2>2. UNCHANGED doneEvent \/ CountDone
    BY <1>2 DEF Worker, WaitPasses, WaitBlocks, WakeSpuriously, ResetOwnEvent,
       CheckNow, CheckPasses, Poll, PolledOne, PolledNone, RecheckNow, RecheckPasses,
       StealLook, StealPoll, RunBegins, RunReturns, BecomeIdle, AgainOrEnd,
       WorkerCounts, WorkerExits
  <2> QED BY <2>1, <2>2, AnswersStay, EventStays
<1>3. ASSUME NEW s \in Stoppers,
             Stopper(s) \/ StopperBegins(s) \/ WaitReturnsSpuriously(s)
      PROVE  AnswersOK'
  <2>a. \A t \in Stoppers : t = s
    BY DEF Contract
  <2>b. /\ spc \in [Stoppers -> StopperPCs] /\ call \in [Stoppers -> CallRecord]
        /\ answer \in [Stoppers -> {"none", "yes", "no"}]
    BY DEF TypeOK
  <2>c. AnswerOK(s) /\ (life = "freed" => doneEvent)
    BY DEF AnswersOK
  <2>d. AnswerOK(s)' /\ (life' = "freed" => doneEvent') => AnswersOK'
    BY <2>a DEF AnswersOK
  <2>1. CASE SetMode(s)
    BY <2>1, <2>b, <2>c, <2>d DEF SetMode, AnswerOK
  <2>2. CASE LoopCounts(s) \/ LoopSignals(s)
    BY <2>2, AnswersStay, EventStays DEF LoopCounts, LoopSignals
  <2>3. CASE LoopEnds(s) \/ StopperBlocks(s)
    BY <2>3, <2>b, <2>c, <2>d DEF LoopEnds, StopperBlocks, AnswerOK
  <2>4. CASE WaitReturns(s)
    <3>1. doneEvent' /\ UNCHANGED life
      BY <2>4 DEF WaitReturns
    <3>2. call'[s] = NoCall
      BY <2>4, <2>b DEF WaitReturns, Returns
    <3> QED BY <3>1, <3>2, <2>c, <2>d DEF AnswerOK, NoCall
  <2>5. CASE WaitTimesOut(s)
    <3>1. call[s].op = "Shutdown" /\ UNCHANGED <<mode, doneEvent, life>>
      BY <2>5, <2>c DEF WaitTimesOut, AnswerOK
    <3>2. call'[s] = NoCall /\ spc'[s] = "out" /\ answer'[s] = "no"
      BY <2>5, <2>b, <3>1 DEF WaitTimesOut, Returns
    <3> QED BY <3>1, <3>2, <2>c, <2>d DEF AnswerOK, NoCall
  <2>6. CASE DeleteThreads(s)
    BY <2>6, <2>b, <2>c, <2>d DEF DeleteThreads, AnswerOK
  <2>7. ASSUME NEW c \in Calls, BeginShutdown(s, c) \/ BeginShutdownNow(s, c)
        PROVE  AnswersOK'
    <3>1. /\ spc[s] = "out" /\ life' # "freed"
          /\ call' = [call EXCEPT ![s] = c]
          /\ UNCHANGED <<mode, doneEvent, answer>>
          /\ spc' \in {[spc EXCEPT ![s] = "set"], [spc EXCEPT ![s] = "loop"]}
      BY <2>7 DEF BeginShutdown, BeginShutdownNow, CallBegins
    <3>2. call'[s] = c /\ spc'[s] \in {"set", "loop"}
      BY <3>1, <2>b
    <3>3. c.op # "Shutdown" => ~c.timed
      BY DEF Contract
    <3> QED BY <3>1, <3>2, <3>3, <2>c, <2>d DEF AnswerOK
  <2>8. ASSUME NEW c \in Calls, AlreadyShutdownNow(s, c) PROVE AnswersOK'
    <3>1. spc[s] = "out" /\ mode = 2 /\ life' # "freed"
          /\ UNCHANGED <<mode, doneEvent>>
      BY <2>8 DEF AlreadyShutdownNow, CallBegins
    <3>2. doneEvent'
      BY <3>1, <2>c DEF AnswerOK
    <3>3. call'[s] = NoCall
      BY <2>8, <2>b DEF AlreadyShutdownNow, Returns
    <3> QED BY <3>1, <3>2, <3>3, <2>d DEF AnswerOK, NoCall
  <2>9. ~WaitReturnsSpuriously(s)
    BY DEF WaitReturnsSpuriously, Contract
  <2> QED BY <1>3, <2>1, <2>2, <2>3, <2>4, <2>5, <2>6, <2>7, <2>8, <2>9
          DEF Stopper, StopperBegins
<1>4. CASE UNCHANGED vars
  BY <1>4, AnswersStay DEF vars
<1> QED BY <1>1, <1>2, <1>3, <1>4 DEF Next

LEMMA AnswersInvariant ==
  ASSUME Contract PROVE Spec => []AnswersOK
<1>1. Init => AnswersOK
  BY DEF Init, AnswersOK, AnswerOK, NoCall
<1>2. TypeOK /\ AnswersOK /\ [Next]_vars => AnswersOK'
  BY AnswersNext
<1> QED BY <1>1, <1>2, TypeCorrect, PTL DEF Spec

\* A true answer of Shutdown or ShutdownNow, even one that only read the mode,
\* means that every worker has left the pool.
THEOREM YesIsTerminated ==
  ASSUME Contract PROVE Spec => []YesMeansTerminated
<1>1. AnswersOK /\ TerminatedMeansEnded => YesMeansTerminated
  BY DEF AnswersOK, AnswerOK, TerminatedMeansEnded, YesMeansTerminated
<1>2. Spec => []TerminatedMeansEnded
  BY TerminatedOnPosix DEF Contract
<1> QED BY <1>1, <1>2, AnswersInvariant, PTL

\* The destructor frees nothing that a worker still uses, although it may find the
\* mode set and then waits for nothing itself.
THEOREM FreedWhenEnded ==
  ASSUME Contract PROVE Spec => []FreedAfterEnd
<1>1. AnswersOK /\ TerminatedMeansEnded => FreedAfterEnd
  BY DEF AnswersOK, TerminatedMeansEnded, FreedAfterEnd
<1>2. Spec => []TerminatedMeansEnded
  BY TerminatedOnPosix DEF Contract
<1> QED BY <1>1, <1>2, AnswersInvariant, PTL

(***************************************************************************)
(* The pool is an executor.                                                *)
(***************************************************************************)

\* A queue is closed only by a worker that has read the mode.
ClosedMatches == \A w \in Workers : ~canAdd[w] => mode # 0

LEMMA ClosedNext == TypeOK /\ ClosedMatches /\ [Next]_vars => ClosedMatches'
<1> SUFFICES ASSUME TypeOK, ClosedMatches, [Next]_vars PROVE ClosedMatches' OBVIOUS
<1> USE DEF queueVars, workerVars, callerVars, stopperVars, poolVars, runVars,
            historyVars
<1>1. CASE \E r \in Runnables : Caller(r)
  <2>1. UNCHANGED canAdd /\ UNCHANGED mode
    BY <1>1 DEF Caller, ExecuteRefused, ExecuteBegin, ExecuteLook, ExecuteAdd
  <2>2. QED BY <2>1 DEF ClosedMatches
<1>2. CASE \E w \in Workers : Worker(w) \/ WakeSpuriously(w)
  <2>1. PICK w \in Workers : Worker(w) \/ WakeSpuriously(w) BY <1>2
  <2>2. CASE \/ WaitPasses(w) \/ WaitBlocks(w) \/ WakeSpuriously(w)
             \/ ResetOwnEvent(w) \/ CheckPasses(w) \/ Poll(w)
    <3>1. UNCHANGED canAdd /\ UNCHANGED mode
      BY <2>2 DEF WaitPasses, WaitBlocks, WakeSpuriously, ResetOwnEvent,
                  CheckPasses, Poll
    <3>2. QED BY <3>1 DEF ClosedMatches
  <2>3. CASE CheckNow(w)
    BY <2>3 DEF CheckNow, ClosedMatches, TypeOK
  <2>6. CASE PolledOne(w) \/ PolledNone(w) \/ RecheckNow(w) \/ RecheckPasses(w)
    <3>1. UNCHANGED canAdd /\ UNCHANGED mode
      BY <2>6 DEF PolledOne, PolledNone, RecheckNow, RecheckPasses
    <3>2. QED BY <3>1 DEF ClosedMatches
  <2>4. CASE \/ StealLook(w) \/ StealPoll(w) \/ RunBegins(w) \/ RunReturns(w)
             \/ BecomeIdle(w) \/ AgainOrEnd(w) \/ WorkerCounts(w) \/ WorkerExits(w)
    <3>1. UNCHANGED canAdd /\ UNCHANGED mode
      BY <2>4 DEF StealLook, StealPoll, RunBegins, RunReturns, BecomeIdle,
                  AgainOrEnd, WorkerCounts, WorkerExits
    <3>2. QED BY <3>1 DEF ClosedMatches
  <2>5. QED BY <2>1, <2>2, <2>3, <2>4, <2>6 DEF Worker
<1>3. CASE \E s \in Stoppers :
             Stopper(s) \/ StopperBegins(s) \/ WaitReturnsSpuriously(s)
  <2>1. UNCHANGED canAdd /\ (UNCHANGED mode \/ mode' \in {1, 2})
    BY <1>3
    DEF Stopper, StopperBegins, WaitReturnsSpuriously, SetMode, LoopCounts,
        LoopSignals, LoopEnds, WaitReturns, StopperBlocks, WaitTimesOut,
        DeleteThreads, BeginShutdown, BeginShutdownNow, AlreadyShutdownNow, CallBegins
  <2>2. QED BY <2>1 DEF ClosedMatches
<1>4. CASE UNCHANGED vars BY <1>4 DEF vars, ClosedMatches
<1> QED BY <1>1, <1>2, <1>3, <1>4 DEF Next

\* A runnable waits in a queue or in a hand.
Placed(r) == \E w \in Workers : r \in Queued(w) \/ hand[w] = r

\* The status of a runnable is kept by a step that moves it from a place to a place.
LEMMA SameStatus ==
  ASSUME NEW r \in Runnables, cpc'[r] = cpc[r], starts'[r] = starts[r],
         r \in finished' <=> r \in finished, Placed(r)' <=> Placed(r)
  PROVE  StatusOf(r)' = StatusOf(r)
BY DEF StatusOf, Placed

LEMMA SamePlace ==
  ASSUME UNCHANGED <<queue, hand>>, NEW r \in Runnables
  PROVE  Placed(r)' <=> Placed(r)
BY DEF Placed, Queued

LEMMA TakenPlace ==
  ASSUME TypeOK, NEW w \in Workers, NEW v \in Workers, queue[v] # <<>>,
         hand[w] = None, NEW r \in Runnables,
         hand' = [hand EXCEPT ![w] = Head(queue[v])],
         queue' = [queue EXCEPT ![v] = Tail(queue[v])]
  PROVE  Placed(r)' <=> Placed(r)
<1>1. /\ queue \in [Workers -> Seq(Runnables)]
      /\ hand \in [Workers -> Runnables \cup {None}]
      /\ r # None
  BY PoolAssumption DEF TypeOK
<1>2. /\ hand'[w] = queue[v][1] /\ 1 \in DOMAIN queue[v]
      /\ \A u \in Workers \ {w} : hand'[u] = hand[u]
      /\ queue'[v] = Tail(queue[v])
      /\ \A u \in Workers \ {v} : queue'[u] = queue[u]
  BY <1>1, HeadTail
<1>3. r \in Queued(v) <=> r = queue[v][1] \/ r \in Queued(v)'
  <2>1. /\ \A i \in DOMAIN Tail(queue[v]) :
             i + 1 \in DOMAIN queue[v] /\ Tail(queue[v])[i] = queue[v][i + 1]
        /\ \A i \in DOMAIN queue[v] :
             i = 1 \/ (/\ i - 1 \in DOMAIN Tail(queue[v])
                      /\ Tail(queue[v])[i - 1] = queue[v][i])
    BY <1>1, HeadTail
  <2>2. r = queue[v][1] => r \in Queued(v)
    BY <1>2 DEF Queued
  <2>3. r \in Queued(v)' => r \in Queued(v)
    BY <1>2, <2>1 DEF Queued
  <2>4. r \in Queued(v) => r = queue[v][1] \/ r \in Queued(v)'
    <3> SUFFICES ASSUME NEW i \in DOMAIN queue[v], queue[v][i] = r, i # 1
                 PROVE  r \in Queued(v)'
      BY DEF Queued
    <3>1. i - 1 \in DOMAIN queue'[v] /\ queue'[v][i - 1] = r
      BY <1>2, <2>1
    <3> QED BY <3>1 DEF Queued
  <2> QED BY <2>2, <2>3, <2>4
<1>4. \A u \in Workers \ {v} : r \in Queued(u)' <=> r \in Queued(u)
  BY <1>2 DEF Queued
<1> QED BY <1>1, <1>2, <1>3, <1>4 DEF Placed

\* What a step of the pool is for the executor: nothing, or one runnable that moves,
\* or some pending runnables that are dropped.
LEMMA Stutters ==
  ASSUME UNCHANGED <<mode, sawNow, doneEvent>>,
         \A r \in Runnables : StatusOf(r)' = StatusOf(r)
  PROVE  UNCHANGED Abstract!vars
BY DEF Abstract!vars

LEMMA OneMoves ==
  ASSUME NEW r \in Runnables, NEW to, UNCHANGED <<mode, sawNow, doneEvent>>,
         StatusOf(r)' = to, \A q \in Runnables \ {r} : StatusOf(q)' = StatusOf(q)
  PROVE  /\ StatusOf(r) = "new" /\ to = "offered" /\ mode = 0 => Abstract!Next
         /\ StatusOf(r) \in {"new", "offered"} /\ to = "refused" /\ mode # 0
              => Abstract!Next
         /\ StatusOf(r) = "offered" /\ to = "pending" => Abstract!Next
         /\ StatusOf(r) = "pending" /\ to = "running" /\ ~doneEvent => Abstract!Next
         /\ StatusOf(r) = "running" /\ to = "done" => Abstract!Next
<1> DEFINE S == [q \in Runnables |-> StatusOf(q)]
<1>1. S[r] = StatusOf(r)
  OBVIOUS
<1>2. S' = [S EXCEPT ![r] = to]
  OBVIOUS
<1>3. (mode # 0)' = (mode # 0) /\ sawNow' = sawNow /\ doneEvent' = doneEvent
  OBVIOUS
<1> QED BY <1>1, <1>2, <1>3
  DEF Abstract!Next, Abstract!Offer, Abstract!Refuse, Abstract!Accept,
      Abstract!Start, Abstract!Finish, Abstract!Becomes

LEMMA SomeDropped ==
  ASSUME sawNow, UNCHANGED <<mode, sawNow, doneEvent>>,
         \A r \in Runnables : \/ StatusOf(r)' = StatusOf(r)
                              \/ StatusOf(r) = "pending" /\ StatusOf(r)' = "dropped"
  PROVE  Abstract!Next
<1> DEFINE S == [q \in Runnables |-> StatusOf(q)]
           R == {q \in Runnables : StatusOf(q) = "pending" /\ StatusOf(q)' = "dropped"}
<1>1. R \in SUBSET {q \in Runnables : S[q] = "pending"}
  OBVIOUS
<1>2. S' = [q \in Runnables |-> IF q \in R THEN "dropped" ELSE S[q]]
  OBVIOUS
<1>3. (mode # 0)' = (mode # 0) /\ sawNow' = sawNow /\ doneEvent' = doneEvent
  OBVIOUS
<1> HIDE DEF R
<1>4. Abstract!Drop
  BY <1>1, <1>2, <1>3 DEF Abstract!Drop, Abstract!ThrowAway
<1> QED BY <1>4 DEF Abstract!Next

\* What Execute and Submit do, for the executor.
LEMMA CallerRefines ==
  ASSUME TypeOK, TypeOK', Places, ClosedMatches, NEW r \in Runnables, Caller(r)
  PROVE  [Abstract!Next]_Abstract!vars
<1> USE DEF queueVars, workerVars, callerVars, stopperVars, poolVars, runVars,
            historyVars
<1>a. /\ queue \in [Workers -> Seq(Runnables)] /\ cpc \in [Runnables -> CallerPCs]
      /\ starts \in [Runnables -> Nat]
  BY DEF TypeOK
<1>b. UNCHANGED <<mode, sawNow, doneEvent, hand, starts, finished>>
  BY DEF Caller, ExecuteRefused, ExecuteBegin, ExecuteLook, ExecuteAdd
<1>c. cpc[r] # "accepted" => starts[r] = 0 /\ r \notin finished
  BY DEF Places, StartsMatch
<1>1. CASE ExecuteRefused(r) \/ ExecuteBegin(r) \/ ExecuteLook(r)
  <2>1. UNCHANGED queue
    BY <1>1 DEF ExecuteRefused, ExecuteBegin, ExecuteLook
  <2>2. \A q \in Runnables : Placed(q)' <=> Placed(q)
    BY <1>b, <2>1, SamePlace
  <2>3. \A q \in Runnables : cpc'[q] = cpc[q] => StatusOf(q)' = StatusOf(q)
    BY <1>b, <2>2, SameStatus
  <2>4. CASE ExecuteRefused(r) \/ ExecuteBegin(r)
    <3>1. \A q \in Runnables \ {r} : cpc'[q] = cpc[q]
      BY <1>a, <2>4 DEF ExecuteRefused, ExecuteBegin
    <3>2. \/ cpc[r] = "new" /\ cpc'[r] = "refused" /\ mode # 0
          \/ cpc[r] = "new" /\ cpc'[r] = "look" /\ mode = 0
      BY <1>a, <2>4 DEF ExecuteRefused, ExecuteBegin
    <3>3. \/ StatusOf(r) = "new" /\ StatusOf(r)' = "refused" /\ mode # 0
          \/ StatusOf(r) = "new" /\ StatusOf(r)' = "offered" /\ mode = 0
      BY <3>2 DEF StatusOf
    <3> QED BY <1>b, <2>3, <3>1, <3>3, OneMoves
  <2>5. CASE ExecuteLook(r)
    <3>1. UNCHANGED cpc
      BY <2>5 DEF ExecuteLook
    <3> QED BY <1>b, <2>3, <3>1, Stutters
  <2> QED BY <1>1, <2>4, <2>5
<1>2. CASE ExecuteAdd(r)
  <2>1. PICK v \in Workers : v = choice[r].best /\ cpc[r] = "look"
    BY <1>2, ScanFields DEF ExecuteAdd, TypeOK
  <2>2. StatusOf(r) = "offered"
    BY <2>1 DEF StatusOf
  <2>3. CASE canAdd[v]
    <3>1. /\ queue' = [queue EXCEPT ![v] = Append(queue[v], r)]
          /\ cpc' = [cpc EXCEPT ![r] = "accepted"]
      BY <1>2, <2>1, <2>3 DEF ExecuteAdd
    <3>2. queue'[v] = Append(queue[v], r)
          /\ \A u \in Workers \ {v} : queue'[u] = queue[u]
      BY <1>a, <2>1, <3>1
    <3>3. /\ \A i \in DOMAIN queue[v] :
              i \in DOMAIN queue'[v] /\ queue'[v][i] = queue[v][i]
          /\ \A i \in DOMAIN queue'[v] :
              \/ i \in DOMAIN queue[v] /\ queue'[v][i] = queue[v][i]
              \/ queue'[v][i] = r
          /\ \E i \in DOMAIN queue'[v] : queue'[v][i] = r
      <4>1. queue[v] \in Seq(Runnables)
        BY <1>a
      <4>2. Len(queue[v]) + 1 \in DOMAIN queue'[v]
            /\ queue'[v][Len(queue[v]) + 1] = r
        BY <3>2, <4>1, Pushed
      <4> QED BY <3>2, <4>1, <4>2, Pushed
    <3>4. ASSUME NEW q \in Runnables \ {r}
          PROVE  (q \in Queued(v))' <=> q \in Queued(v)
      <4>1. ASSUME NEW i \in DOMAIN queue[v], queue[v][i] = q
            PROVE  (q \in Queued(v))'
        BY <3>3, <4>1 DEF Queued
      <4>2. ASSUME NEW i \in DOMAIN queue'[v], queue'[v][i] = q
            PROVE  q \in Queued(v)
        <5>1. i \in DOMAIN queue[v] /\ queue[v][i] = q
          BY <3>3, <4>2
        <5> QED BY <5>1 DEF Queued
      <4> QED BY <4>1, <4>2 DEF Queued
    <3>5. \A u \in Workers \ {v} : Queued(u)' = Queued(u)
      BY <3>2 DEF Queued
    <3>6. ASSUME NEW q \in Runnables \ {r} PROVE Placed(q)' <=> Placed(q)
      <4>1. \A u \in Workers : (q \in Queued(u))' <=> q \in Queued(u)
        BY <3>4, <3>5
      <4>2. \A u \in Workers : hand'[u] = hand[u]
        BY <1>b
      <4> QED BY <4>1, <4>2 DEF Placed
    <3>7. \A q \in Runnables \ {r} : cpc'[q] = cpc[q] /\ StatusOf(q)' = StatusOf(q)
      BY <1>a, <1>b, <3>1, <3>6, SameStatus
    <3>8. Placed(r)' /\ cpc'[r] = "accepted"
      BY SMTT(30), <1>a, <2>1, <3>1, <3>3 DEF Placed, Queued
    <3>9. StatusOf(r)' = "pending"
      BY <1>b, <1>c, <2>1, <3>8 DEF StatusOf, Placed
    <3> QED BY <1>b, <2>2, <3>7, <3>9, OneMoves
  <2>4. CASE ~canAdd[v]
    <3>1. UNCHANGED queue /\ cpc' = [cpc EXCEPT ![r] = "refused"]
      BY <1>2, <2>1, <2>4 DEF ExecuteAdd
    <3>2. mode # 0
      BY <2>1, <2>4 DEF ClosedMatches
    <3>3. StatusOf(r)' = "refused" /\ \A q \in Runnables \ {r} : cpc'[q] = cpc[q]
      BY <1>a, <3>1 DEF StatusOf
    <3>4. \A q \in Runnables \ {r} : StatusOf(q)' = StatusOf(q)
      BY <1>b, <3>1, <3>3, SamePlace, SameStatus
    <3> QED BY <1>b, <2>2, <3>2, <3>3, <3>4, OneMoves
  <2> QED BY <2>3, <2>4
<1> QED BY <1>1, <1>2 DEF Caller

\* What a worker does: taking from a queue is nothing, a queue that is cleared or a
\* hand that is emptied drops, and the last worker to leave terminates.
LEMMA WorkerRefines ==
  ASSUME TypeOK, TypeOK', IInv, IInv', Posix, NEW w \in Workers,
         Worker(w) \/ WakeSpuriously(w)
  PROVE  [Abstract!Next]_Abstract!vars
<1> USE DEF queueVars, workerVars, callerVars, stopperVars, poolVars, runVars,
            historyVars, Goes
<1>a. /\ queue \in [Workers -> Seq(Runnables)] /\ cpc \in [Runnables -> CallerPCs]
      /\ starts \in [Runnables -> Nat] /\ hand \in [Workers -> Runnables \cup {None}]
      /\ wpc \in [Workers -> WorkerPCs]
  BY DEF TypeOK
<1>b. HandsMatch /\ OnePlace /\ StartsMatch /\ NowMatches
  BY DEF IInv, PoolInvariant
<1>c. UNCHANGED <<mode, sawNow, cpc>>
  BY DEF Worker, WaitPasses, WaitBlocks, WakeSpuriously, ResetOwnEvent,
     CheckNow, CheckPasses, Poll, PolledOne, PolledNone, RecheckNow, RecheckPasses,
     StealLook, StealPoll, RunBegins, RunReturns, BecomeIdle, AgainOrEnd,
     WorkerCounts, WorkerExits
<1>d. ~WorkerCounts(w) => UNCHANGED doneEvent
  BY DEF Worker, WaitPasses, WaitBlocks, WakeSpuriously, ResetOwnEvent,
     CheckNow, CheckPasses, Poll, PolledOne, PolledNone, RecheckNow, RecheckPasses,
     StealLook, StealPoll, RunBegins, RunReturns, BecomeIdle, AgainOrEnd,
     WorkerExits
<1>e. ASSUME UNCHANGED <<queue, hand, starts, finished>>, NEW r \in Runnables
      PROVE  StatusOf(r)' = StatusOf(r)
  BY <1>c, <1>e, SamePlace, SameStatus
<1>1. CASE UNCHANGED <<queue, hand, starts, finished>> /\ ~WorkerCounts(w)
  BY <1>1, <1>c, <1>d, <1>e, Stutters
<1>2. CASE CheckNow(w)
  <2>1. /\ mode = 2 /\ UNCHANGED <<hand, starts, finished, doneEvent>>
        /\ queue' = [queue EXCEPT ![w] = <<>>]
    BY <1>2 DEF CheckNow
  <2>2. \A u \in Workers : Queued(u)' \subseteq Queued(u)
    BY <1>a, <2>1 DEF Queued
  <2>3. \A r \in Runnables : Placed(r)' => Placed(r)
    BY <2>1, <2>2 DEF Placed
  <2>4. \A r \in Runnables : \/ StatusOf(r)' = StatusOf(r)
                             \/ StatusOf(r) = "pending" /\ StatusOf(r)' = "dropped"
    BY <1>c, <2>1, <2>3 DEF StatusOf, Placed
  <2> QED BY <1>b, <1>c, <2>1, <2>4, SomeDropped DEF NowMatches
<1>3. CASE RecheckNow(w) \/ RecheckPasses(w)
  <2>1. /\ wpc[w] = "recheck" /\ UNCHANGED <<queue, starts, finished, doneEvent>>
        /\ hand' = [hand EXCEPT ![w] = None]
    BY <1>3 DEF RecheckNow, RecheckPasses
  <2>2. CASE hand[w] = None
    <3>1. UNCHANGED hand
      BY <1>a, <2>1, <2>2
    <3> QED BY <1>c, <1>e, <2>1, <3>1, Stutters
  <2>3. CASE hand[w] # None
    <3>1. \A r \in Runnables : Placed(r)' => Placed(r)
      BY <1>a, <2>1, PoolAssumption DEF Placed, Queued
    <3>2. \A r \in Runnables : \/ StatusOf(r)' = StatusOf(r)
                               \/ StatusOf(r) = "pending" /\ StatusOf(r)' = "dropped"
      BY <1>c, <2>1, <3>1 DEF StatusOf, Placed
    <3> QED BY <1>b, <1>c, <2>1, <2>3, <3>2, SomeDropped DEF NowMatches
  <2> QED BY <2>2, <2>3
<1>4. ASSUME NEW v \in Workers, queue[v] # <<>>, hand[w] = None,
             hand' = [hand EXCEPT ![w] = Head(queue[v])],
             queue' = [queue EXCEPT ![v] = Tail(queue[v])],
             UNCHANGED <<starts, finished, doneEvent>>
      PROVE  [Abstract!Next]_Abstract!vars
  <2>1. \A r \in Runnables : Placed(r)' <=> Placed(r)
    BY <1>4, TakenPlace
  <2>2. \A r \in Runnables : StatusOf(r)' = StatusOf(r)
    BY <1>c, <1>4, <2>1, SameStatus
  <2> QED BY <1>c, <1>4, <2>2, Stutters
<1>5. CASE Poll(w)
  <2>1. hand[w] = None
    BY <1>b, <1>5 DEF Poll, HandsMatch
  <2>2. CASE queue[w] = <<>>
    <3>1. UNCHANGED <<queue, hand, starts, finished, doneEvent>>
      BY <1>a, <1>5, <2>1, <2>2 DEF Poll
    <3> QED BY <1>c, <1>e, <3>1, Stutters
  <2>3. CASE queue[w] # <<>>
    BY <1>4, <1>5, <2>1, <2>3 DEF Poll
  <2> QED BY <2>2, <2>3
<1>6. CASE StealPoll(w)
  <2>1. hand[w] = None
    BY <1>b, <1>6 DEF StealPoll, HandsMatch
  <2>2. PICK v \in Workers : v = victim[w].best
    BY ScanFields DEF TypeOK
  <2>3. CASE queue[v] = <<>>
    <3>1. UNCHANGED <<queue, hand, starts, finished, doneEvent>>
      BY <1>6, <2>2, <2>3 DEF StealPoll
    <3> QED BY <1>c, <1>e, <3>1, Stutters
  <2>4. CASE queue[v] # <<>>
    BY <1>4, <1>6, <2>1, <2>2, <2>4 DEF StealPoll
  <2> QED BY <2>3, <2>4
<1>7. CASE RunBegins(w)
  <2>1. PICK r \in Runnables : r = hand[w] /\ r # None
    BY <1>a, <1>b, <1>7, PoolAssumption DEF RunBegins, HandsMatch
  <2>2. /\ starts' = [starts EXCEPT ![r] = @ + 1] /\ wpc[w] = "run"
        /\ UNCHANGED <<queue, hand, finished, doneEvent>>
    BY <1>7, <2>1 DEF RunBegins
  <2>3. cpc[r] = "accepted" /\ starts[r] = 0 /\ r \notin finished /\ starts'[r] = 1
    BY <1>a, <1>b, <2>1, <2>2 DEF OnePlace
  <2>4. StatusOf(r) = "pending" /\ StatusOf(r)' = "running"
    BY <1>c, <2>1, <2>2, <2>3 DEF StatusOf
  <2>5. \A q \in Runnables \ {r} : StatusOf(q)' = StatusOf(q)
    BY <1>a, <1>c, <2>2, SamePlace, SameStatus
  <2>6. ~doneEvent
    BY <2>2, EventMeansEnded DEF TerminatedMeansEnded, Ended
  <2> QED BY <1>c, <2>2, <2>4, <2>5, <2>6, OneMoves
<1>8. CASE RunReturns(w)
  <2>1. PICK r \in Runnables : r = hand[w] /\ r # None
    BY <1>a, <1>b, <1>8, PoolAssumption DEF RunReturns, HandsMatch
  <2>2. /\ finished' = finished \cup {r} /\ wpc[w] = "running"
        /\ hand' = [hand EXCEPT ![w] = None]
        /\ UNCHANGED <<queue, starts, doneEvent>>
    BY <1>8, <2>1 DEF RunReturns
  <2>3. cpc[r] = "accepted" /\ starts[r] = 1 /\ r \notin finished
    BY <1>b, <2>1, <2>2 DEF OnePlace
  <2>4. StatusOf(r) = "running" /\ StatusOf(r)' = "done"
    BY <1>c, <2>1, <2>2, <2>3 DEF StatusOf
  <2>5. \A q \in Runnables \ {r} : Placed(q)' <=> Placed(q)
    <3>1. \A q \in Runnables \ {r}, u \in Workers : hand'[u] = q <=> hand[u] = q
      BY <1>a, <2>1, <2>2, PoolAssumption
    <3> QED BY <2>2, <3>1 DEF Placed, Queued
  <2>6. \A q \in Runnables \ {r} : StatusOf(q)' = StatusOf(q)
    BY <1>c, <2>2, <2>5, SameStatus
  <2> QED BY <1>c, <2>2, <2>4, <2>6, OneMoves
<1>9. CASE WorkerCounts(w)
  <2>1. /\ UNCHANGED <<queue, hand, starts, finished>> /\ wpc[w] = "count"
        /\ doneEvent' = (doneEvent \/ doneCount' = NumThreads)
    BY <1>9 DEF WorkerCounts, CountDone
  <2>2. \A r \in Runnables : StatusOf(r)' = StatusOf(r)
    BY <1>e, <2>1
  <2>3. CASE UNCHANGED doneEvent
    BY <1>c, <2>2, <2>3, Stutters
  <2>4. CASE doneEvent' # doneEvent
    <3>1. doneEvent' /\ ~doneEvent
      BY <2>1, <2>4, Zenon DEF TypeOK
    <3>2. mode # 0
      BY <2>1 DEF IInv, PoolInvariant, CountMatches
    <3>3. \A u \in Workers : hand'[u] = None
      BY <3>1, EventMeansEndedNext DEF TerminatedMeansEnded
    <3>4. \A r \in Runnables : StatusOf(r) # "running"
      <4> SUFFICES ASSUME NEW r \in Runnables, r \notin finished, starts[r] > 0
                   PROVE  FALSE
        BY <1>a DEF StatusOf, CallerPCs
      <4>1. starts[r] = 1
        BY <1>b DEF StartsMatch
      <4>2. \E u \in Workers : hand[u] = r
        BY <1>b, <4>1 DEF StartsMatch
      <4> QED BY <2>1, <3>3, <4>2, PoolAssumption
    <3> QED BY <1>c, <2>2, <3>1, <3>2, <3>4 DEF Abstract!Next, Abstract!Terminate
  <2> QED BY <2>3, <2>4
<1> QED BY <1>1, <1>2, <1>3, <1>5, <1>6, <1>7, <1>8, <1>9
        DEF Worker, WaitPasses, WaitBlocks, WakeSpuriously, ResetOwnEvent,
        CheckPasses, PolledOne, PolledNone, StealLook, BecomeIdle, AgainOrEnd,
        WorkerExits, WorkerCounts

\* What Shutdown and ShutdownNow do: only the mode they set is seen.
LEMMA StopperRefines ==
  ASSUME TypeOK, Posix, NowMatches, NEW s \in Stoppers,
         Stopper(s) \/ StopperBegins(s) \/ WaitReturnsSpuriously(s)
  PROVE  [Abstract!Next]_Abstract!vars
<1> USE DEF queueVars, workerVars, callerVars, stopperVars, poolVars, runVars,
            historyVars
<1>1. ~LoopCounts(s)
  BY DEF LoopCounts, GetIsAlive
<1>2. UNCHANGED <<queue, hand, cpc, starts, finished, doneEvent>>
  BY <1>1 DEF Stopper, StopperBegins, WaitReturnsSpuriously, SetMode,
     LoopSignals, LoopEnds, WaitReturns, StopperBlocks, WaitTimesOut,
     DeleteThreads, BeginShutdown, BeginShutdownNow, AlreadyShutdownNow, CallBegins
<1>3. \A r \in Runnables : StatusOf(r)' = StatusOf(r)
  BY <1>2, SamePlace, SameStatus
<1>4. CASE SetMode(s)
  <2>1. mode' \in {1, 2} /\ sawNow' = (sawNow \/ mode' = 2)
    BY <1>4 DEF SetMode
  <2>2. sawNow' \in {sawNow, TRUE}
    BY <2>1, Zenon DEF TypeOK
  <2>3. (mode # 0)' = TRUE
    BY <2>1
  <2>4. [r \in Runnables |-> StatusOf(r)]' = [r \in Runnables |-> StatusOf(r)]
    BY <1>3
  <2>5. Abstract!Shutdown
    BY <1>2, <2>2, <2>3, <2>4, Zenon DEF Abstract!Shutdown
  <2> QED BY <2>5 DEF Abstract!Next
<1>5. CASE ~SetMode(s)
  <2>1. UNCHANGED <<mode, sawNow>>
    BY <1>1, <1>5 DEF Stopper, StopperBegins, WaitReturnsSpuriously,
       LoopSignals, LoopEnds, WaitReturns, StopperBlocks, WaitTimesOut,
       DeleteThreads, BeginShutdown, BeginShutdownNow, AlreadyShutdownNow, CallBegins
  <2> QED BY <1>2, <1>3, <2>1, Stutters
<1> QED BY <1>4, <1>5

\* ExecutorThreadPool is an executor as iExecutor (IConcurrent.h) describes it, on
\* POSIX: a runnable is refused only by a pool that was shut, started at most once,
\* thrown away only after ShutdownNow, and neither started nor left running once
\* GetIsTerminated is true; for any number of threads, callers and stoppers.
THEOREM PoolIsExecutor ==
  ASSUME Posix PROVE Spec => ImplementsExecutor
<1>1. Init => Abstract!Init
  BY DEF Init, Abstract!Init, StatusOf
<1>2. Init => ClosedMatches
  BY DEF Init, ClosedMatches
<1>3. TypeOK /\ ClosedMatches /\ [Next]_vars => ClosedMatches'
  BY ClosedNext
<1>4. IInv /\ IInv' /\ ClosedMatches /\ [Next]_vars => [Abstract!Next]_Abstract!vars
  <2> SUFFICES ASSUME IInv, IInv', ClosedMatches, [Next]_vars
               PROVE  [Abstract!Next]_Abstract!vars
    OBVIOUS
  <2>1. TypeOK /\ TypeOK' /\ Places /\ NowMatches
    BY DEF IInv, PoolInvariant, Places
  <2>2. CASE UNCHANGED vars
    <3>1. UNCHANGED <<mode, sawNow, doneEvent>>
      BY <2>2 DEF vars, poolVars, historyVars
    <3>2. UNCHANGED <<queue, hand, cpc, starts, finished>>
      BY <2>2 DEF vars, queueVars, workerVars, callerVars, runVars
    <3> QED BY <3>1, <3>2, SamePlace, SameStatus, Stutters
  <2> QED BY <2>1, <2>2, CallerRefines, WorkerRefines, StopperRefines DEF Next
<1>5. IInv => TypeOK
  BY DEF IInv
<1> QED
  BY <1>1, <1>2, <1>3, <1>4, <1>5, Invariance, PTL
  DEF Spec, ImplementsExecutor, Abstract!Spec

(***************************************************************************)
(* ShutdownNow halts what is waiting.                                      *)
(***************************************************************************)

\* One thread shuts the pool down: two could set the mode 1 after the mode 2.
OneStopper == \A s, t \in Stoppers : s = t

\* Then the mode 2 stays, since Shutdown sets the mode only if it has read 0.
ModeStays ==
  /\ sawNow => mode = 2
  /\ \A s \in Stoppers : spc[s] = "set" /\ call[s].op = "Shutdown" => mode = 0

LEMMA ModeNext ==
  ASSUME OneStopper, TypeOK, ModeStays, [Next]_vars
  PROVE  ModeStays'
<1> USE DEF queueVars, workerVars, callerVars, stopperVars, poolVars, runVars,
            historyVars
<1>1. CASE UNCHANGED <<mode, sawNow, spc, call>>
  BY <1>1 DEF ModeStays
<1>2. ASSUME NEW s \in Stoppers,
             Stopper(s) \/ StopperBegins(s) \/ WaitReturnsSpuriously(s)
      PROVE  ModeStays'
  <2>a. \A t \in Stoppers : t = s
    BY DEF OneStopper
  <2>b. spc \in [Stoppers -> StopperPCs] /\ call \in [Stoppers -> CallRecord]
    BY DEF TypeOK
  <2>1. CASE SetMode(s)
    <3>1. /\ spc[s] = "set" /\ spc'[s] = "loop"
          /\ mode' = IF call[s].op = "Shutdown" THEN 1 ELSE 2
          /\ sawNow' <=> sawNow \/ mode' = 2
      BY <2>1, <2>b DEF SetMode, TypeOK
    <3>2. sawNow' => mode' = 2
      BY <3>1 DEF ModeStays
    <3> QED BY <3>1, <3>2, <2>a DEF ModeStays
  <2>2. CASE \/ LoopCounts(s) \/ LoopSignals(s) \/ LoopEnds(s) \/ StopperBlocks(s)
             \/ WaitReturns(s) \/ WaitTimesOut(s) \/ WaitReturnsSpuriously(s)
             \/ DeleteThreads(s) \/ \E c \in Calls : AlreadyShutdownNow(s, c)
    <3>1. UNCHANGED <<mode, sawNow>>
      BY <2>2 DEF WaitReturnsSpuriously, LoopCounts, LoopSignals, LoopEnds,
         WaitReturns, StopperBlocks, WaitTimesOut, DeleteThreads,
         AlreadyShutdownNow, CallBegins
    <3>2. spc'[s] # "set" \/ UNCHANGED <<spc, call>>
      BY <2>2, <2>b DEF WaitReturnsSpuriously, LoopCounts, LoopSignals, LoopEnds,
         WaitReturns, StopperBlocks, WaitTimesOut, DeleteThreads,
         AlreadyShutdownNow, CallBegins, Returns
    <3> QED BY <3>1, <3>2, <2>a DEF ModeStays
  <2>3. ASSUME NEW c \in Calls, BeginShutdown(s, c) \/ BeginShutdownNow(s, c)
        PROVE  ModeStays'
    <3>1. UNCHANGED <<mode, sawNow>> /\ call'[s] = c
      BY <2>3, <2>b DEF BeginShutdown, BeginShutdownNow, CallBegins
    <3>2. spc'[s] = "set" /\ c.op = "Shutdown" => mode = 0
      BY <2>3, <2>b DEF BeginShutdown, BeginShutdownNow
    <3> QED BY <3>1, <3>2, <2>a DEF ModeStays
  <2> QED BY <1>2, <2>1, <2>2, <2>3 DEF Stopper, StopperBegins
<1>3. CASE \E r \in Runnables : Caller(r)
  <2>1. UNCHANGED <<mode, sawNow, spc, call>>
    BY <1>3 DEF Caller, ExecuteRefused, ExecuteBegin, ExecuteLook, ExecuteAdd
  <2> QED BY <1>1, <2>1
<1>4. CASE \E w \in Workers : Worker(w) \/ WakeSpuriously(w)
  <2>1. UNCHANGED <<mode, sawNow>>
    BY <1>4
    DEF Worker, WaitPasses, WaitBlocks, WakeSpuriously, ResetOwnEvent,
       CheckNow, CheckPasses, Poll, PolledOne, PolledNone, RecheckNow,
       RecheckPasses, StealLook, StealPoll, RunBegins, RunReturns, BecomeIdle,
       AgainOrEnd, WorkerCounts, WorkerExits
  <2>2. UNCHANGED <<spc, call>>
    BY <1>4
    DEF Worker, WaitPasses, WaitBlocks, WakeSpuriously, ResetOwnEvent,
       CheckNow, CheckPasses, Poll, PolledOne, PolledNone, RecheckNow,
       RecheckPasses, StealLook, StealPoll, RunBegins, RunReturns, BecomeIdle,
       AgainOrEnd, WorkerCounts, WorkerExits
  <2> QED BY <1>1, <2>1, <2>2
<1>5. CASE UNCHANGED vars
  BY <1>1, <1>5 DEF vars
<1> QED BY <1>2, <1>3, <1>4, <1>5 DEF Next

\* Then a worker that took a runnable after ShutdownNow is on its way out of _Run,
\* with no other theft before it.
LateMatches ==
  \A w \in Workers :
    \/ late[w] = 0
    \/ /\ late[w] = 1
       /\ sawNow
       /\ wpc[w] \in {"run", "running", "poll", "polled", "recheck", "idle", "again",
                     "count", "leaving", "ended"}

LEMMA LateNext ==
  ASSUME TypeOK, ModeStays, LateMatches, [Next]_vars
  PROVE  LateMatches'
<1> USE DEF queueVars, workerVars, callerVars, stopperVars, poolVars, runVars,
            historyVars
<1>a. wpc \in [Workers -> WorkerPCs] /\ late \in [Workers -> Nat]
      /\ hasRunnable \in [Workers -> BOOLEAN] /\ sawNow \in BOOLEAN
  BY DEF TypeOK
<1>b. ASSUME UNCHANGED late, sawNow => sawNow',
             \A v \in Workers : wpc'[v] = wpc[v]
                              \/ wpc[v] \in {"blocked", "wait", "reset", "check"}
      PROVE  LateMatches'
  BY <1>b DEF LateMatches
<1>1. CASE UNCHANGED vars
  BY <1>1, <1>b DEF vars
<1>2. ASSUME NEW r \in Runnables, Caller(r) PROVE LateMatches'
  <2>1. choice[r].best \in Workers
    BY ScanFields DEF TypeOK
  <2>2. UNCHANGED <<late, sawNow>>
    BY <1>2 DEF Caller, ExecuteRefused, ExecuteBegin, ExecuteLook, ExecuteAdd
  <2>3. \A v \in Workers : wpc'[v] = wpc[v] \/ wpc[v] = "blocked"
    BY <1>2, <1>a, <2>1 DEF Caller, ExecuteRefused, ExecuteBegin, ExecuteLook,
       ExecuteAdd, SignalWorker
  <2> QED BY <1>b, <2>2, <2>3
<1>3. ASSUME NEW w \in Workers, Worker(w) \/ WakeSpuriously(w) PROVE LateMatches'
  <2> USE DEF Goes
  <2>a. UNCHANGED sawNow /\ \A v \in Workers \ {w} : wpc'[v] = wpc[v]
    BY <1>3, <1>a DEF Worker, WaitPasses, WaitBlocks, WakeSpuriously,
       ResetOwnEvent, CheckNow, CheckPasses, Poll, PolledOne, PolledNone,
       RecheckNow, RecheckPasses, StealLook, StealPoll, RunBegins, RunReturns,
       BecomeIdle, AgainOrEnd, WorkerCounts, WorkerExits
  <2>1. CASE PolledOne(w)
    <3>1. ~sawNow
      BY <2>1 DEF PolledOne, ModeStays
    <3>2. UNCHANGED late
      BY <2>1, <3>1 DEF PolledOne, Takes
    <3> QED BY <2>a, <3>1, <3>2 DEF LateMatches
  <2>2. CASE StealPoll(w)
    <3>1. late[w] = 0 /\ wpc[w] = "look" /\ wpc'[w] \in {"idle", "run"}
      BY <2>2, <1>a DEF StealPoll, LateMatches
    <3>2. \/ UNCHANGED late
          \/ /\ sawNow /\ wpc'[w] = "run"
             /\ late' = [late EXCEPT ![w] = late[w] + 1]
      BY <2>2, <1>a DEF StealPoll, Takes
    <3> QED BY <2>a, <1>a, <3>1, <3>2 DEF LateMatches
  <2>3. CASE \/ WaitPasses(w) \/ WaitBlocks(w) \/ WakeSpuriously(w)
             \/ ResetOwnEvent(w) \/ CheckNow(w) \/ CheckPasses(w)
    <3>1. UNCHANGED late /\ wpc[w] \in {"blocked", "wait", "reset", "check"}
      BY <2>3 DEF WaitPasses, WaitBlocks, WakeSpuriously, ResetOwnEvent, CheckNow,
         CheckPasses
    <3> QED BY <1>b, <2>a, <3>1
  <2>4. CASE \/ Poll(w) \/ PolledNone(w) \/ RecheckNow(w) \/ RecheckPasses(w)
             \/ StealLook(w) \/ RunBegins(w) \/ RunReturns(w) \/ BecomeIdle(w)
             \/ AgainOrEnd(w) \/ WorkerCounts(w) \/ WorkerExits(w)
    <3>1. UNCHANGED late
      BY <2>4 DEF Poll, PolledNone, RecheckNow, RecheckPasses, StealLook, RunBegins,
         RunReturns, BecomeIdle, AgainOrEnd, WorkerCounts, WorkerExits
    <3>2. late[w] = 0
          \/ wpc'[w] \in {"run", "running", "poll", "polled", "recheck", "idle",
                          "again", "count", "leaving", "ended"}
      BY <2>4, <1>a DEF Poll, PolledNone, RecheckNow, RecheckPasses, StealLook,
         RunBegins, RunReturns, BecomeIdle, AgainOrEnd, WorkerCounts, WorkerExits,
         LateMatches, ModeStays
    <3> QED BY <2>a, <3>1, <3>2 DEF LateMatches
  <2> QED BY <1>3, <2>1, <2>2, <2>3, <2>4 DEF Worker
<1>4. ASSUME NEW s \in Stoppers,
             Stopper(s) \/ StopperBegins(s) \/ WaitReturnsSpuriously(s)
      PROVE  LateMatches'
  <2>1. UNCHANGED late
    BY <1>4 DEF Stopper, StopperBegins, WaitReturnsSpuriously, SetMode, LoopCounts,
       LoopSignals, LoopEnds, WaitReturns, StopperBlocks, WaitTimesOut,
       DeleteThreads, BeginShutdown, BeginShutdownNow, AlreadyShutdownNow, CallBegins
  <2>3. SetMode(s) \/ UNCHANGED sawNow
    BY <1>4 DEF Stopper, StopperBegins, WaitReturnsSpuriously, LoopCounts,
       LoopSignals, LoopEnds, WaitReturns, StopperBlocks, WaitTimesOut,
       DeleteThreads, BeginShutdown, BeginShutdownNow, AlreadyShutdownNow, CallBegins
  <2>4. sawNow => sawNow'
    BY <2>3 DEF SetMode
  <2>2. \A v \in Workers : wpc'[v] = wpc[v] \/ wpc[v] = "blocked"
    BY <1>4, <1>a DEF Stopper, StopperBegins, WaitReturnsSpuriously, SetMode,
       LoopCounts, LoopSignals, LoopEnds, WaitReturns, StopperBlocks, WaitTimesOut,
       DeleteThreads, BeginShutdown, BeginShutdownNow, AlreadyShutdownNow,
       CallBegins, SignalWorker
  <2> QED BY <1>b, <2>1, <2>2, <2>4
<1> QED BY <1>1, <1>2, <1>3, <1>4 DEF Next

\* Once ShutdownNow has set its mode, every worker takes one more of the waiting
\* runnables at most, the one for which it read the mode before, whatever the one
\* thread that shuts the pool down calls later.
THEOREM NowHalts ==
  ASSUME OneStopper PROVE Spec => []NowHaltsWaiting
<1>1. Init => ModeStays /\ LateMatches
  BY DEF Init, ModeStays, LateMatches
<1>2. TypeOK /\ ModeStays /\ LateMatches /\ [Next]_vars
        => ModeStays' /\ LateMatches'
  BY ModeNext, LateNext
<1>3. LateMatches => NowHaltsWaiting
  BY DEF LateMatches, NowHaltsWaiting
<1> QED BY <1>1, <1>2, <1>3, TypeCorrect, PTL DEF Spec
=============================================================================
