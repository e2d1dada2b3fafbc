-------------------------------- MODULE Timers --------------------------------
(***************************************************************************)
(* The timers of a TimerManager (Utils/TimerManager.h), as the UI context  *)
(* has them: UpdateTimers walks the map of the timers once a frame, adds   *)
(* the frame's time to each and triggers those that have expired.  The     *)
(* handler that is triggered may set and invalidate timers while the walk  *)
(* goes on; nothing is erased from under it but by ClearTimers.            *)
(*                                                                         *)
(* One thread runs all of it.  Times are whole numbers of some unit; a     *)
(* duration of 0 or less means that the timer is to be removed.            *)
(***************************************************************************)
EXTENDS Integers

CONSTANTS
  Last,        \* the timers are 1..Last, in the order of the map
  Handler,     \* the message handler of each timer
  Durations,   \* the durations timers are set to
  Frames,      \* the times an update may be called with
  MaxTriggers, \* 100: an update triggers each timer less often than that
  MaxUpdates,  \* bound: the updates
  MaxSets      \* bound: the calls of SetTimer

Timers == 1..Last

\* The duration of a timer that is not in the map, and of one to be removed.
Absent == -2
Removed == -1

VARIABLES
  duration,  \* mfDuration, or Absent
  start,     \* mfStart
  pc,        \* where UpdateTimers is: "idle" (not running), "visit" a timer,
             \* "while" it is expired, in a "handler", or the last "sweep"
  at,        \* the timer it is at
  frame,     \* its afFrameTime
  triggers,  \* its triggerCount for that timer, 0 outside of the loop
  updates,
  sets,
  \* history
  elapsed,   \* the frames begun since the timer was set, their time
  fired,     \* how often it was triggered since
  by,        \* the timer whose handler set it, or 0
  cut        \* the last update to pass it stopped at the limit

vars == <<duration, start, pc, at, frame, triggers, updates, sets, elapsed, fired,
          by, cut>>

Live(t) == duration[t] > 0

TypeOK ==
  /\ duration \in [Timers -> Durations \cup {Absent, Removed}]
  /\ start \in [Timers -> Int]
  /\ pc \in {"idle", "visit", "while", "handler", "sweep"}
  /\ at \in Timers
  /\ frame \in Frames \cup {0}
  /\ updates \in 0..MaxUpdates
  /\ sets \in 0..MaxSets
  /\ elapsed \in [Timers -> Nat]
  /\ fired \in [Timers -> Nat]
  /\ by \in [Timers -> 0..Last]
  /\ triggers \in 0..MaxTriggers
  /\ cut \in [Timers -> BOOLEAN]

Init ==
  /\ duration = [t \in Timers |-> Absent]
  /\ start = [t \in Timers |-> 0]
  /\ pc = "idle" /\ at = 1
  /\ frame = 0
  /\ updates = 0 /\ sets = 0
  /\ elapsed = [t \in Timers |-> 0]
  /\ fired = [t \in Timers |-> 0]
  /\ by = [t \in Timers |-> 0]
  /\ triggers = 0
  /\ cut = [t \in Timers |-> FALSE]

(***************************************************************************)
(* What the program does between updates and a handler while it runs.  The *)
(* walk keeps an iterator to the handler's timer: a handler that clears    *)
(* the timers sets none after that.                                        *)
(***************************************************************************)

MayChange == \/ pc = "idle"
             \/ pc = "handler" /\ duration[at] # Absent

SetTimer(t, d) ==
  /\ MayChange
  /\ sets < MaxSets
  /\ duration[t] = Absent => d > 0
  /\ sets' = sets + 1
  /\ duration' = [duration EXCEPT ![t] = d]
  /\ start' = [start EXCEPT ![t] = 0]
  /\ elapsed' = [elapsed EXCEPT ![t] = 0]
  /\ fired' = [fired EXCEPT ![t] = 0]
  /\ by' = [by EXCEPT ![t] = IF pc = "idle" THEN 0 ELSE at]
  /\ cut' = [cut EXCEPT ![t] = FALSE]
  /\ UNCHANGED <<pc, at, frame, triggers, updates>>

\* The timers of the handler h are marked; an update removes them.
InvalidateHandlerTimers(h) ==
  /\ MayChange
  /\ duration' = [t \in Timers |-> IF Handler[t] = h /\ duration[t] # Absent
                                   THEN Removed ELSE duration[t]]
  /\ UNCHANGED <<start, pc, at, frame, triggers, updates, sets, elapsed, fired, by,
                 cut>>

ClearTimers ==
  /\ MayChange
  /\ duration' = [t \in Timers |-> Absent]
  /\ UNCHANGED <<start, pc, at, frame, triggers, updates, sets, elapsed, fired, by,
                 cut>>

(***************************************************************************)
(* UpdateTimers.                                                           *)
(***************************************************************************)

UpdateTimers(f) ==
  /\ pc = "idle" /\ updates < MaxUpdates
  /\ pc' = "visit" /\ at' = 1
  /\ updates' = updates + 1
  /\ frame' = f
  /\ elapsed' = [t \in Timers |-> IF Live(t) THEN elapsed[t] + f ELSE elapsed[t]]
  /\ UNCHANGED <<duration, start, triggers, sets, fired, by, cut>>

\* ++it: the walk goes on to the next timer, or is over.
Advance ==
  /\ pc' = IF at < Last THEN "visit" ELSE "sweep"
  /\ at' = IF at < Last THEN at + 1 ELSE at
  /\ triggers' = 0

\* A timer to be removed is removed, one that is not in the map passed over.
Remove ==
  /\ pc = "visit" /\ ~Live(at)
  /\ duration' = [duration EXCEPT ![at] = Absent]
  /\ Advance
  /\ UNCHANGED <<start, frame, updates, sets, elapsed, fired, by, cut>>

Count ==
  /\ pc = "visit" /\ Live(at)
  /\ start' = [start EXCEPT ![at] = @ + frame]
  /\ cut' = [cut EXCEPT ![at] = FALSE]
  /\ pc' = "while"
  /\ UNCHANGED <<duration, at, frame, triggers, updates, sets, elapsed, fired, by>>

Expired == pc = "while" /\ start[at] >= duration[at]

Trigger ==
  /\ Expired /\ triggers + 1 < MaxTriggers
  /\ triggers' = triggers + 1
  /\ fired' = [fired EXCEPT ![at] = @ + 1]
  /\ pc' = "handler"
  /\ UNCHANGED <<duration, start, at, frame, updates, sets, elapsed, by, cut>>

\* The limit, where the code has an assertion too: the periods that are left wait for the next update.
TooOften ==
  /\ Expired /\ triggers + 1 >= MaxTriggers
  /\ cut' = [cut EXCEPT ![at] = TRUE]
  /\ Advance
  /\ UNCHANGED <<duration, start, frame, updates, sets, elapsed, fired, by>>

NotExpired ==
  /\ pc = "while" /\ start[at] < duration[at]
  /\ Advance
  /\ UNCHANGED <<duration, start, frame, updates, sets, elapsed, fired, by, cut>>

\* Mutant: what is left of the frame is thrown away.
HandlerReturnsAnew ==
  /\ pc = "handler" /\ Live(at)
  /\ start' = [start EXCEPT ![at] = 0]
  /\ pc' = "while"
  /\ UNCHANGED <<duration, at, frame, triggers, updates, sets, elapsed, fired, by,
                 cut>>

\* The period taken off is the one that the handler left.
HandlerReturns ==
  /\ pc = "handler" /\ Live(at)
  /\ start' = [start EXCEPT ![at] = @ - duration[at]]
  /\ pc' = "while"
  /\ UNCHANGED <<duration, at, frame, triggers, updates, sets, elapsed, fired, by,
                 cut>>

\* The handler removed its timer, or cleared the map, which ends the walk.
HandlerRemoved ==
  /\ pc = "handler" /\ ~Live(at)
  /\ IF \A t \in Timers : duration[t] = Absent
     THEN pc' = "sweep" /\ triggers' = 0 /\ UNCHANGED at ELSE Advance
  /\ UNCHANGED <<duration, start, frame, updates, sets, elapsed, fired, by, cut>>

Sweep ==
  /\ pc = "sweep"
  /\ duration' = [t \in Timers |-> IF Live(t) THEN duration[t] ELSE Absent]
  /\ pc' = "idle"
  /\ UNCHANGED <<start, at, frame, triggers, updates, sets, elapsed, fired, by, cut>>

Next ==
  \/ \E t \in Timers, d \in Durations \cup {Removed} : SetTimer(t, d)
  \/ \E t \in Timers : InvalidateHandlerTimers(Handler[t])
  \/ ClearTimers
  \/ \E f \in Frames : UpdateTimers(f)
  \/ Remove \/ Count \/ Trigger \/ TooOften \/ NotExpired
  \/ HandlerReturns \/ HandlerRemoved \/ Sweep

Spec == Init /\ [][Next]_vars

(***************************************************************************)
(* What timers promise.                                                    *)
(***************************************************************************)

\* Between updates every timer has been triggered once for each of its periods
\* that has passed: none is lost and none added, however frames and periods fall,
\* and whatever an update left at the limit is made up for by the next ones.
\* A timer that a handler set may come up to one frame early, as the walk still
\* has to pass it; one that its own handler set comes one period late, as the
\* period is taken off once more when the handler returns.
OnTime ==
  pc = "idle" =>
    \A t \in Timers : Live(t) =>
      /\ \/ fired[t] * duration[t] <= elapsed[t]
         \/ by[t] # 0 /\ \E f \in Frames :
                            fired[t] * duration[t] <= elapsed[t] + f
      /\ \/ cut[t]
         \/ elapsed[t] < (fired[t] + (IF by[t] = t THEN 2 ELSE 1)) * duration[t]
===============================================================================
