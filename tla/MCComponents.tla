---------------------------- MODULE MCComponents ----------------------------
(***************************************************************************)
(* Components for TLC: one behaviour moves one of the components, named by *)
(* part, and leaves the others where they begin.                           *)
(***************************************************************************)
EXTENDS Components, TLC

CONSTANTS
  w1, w2, w3,  \* threads
  x1, x2,      \* texts and names
  o1, o2, o3   \* objects

MCNameOf == o1 :> x1 @@ o2 :> x1 @@ o3 :> None
MCHandler == <<1, 2>>

VARIABLE part

valueVars == <<value, canceled, isSet, mutex, valuePc, valueSets, current, had, read>>
futureVars == <<runnable, ret, ranEvent, worker, holderPc, spoiled, told>>
stringVars == <<table, text, strings, stringMemory, stringPc, string, missing, twice>>
weakVars == <<object, objectHolders, header, observed, owners, users, weakMemory,
              weakPc, weak, objectTouched>>
fetchVars == <<method, fetchPc, fetch, code, data, calls, out, good, future, queue,
               ready, status, lines, position, outcome, lost, over, trailed>>
deviceVars == <<named, unnamed, resources, resourceHolders, resourcePc, resource,
                lock, copy, latest, resourceTouched>>
timerVars == <<duration, start, timerPc, at, frame, triggers, updates, sets,
               elapsed, fired, by, cut>>
allVars == <<part, vars, valueVars, futureVars, stringVars, weakVars, fetchVars,
             deviceVars, timerVars>>

Parts == {"run", "value", "future", "strings", "weak", "fetch", "devices", "timers"}

MCInit ==
  /\ part \in Parts
  /\ Init /\ Shared!Init /\ Pooled!Init /\ Strings!Init /\ Weak!Init
  /\ Transfer!Init /\ Devices!Init /\ Clock!Init
  /\ method = "post" => part = "fetch"

MCNext ==
  \/ /\ part = "run" /\ Next
     /\ UNCHANGED <<part, valueVars, futureVars, stringVars, weakVars,
                    fetchVars, deviceVars, timerVars>>
  \/ /\ part = "value" /\ Shared!Next
     /\ UNCHANGED <<part, vars, futureVars, stringVars, weakVars,
                    fetchVars, deviceVars, timerVars>>
  \/ /\ part = "future" /\ Pooled!Next
     /\ UNCHANGED <<part, vars, valueVars, stringVars, weakVars,
                    fetchVars, deviceVars, timerVars>>
  \/ /\ part = "strings" /\ Strings!Next
     /\ UNCHANGED <<part, vars, valueVars, futureVars, weakVars,
                    fetchVars, deviceVars, timerVars>>
  \/ /\ part = "weak" /\ Weak!Next
     /\ UNCHANGED <<part, vars, valueVars, futureVars, stringVars,
                    fetchVars, deviceVars, timerVars>>
  \/ /\ part = "fetch" /\ Transfer!Next
     /\ UNCHANGED <<part, vars, valueVars, futureVars, stringVars,
                    weakVars, deviceVars, timerVars>>
  \/ /\ part = "devices" /\ Devices!Next
     /\ UNCHANGED <<part, vars, valueVars, futureVars, stringVars,
                    weakVars, fetchVars, timerVars>>
  \/ /\ part = "timers" /\ Clock!Next
     /\ UNCHANGED <<part, vars, valueVars, futureVars, stringVars,
                    weakVars, fetchVars, deviceVars>>

\* The fairness of ThreadRun, the pool's workers and Fetch, for the part that moves.
MCFairness ==
  /\ WF_vars(part = "run" /\ NativeThread)
  /\ \A w \in Waiters : /\ WF_vars(part = "run" /\ InCall(w))
                        /\ WF_vars(part = "run" /\ timed[w] /\ TimesOut(w))
  /\ WF_futureVars(part = "future" /\ Pooled!Worker)
  /\ \A h \in Holders : WF_futureVars(part = "future" /\ Pooled!Wakes(h))
  /\ WF_fetchVars(part = "fetch" /\ Transfer!Worker)
  /\ WF_fetchVars(part = "fetch" /\ Transfer!Dispatch)

MCSpec == MCInit /\ [][MCNext]_allVars /\ MCFairness

\* Every call of Wait returns, on a pool's future unless it was thrown away.
AllWaitsReturn == ((part = "run") => WaitReturns) /\ Pooled!WaitEnds
=============================================================================
