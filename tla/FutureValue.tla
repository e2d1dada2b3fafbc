----------------------------- MODULE FutureValue -----------------------------
(***************************************************************************)
(* A future value, sFutureValue of niLang/src/Concurrent.cpp: a value, its *)
(* mutex, and a manual-reset event that says that the value is set.        *)
(*                                                                         *)
(* Any thread may set, reset, read and wait.  SetValue and Reset change    *)
(* value and event one after the other under the mutex; GetValue looks at  *)
(* the event first, without the mutex, and Wait at nothing else.           *)
(***************************************************************************)
EXTENDS Naturals

CONSTANTS
  Threads,
  Values,    \* what the future is set to
  Null,      \* niVarNull
  MaxSets    \* bound: the calls of SetValue and Reset

VARIABLES
  value,     \* mValue
  canceled,  \* mCanceled
  isSet,     \* meventSet
  lock,      \* the thread that has the mutex, or Null
  pc,        \* where each thread is
  sets,
  \* history
  current,   \* the value after the last complete SetValue or Reset
  had,       \* the values the future had since each thread's call began
  answer     \* what each thread's last call returned, Null for false

vars == <<value, canceled, isSet, lock, pc, sets, current, had, answer>>

TypeOK ==
  /\ value \in Values \cup {Null}
  /\ canceled \in BOOLEAN
  /\ isSet \in BOOLEAN
  /\ lock \in Threads \cup {Null}
  /\ pc \in [Threads -> {"out", "signal", "unset", "take", "blocked", "woken"}]
  /\ sets \in 0..MaxSets
  /\ current \in Values \cup {Null}
  /\ had \in [Threads -> SUBSET (Values \cup {Null})]
  /\ answer \in [Threads -> Values \cup {Null, "yes"}]

Init ==
  /\ value = Null /\ canceled = FALSE /\ isSet = FALSE
  /\ lock = Null
  /\ pc = [t \in Threads |-> "out"]
  /\ sets = 0
  /\ current = Null
  /\ had = [t \in Threads |-> {Null}]
  /\ answer = [t \in Threads |-> Null]

Goes(t, from, to) == pc[t] = from /\ pc' = [pc EXCEPT ![t] = to]

\* The future has value v now, and so it has for the calls under way.
Becomes(v) ==
  /\ current' = v
  /\ had' = [t \in Threads |-> IF pc[t] = "out" THEN had[t] ELSE had[t] \cup {v}]

\* A call of t begins, or ends with an answer.
Begins(t) == had' = [had EXCEPT ![t] = {current}] /\ UNCHANGED current
Answers(t, v) == answer' = [answer EXCEPT ![t] = v]

(***************************************************************************)
(* SetValue and Reset.                                                     *)
(***************************************************************************)

SetValue(t, v) ==
  /\ Goes(t, "out", "signal")
  /\ sets < MaxSets /\ sets' = sets + 1
  /\ lock = Null /\ lock' = t
  /\ value' = v
  /\ UNCHANGED <<canceled, isSet, current, had, answer>>

\* The event wakes whoever waits, whatever is done to it afterwards.
Signal(t) ==
  /\ pc[t] = "signal"
  /\ pc' = [s \in Threads |-> CASE s = t              -> "out"
                                [] pc[s] = "blocked" -> "woken"
                                [] OTHER             -> pc[s]]
  /\ isSet' = TRUE
  /\ lock' = Null
  /\ Becomes(value)
  /\ UNCHANGED <<value, canceled, sets, answer>>

\* Mutant: without the mutex.
ResetUnlocked(t) ==
  /\ Goes(t, "out", "unset")
  /\ sets < MaxSets /\ sets' = sets + 1
  /\ value' = Null
  /\ canceled' = FALSE
  /\ UNCHANGED <<isSet, lock, current, had, answer>>

Reset(t) ==
  /\ Goes(t, "out", "unset")
  /\ sets < MaxSets /\ sets' = sets + 1
  /\ lock = Null /\ lock' = t
  /\ value' = Null
  /\ canceled' = FALSE
  /\ UNCHANGED <<isSet, current, had, answer>>

ResetEvent(t) ==
  /\ Goes(t, "unset", "out")
  /\ isSet' = FALSE
  /\ lock' = Null
  /\ Becomes(Null)
  /\ UNCHANGED <<value, canceled, sets, answer>>

Cancel(t) ==
  /\ Goes(t, "out", "out")
  /\ canceled' = TRUE
  /\ UNCHANGED <<value, isSet, lock, sets, current, had, answer>>

(***************************************************************************)
(* GetValue and Wait.                                                      *)
(***************************************************************************)

GetValue(t) ==
  /\ pc[t] = "out"
  /\ Begins(t)
  /\ IF isSet
     THEN pc' = [pc EXCEPT ![t] = "take"] /\ UNCHANGED answer
     ELSE Answers(t, Null) /\ UNCHANGED pc
  /\ UNCHANGED <<value, canceled, isSet, lock, sets>>

TakeValue(t) ==
  /\ Goes(t, "take", "out")
  /\ lock = Null
  /\ Answers(t, value)
  /\ UNCHANGED <<value, canceled, isSet, lock, sets, current, had>>

Wait(t) ==
  /\ Goes(t, "out", IF isSet THEN "woken" ELSE "blocked")
  /\ Begins(t)
  /\ UNCHANGED <<value, canceled, isSet, lock, sets, answer>>

Wakes(t) ==
  /\ Goes(t, "woken", "out")
  /\ Answers(t, "yes")
  /\ UNCHANGED <<value, canceled, isSet, lock, sets, current, had>>

\* The timeout.  A wait that ends without a signal and returns true is left out.
GivesUp(t) ==
  /\ Goes(t, "blocked", "out")
  /\ Answers(t, Null)
  /\ UNCHANGED <<value, canceled, isSet, lock, sets, current, had>>

Next ==
  \E t \in Threads :
    \/ (\E v \in Values : SetValue(t, v)) \/ Signal(t)
    \/ Reset(t) \/ ResetEvent(t) \/ Cancel(t)
    \/ GetValue(t) \/ TakeValue(t) \/ Wait(t) \/ Wakes(t) \/ GivesUp(t)

Spec == Init /\ [][Next]_vars

(***************************************************************************)
(* What a future value promises.                                           *)
(***************************************************************************)

\* GetValue returns what the future was at one moment of the call, although it
\* asks for the event before it takes the mutex; and Wait returns true only if the
\* future was set at one moment of the call.
ReadsAreAtomic ==
  \A t \in Threads :
    pc[t] = "out" => IF answer[t] = "yes" THEN had[t] \cap Values # {}
                                          ELSE answer[t] \in had[t]
=============================================================================
