------------------------------ MODULE Components ------------------------------
(***************************************************************************)
(* The small components side by side: a thread's future (ThreadRun), a     *)
(* future value and the future of a pool, the interned strings, the weak   *)
(* pointers, a fetch, the device resources, the timers.                    *)
(* They share no state.  Each is an instance over variables of its own, as *)
(* the program uses it where the component has a contract: no text is      *)
(* looked up while its string dies, no two threads ask for the first weak  *)
(* pointer at once.                                                        *)
(***************************************************************************)
EXTENDS ThreadRun

CONSTANTS
  None,          \* the null pointer, and niVarNull
  Threads,       \* who uses values, strings and weak pointers
  Holders,       \* who has the future of the pool, and the resources
  Values,        \* what futures are set to
  MaxValueSets,  \* bound: SetValue and Reset of the future value
  Texts,         \* the texts of strings
  HStrings,      \* the strings there is memory for
  Pointers,      \* the weak pointers there is memory for
  Codes,         \* the status codes
  MaxItems,      \* what the requester's queue holds
  MaxCalls,      \* bound: the callbacks of one transfer
  Resources,     \* the device resources
  Names,         \* their names
  NameOf,        \* the name of each
  Last,          \* the timers are 1..Last
  Handler,       \* whose they are
  Durations,     \* the durations timers are set to
  Frames,        \* the times of frames
  MaxTriggers,   \* the limit of the triggers of a timer in an update
  MaxUpdates,    \* bound: the updates
  MaxTimerSets   \* bound: the calls of SetTimer

ASSUME ComponentsAssumption ==
  /\ None \notin Threads \cup Holders \cup Values \cup HStrings \cup Pointers
                 \cup Resources \cup Names
  /\ {"yes", "no", "none"} \cap (Values \cup {None}) = {}
  /\ MaxValueSets \in Nat
  /\ 0 \in Codes /\ MaxItems \in Nat /\ MaxCalls \in Nat
  /\ NameOf \in [Resources -> Names \cup {None}]
  /\ Last \in Nat \ {0} /\ MaxTriggers \in Nat \ {0}
  /\ MaxUpdates \in Nat /\ MaxTimerSets \in Nat
  /\ Durations \subseteq Nat \ {0} /\ Frames \subseteq Nat \ {0}

VARIABLES
  \* FutureValue
  value, canceled, isSet, mutex, valuePc, valueSets, current, had, read,
  \* FutureRunnable
  runnable, ret, ranEvent, worker, holderPc, spoiled, told,
  \* HStringTable
  table, text, strings, stringMemory, stringPc, string, missing, twice,
  \* WeakPointers
  object, objectHolders, header, observed, owners, users, weakMemory, weakPc,
  weak, objectTouched,
  \* Fetch
  method, fetchPc, fetch, code, data, calls, out, good, future, queue, ready,
  status, lines, position, outcome, lost, over, trailed,
  \* DeviceResources
  named, unnamed, resources, resourceHolders, resourcePc, resource, lock, copy,
  latest, resourceTouched,
  \* Timers
  duration, start, timerPc, at, frame, triggers, updates, sets, elapsed, fired, by,
  cut

Shared ==
  INSTANCE FutureValue WITH
    Null <- None, MaxSets <- MaxValueSets, lock <- mutex, pc <- valuePc,
    sets <- valueSets, answer <- read

Pooled ==
  INSTANCE FutureRunnable WITH
    Results <- Values, Null <- None, ran <- ranEvent, pc <- holderPc,
    answer <- told

Strings ==
  INSTANCE HStringTable WITH
    Strings <- HStrings, Careful <- TRUE, holders <- strings,
    memory <- stringMemory, pc <- stringPc, mine <- string

Weak ==
  INSTANCE WeakPointers WITH
    Serial <- TRUE, holders <- objectHolders, memory <- weakMemory,
    pc <- weakPc, touched <- objectTouched

Transfer ==
  INSTANCE Fetch WITH
    pc <- fetchPc, state <- fetch

Devices ==
  INSTANCE DeviceResources WITH
    Threads <- Holders, state <- resources, holders <- resourceHolders,
    pc <- resourcePc, mine <- resource, touched <- resourceTouched

Clock == INSTANCE Timers WITH MaxSets <- MaxTimerSets, pc <- timerPc

\* All of them at once.
ComponentsSpec ==
  /\ Spec /\ Shared!Spec /\ Pooled!Spec /\ Strings!Spec /\ Weak!Spec
  /\ Transfer!Spec /\ Devices!Spec /\ Clock!Spec

(***************************************************************************)
(* What they promise.                                                      *)
(***************************************************************************)

\* The type invariants of all the components.
AllTyped ==
  /\ TypeOK /\ Shared!TypeOK /\ Pooled!TypeOK /\ Strings!TypeOK /\ Weak!TypeOK
  /\ Transfer!TypeOK /\ Devices!TypeOK /\ Clock!TypeOK

\* What a future says was so at one moment of the call.
FuturesTellTrue == Shared!ReadsAreAtomic /\ Pooled!TellsWhatRan

\* Threads that hold strings of one text hold the same string.
OneStringPerText == Strings!OneStringPerText

\* A weak pointer is told before the object is freed, and before it is.
WeakIsTold == Weak!WeakIsTold

\* A request is opened once, done once, and silent afterwards.
ImplementsRequest == Transfer!ImplementsRequest

\* Who sees the future's value has been told the outcome, the status and the
\* headers, but for what the queue refused.
DoneMeansTold == Transfer!DoneMeansTold

\* A transfer that began gets its outcome, unless the queue refused it or libcurl
\* never called back.
FetchEnds == Transfer!FetchEnds

\* The manager lists every valid resource and none that was freed.
ListIsTrue == Devices!ListIsTrue

\* Every timer fires once for each of its periods, if not at once at the limit.
OnTime == Clock!OnTime
=============================================================================
