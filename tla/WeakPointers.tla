---------------------------- MODULE WeakPointers ----------------------------
(***************************************************************************)
(* The weak pointers of one counted object (niLang/src/MemoryAllocator.cpp *)
(* and Utils/WeakPtr.h): sWeakPtrImpl, ni_object_get_weak_ptr,             *)
(* ni_object_deref_weak_ptr and ni_object_free.                            *)
(*                                                                         *)
(* The header of the object's memory points to its weak pointer, which the *)
(* first thread that asks for it makes; the header owns one reference to   *)
(* it.  Freeing the memory tells the weak pointer that the object is gone. *)
(* No mutex covers the header.                                             *)
(*                                                                         *)
(* Counts are modelled as the sets of the threads that hold a reference;   *)
(* the references of headers to a weak pointer are counted.                *)
(***************************************************************************)
EXTENDS Naturals

CONSTANTS
  Threads,  \* the threads that have the object or a weak pointer to it
  Pointers, \* the weak pointers there is memory for
  Serial,   \* TRUE: threads do not ask for the first weak pointer at once
  None

VARIABLES
  holders,  \* who holds a reference to the object
  object,   \* "alive", "destroyed" (its destructor ran), "nulled", "freed"
  header,   \* sObjectMemoryHeader::mpWeakPtr
  observed, \* the weak pointers with mpObserved not null
  owners,   \* how many references to each weak pointer were counted for a header
  users,    \* the threads that hold a reference to each weak pointer
  memory,   \* the weak pointers that are allocated
  pc,       \* where each thread is
  weak,     \* the weak pointer each thread has, or is making
  \* history
  touched   \* a reference was counted to an object whose destructor had run

vars == <<holders, object, header, observed, owners, users, memory, pc, weak,
          touched>>

TypeOK ==
  /\ holders \subseteq Threads
  /\ object \in {"alive", "destroyed", "nulled", "freed"}
  /\ header \in Pointers \cup {None}
  /\ observed \subseteq Pointers
  /\ owners \in [Pointers -> Nat]
  /\ users \in [Pointers -> SUBSET Threads]
  /\ memory \subseteq Pointers
  /\ pc \in [Threads -> {"idle", "make", "own", "take", "addref", "free"}]
  /\ weak \in [Threads -> Pointers \cup {None}]
  /\ touched \in BOOLEAN

\* Every thread has a reference to the object.
Init ==
  /\ holders = Threads
  /\ object = "alive"
  /\ header = None
  /\ observed = {}
  /\ owners = [p \in Pointers |-> 0]
  /\ users = [p \in Pointers |-> {}]
  /\ memory = {}
  /\ pc = [t \in Threads |-> "idle"]
  /\ weak = [t \in Threads |-> None]
  /\ touched = FALSE

objectVars == <<holders, object, touched>>
weakVars   == <<header, observed, owners, users, memory>>

Goes(t, from, to) == pc[t] = from /\ pc' = [pc EXCEPT ![t] = to]

(***************************************************************************)
(* ni_object_get_weak_ptr, by a thread that holds the object.              *)
(***************************************************************************)

\* The test of mpWeakPtr, which the header may still lack.
Ask(t) ==
  /\ t \in holders /\ weak[t] = None
  /\ Serial => \A u \in Threads : pc[u] \notin {"make", "own"}
  /\ Goes(t, "idle", IF header = None THEN "make" ELSE "take")
  /\ UNCHANGED <<objectVars, weakVars, weak>>

Make(t, p) ==
  /\ Goes(t, "make", "own")
  /\ p \notin memory
  /\ memory' = memory \cup {p}
  /\ observed' = observed \cup {p}
  /\ header' = p
  /\ UNCHANGED <<objectVars, owners, users, weak>>

\* The header is read again: it may be another thread's weak pointer by now.
Own(t) ==
  /\ Goes(t, "own", "take")
  /\ owners' = [owners EXCEPT ![header] = @ + 1]
  /\ UNCHANGED <<objectVars, header, observed, users, memory, weak>>

\* The caller's WeakPtr counts a reference to what the header has.
Take(t) ==
  /\ Goes(t, "take", "idle")
  /\ weak' = [weak EXCEPT ![t] = header]
  /\ users' = [users EXCEPT ![header] = @ \cup {t}]
  /\ UNCHANGED <<objectVars, header, observed, owners, memory>>

(***************************************************************************)
(* WeakPtr::Deref, and a Ptr made from what it returns.                    *)
(***************************************************************************)

\* Deref looks at the object's count under the weak pointer's mutex.
Deref(t) ==
  /\ weak[t] # None /\ t \notin holders
  /\ IF weak[t] \in observed /\ holders # {}
     THEN Goes(t, "idle", "addref") ELSE Goes(t, "idle", "idle")
  /\ UNCHANGED <<objectVars, weakVars, weak>>

\* Then the object is counted, if it is still there.
AddRef(t) ==
  /\ Goes(t, "addref", "idle")
  /\ touched' = (touched \/ object # "alive")
  /\ holders' = holders \cup {t}
  /\ UNCHANGED <<object, weakVars, weak>>

(***************************************************************************)
(* The references dropped, the object destroyed and freed.                 *)
(***************************************************************************)

Release(t) ==
  /\ t \in holders
  /\ holders' = holders \ {t}
  /\ IF holders = {t} /\ object = "alive"
     THEN Goes(t, "idle", "free") /\ object' = "destroyed"
     ELSE Goes(t, "idle", "idle") /\ UNCHANGED object
  /\ UNCHANGED <<weakVars, weak, touched>>

\* Mutant: the memory is freed before the weak pointer is told.
FreeFirst(t) ==
  /\ pc[t] = "free" /\ object = "destroyed"
  /\ object' = "nulled"
  /\ UNCHANGED <<holders, touched, header, observed, owners, users, memory, pc,
                 weak>>

\* ni_object_free: SetObservedNull takes the weak pointer's mutex.
SetObservedNull(t) ==
  /\ pc[t] = "free" /\ object = "destroyed"
  /\ observed' = observed \ {header}
  /\ object' = "nulled"
  /\ UNCHANGED <<holders, touched, header, owners, users, memory, pc, weak>>

\* The header's reference is dropped and the memory freed.
Free(t) ==
  /\ object = "nulled"
  /\ Goes(t, "free", "idle")
  /\ object' = "freed"
  /\ IF header = None THEN UNCHANGED <<owners, memory>>
     ELSE /\ owners' = [owners EXCEPT ![header] = @ - 1]
          /\ memory' = IF owners[header] = 1 /\ users[header] = {}
                       THEN memory \ {header} ELSE memory
  /\ UNCHANGED <<holders, touched, header, observed, users, weak>>

\* A WeakPtr ends; the last reference frees the weak pointer.
Drop(t) ==
  /\ pc[t] = "idle" /\ weak[t] # None
  /\ LET p == weak[t] IN
       /\ users' = [users EXCEPT ![p] = @ \ {t}]
       /\ memory' = IF owners[p] = 0 /\ users[p] = {t}
                    THEN memory \ {p} ELSE memory
  /\ weak' = [weak EXCEPT ![t] = None]
  /\ UNCHANGED <<objectVars, header, observed, owners, pc>>

Next ==
  \E t \in Threads :
    \/ Ask(t) \/ (\E p \in Pointers : Make(t, p)) \/ Own(t) \/ Take(t)
    \/ Deref(t) \/ AddRef(t) \/ Release(t)
    \/ SetObservedNull(t) \/ Free(t) \/ Drop(t)

Spec == Init /\ [][Next]_vars

(***************************************************************************)
(* What weak pointers promise.                                             *)
(***************************************************************************)

\* Deref reads the count of the object through the weak pointer, so a weak
\* pointer that somebody may use is told before the object's memory is freed; and,
\* the niDebugAssert in ~sWeakPtrImpl, none is freed before it was told.
WeakIsTold ==
  /\ object = "freed" => observed \cap memory = {}
  /\ observed \subseteq memory
=============================================================================
