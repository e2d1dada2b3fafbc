--------------------------- MODULE DeviceResources ---------------------------
(***************************************************************************)
(* The device resource manager (niLang/src/DeviceResourceManager.cpp) and  *)
(* the way resources use it (sGL2Texture and the shaders and buffers of    *)
(* niUI/src/GDRV_GLES2.cpp): a resource registers in its constructor and   *)
(* unregisters in Invalidate, which its destructor calls; the manager      *)
(* counts no reference and Clear invalidates whatever is still listed.     *)
(*                                                                         *)
(* The manager's mutex is recursive: what Clear invalidates unregisters    *)
(* itself meanwhile, other threads wait.  Invalidate tests whether it has  *)
(* to unregister before it waits for the mutex; tested, unregistered and   *)
(* freed are three steps of a destructor.                                  *)
(***************************************************************************)
CONSTANTS
  Threads,
  Resources,
  Names,
  NameOf,   \* the name of each resource, or None
  None

VARIABLES
  named,    \* mmapResources: the resource of each name, or None
  unnamed,  \* mlstResources
  state,    \* of each resource: "no", "valid", "invalid", "freed"
  holders,  \* who holds a reference to each resource
  pc,       \* where each thread is
  mine,     \* the resource each thread invalidates or destroys
  lock,     \* the thread that clears with the manager's mutex, or None
  copy,     \* what Clear has still to invalidate
  \* history
  latest,   \* the last resource registered with each name
  touched   \* Clear invalidated a resource that was freed

vars == <<named, unnamed, state, holders, pc, mine, lock, copy, latest, touched>>

TypeOK ==
  /\ named \in [Names -> Resources \cup {None}]
  /\ unnamed \subseteq Resources
  /\ state \in [Resources -> {"no", "valid", "invalid", "freed"}]
  /\ holders \in [Resources -> SUBSET Threads]
  /\ pc \in [Threads -> {"idle", "clear", "invalidate", "destroy", "unregister",
                       "free"}]
  /\ mine \in [Threads -> Resources \cup {None}]
  /\ lock \in Threads \cup {None}
  /\ copy \subseteq Resources
  /\ latest \in [Names -> Resources \cup {None}]
  /\ touched \in BOOLEAN

Init ==
  /\ named = [n \in Names |-> None]
  /\ unnamed = {}
  /\ state = [r \in Resources |-> "no"]
  /\ holders = [r \in Resources |-> {}]
  /\ pc = [t \in Threads |-> "idle"]
  /\ mine = [t \in Threads |-> None]
  /\ lock = None
  /\ copy = {}
  /\ latest = [n \in Names |-> None]
  /\ touched = FALSE

Listed == unnamed \cup ({named[n] : n \in Names} \ {None})
Goes(t, from, to) == pc[t] = from /\ pc' = [pc EXCEPT ![t] = to]

(***************************************************************************)
(* Register and Unregister.                                                *)
(***************************************************************************)

\* A name that is taken is overridden.
Register(r) ==
  IF NameOf[r] = None
  THEN /\ unnamed' = unnamed \cup {r}
       /\ UNCHANGED <<named, latest>>
  ELSE /\ named' = [named EXCEPT ![NameOf[r]] = r]
       /\ latest' = [latest EXCEPT ![NameOf[r]] = r]
       /\ UNCHANGED unnamed

\* Mutant: the entry of the name goes, whose ever it is.
UnregisterName(r) ==
  IF NameOf[r] = None
  THEN unnamed' = unnamed \ {r} /\ UNCHANGED named
  ELSE named' = [named EXCEPT ![NameOf[r]] = None] /\ UNCHANGED unnamed

\* Refused to a resource whose name was overridden; one that is invalid has no name.
Unregister(r) ==
  IF NameOf[r] = None \/ state[r] = "invalid"
  THEN unnamed' = unnamed \ {r} /\ UNCHANGED named
  ELSE /\ named' = [n \in Names |-> IF named[n] = r THEN None ELSE named[n]]
       /\ UNCHANGED unnamed

(***************************************************************************)
(* Resources: made, shared, invalidated, destroyed.                        *)
(***************************************************************************)

New(t, r) ==
  /\ Goes(t, "idle", "idle") /\ lock = None
  /\ state[r] = "no"
  /\ state' = [state EXCEPT ![r] = "valid"]
  /\ holders' = [holders EXCEPT ![r] = {t}]
  /\ Register(r)
  /\ UNCHANGED <<mine, lock, copy, touched>>

Share(t, r) ==
  /\ Goes(t, "idle", "idle")
  /\ holders[r] # {}
  /\ holders' = [holders EXCEPT ![r] = @ \cup {t}]
  /\ UNCHANGED <<named, unnamed, state, mine, lock, copy, latest, touched>>

\* Invalidate unregisters if it finds that it has a driver.
Invalidate(t, r) ==
  /\ Goes(t, "idle", "invalidate")
  /\ t \in holders[r] /\ state[r] = "valid"
  /\ mine' = [mine EXCEPT ![t] = r]
  /\ UNCHANGED <<named, unnamed, state, holders, lock, copy, latest, touched>>

Release(t, r) ==
  /\ t \in holders[r]
  /\ holders' = [holders EXCEPT ![r] = @ \ {t}]
  /\ IF holders[r] = {t}
     THEN Goes(t, "idle", "destroy") /\ mine' = [mine EXCEPT ![t] = r]
     ELSE Goes(t, "idle", "idle") /\ UNCHANGED mine
  /\ UNCHANGED <<named, unnamed, state, lock, copy, latest, touched>>

\* The destructor's Invalidate finds the same out.
Destroy(t) ==
  /\ pc[t] = "destroy"
  /\ IF state[mine[t]] = "valid"
     THEN Goes(t, "destroy", "unregister") ELSE Goes(t, "destroy", "free")
  /\ UNCHANGED <<named, unnamed, state, holders, mine, lock, copy, latest, touched>>

\* Once it has the mutex: then it has no name and no driver any more.  A Clear may
\* have come first.
InvalidateEnds(t) ==
  /\ \/ Goes(t, "invalidate", "idle") /\ mine' = [mine EXCEPT ![t] = None]
     \/ Goes(t, "unregister", "free") /\ UNCHANGED mine
  /\ lock = None
  /\ Unregister(mine[t])
  /\ state' = [state EXCEPT ![mine[t]] = "invalid"]
  /\ UNCHANGED <<holders, lock, copy, latest, touched>>

Free(t) ==
  /\ Goes(t, "free", "idle")
  /\ state' = [state EXCEPT ![mine[t]] = "freed"]
  /\ mine' = [mine EXCEPT ![t] = None]
  /\ UNCHANGED <<named, unnamed, holders, lock, copy, latest, touched>>

(***************************************************************************)
(* Clear.                                                                  *)
(***************************************************************************)

Clear(t) ==
  /\ Goes(t, "idle", "clear") /\ lock = None
  /\ lock' = t
  /\ copy' = Listed
  /\ UNCHANGED <<named, unnamed, state, holders, mine, latest, touched>>

ClearOne(t, r) ==
  /\ Goes(t, "clear", "clear")
  /\ r \in copy
  /\ copy' = copy \ {r}
  /\ touched' = (touched \/ state[r] = "freed")
  /\ IF state[r] = "valid" THEN Unregister(r) ELSE UNCHANGED <<named, unnamed>>
  /\ state' = [state EXCEPT ![r] = IF @ = "valid" THEN "invalid" ELSE @]
  /\ UNCHANGED <<holders, mine, lock, latest>>

ClearEnds(t) ==
  /\ Goes(t, "clear", "idle")
  /\ copy = {}
  /\ lock' = None
  /\ named' = [n \in Names |-> None]
  /\ unnamed' = {}
  /\ UNCHANGED <<state, holders, mine, copy, latest, touched>>

Next ==
  \E t \in Threads :
    \/ Destroy(t) \/ InvalidateEnds(t) \/ Free(t) \/ Clear(t) \/ ClearEnds(t)
    \/ \E r \in Resources :
         New(t, r) \/ Share(t, r) \/ Invalidate(t, r) \/ Release(t, r)
         \/ ClearOne(t, r)

Spec == Init /\ [][Next]_vars

(***************************************************************************)
(* What the manager keeps.                                                 *)
(***************************************************************************)

\* The manager's uncounted pointers never outlive what they point to, Clear
\* reaches only resources that are not freed, and every valid resource is listed,
\* unless a later one has its name.
ListIsTrue ==
  /\ \A r \in Listed : state[r] \in {"valid", "invalid"}
  /\ ~touched
  /\ \A r \in Resources :
       (state[r] = "valid" /\ (NameOf[r] # None => latest[NameOf[r]] = r))
         => r \in Listed
=============================================================================
