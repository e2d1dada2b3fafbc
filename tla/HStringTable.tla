---------------------------- MODULE HStringTable ----------------------------
(***************************************************************************)
(* The table of interned strings (niLang/src/HStringTable.cpp) and the     *)
(* reference counts of the strings in it (ImplRC, Utils/UnknownImpl.h).    *)
(*                                                                         *)
(* The table keeps a pointer to each string and counts no reference for    *)
(* it: a string leaves the table when its last holder releases it, in its  *)
(* destructor.  The release that brings the count to 0 and the destructor, *)
(* which has to wait for the table's mutex, are two steps, and a lookup    *)
(* may come between them.                                                  *)
(*                                                                         *)
(* A count is modelled as the set of threads that hold a reference.        *)
(***************************************************************************)
CONSTANTS
  Threads,  \* the threads that look strings up
  Texts,    \* the texts they look up
  Strings,  \* the cHString objects there is memory for
  Careful,  \* TRUE: a text is not looked up while its string dies
  None

VARIABLES
  table,    \* mapHStrings: the string of each text, or None
  text,     \* cHString::maszChars
  holders,  \* who holds a reference: the count of each string
  memory,   \* the strings that are allocated
  pc,       \* where each thread is
  mine,     \* the string each thread holds or destroys
  \* history
  missing,  \* a destructor did not find its text in the table
  twice     \* a string was freed that was not allocated

vars == <<table, text, holders, memory, pc, mine, missing, twice>>

TypeOK ==
  /\ table \in [Texts -> Strings \cup {None}]
  /\ text \in [Strings -> Texts \cup {None}]
  /\ holders \in [Strings -> SUBSET Threads]
  /\ memory \subseteq Strings
  /\ pc \in [Threads -> {"idle", "holds", "unregister", "free"}]
  /\ mine \in [Threads -> Strings \cup {None}]
  /\ missing \in BOOLEAN
  /\ twice \in BOOLEAN

Init ==
  /\ table = [x \in Texts |-> None]
  /\ text = [s \in Strings |-> None]
  /\ holders = [s \in Strings |-> {}]
  /\ memory = {}
  /\ pc = [t \in Threads |-> "idle"]
  /\ mine = [t \in Threads |-> None]
  /\ missing = FALSE
  /\ twice = FALSE

\* String s is on its way through its destructor.
Dying(s) == \E t \in Threads : mine[t] = s /\ pc[t] \in {"unregister", "free"}

Get(t, s) ==
  /\ pc' = [pc EXCEPT ![t] = "holds"]
  /\ mine' = [mine EXCEPT ![t] = s]

(***************************************************************************)
(* CreateHString: the table's mutex is held for the whole of it.           *)
(***************************************************************************)

\* The text is new: its string s is made and put in the table.
Create(t, x, s) ==
  /\ pc[t] = "idle" /\ table[x] = None
  /\ s \notin memory
  /\ memory' = memory \cup {s}
  /\ text' = [text EXCEPT ![s] = x]
  /\ table' = [table EXCEPT ![x] = s]
  /\ holders' = [holders EXCEPT ![s] = {t}]
  /\ Get(t, s)
  /\ UNCHANGED <<missing, twice>>

\* Mutant: the caller gets the string without a reference of its own.
FindUncounted(t, x) ==
  /\ pc[t] = "idle" /\ table[x] # None
  /\ Careful => ~Dying(table[x])
  /\ Get(t, table[x])
  /\ UNCHANGED <<table, text, holders, memory, missing, twice>>

\* The text is there: its string gets one more reference, whatever its count.
Find(t, x) ==
  /\ pc[t] = "idle" /\ table[x] # None
  /\ Careful => ~Dying(table[x])
  /\ holders' = [holders EXCEPT ![table[x]] = @ \cup {t}]
  /\ Get(t, table[x])
  /\ UNCHANGED <<table, text, memory, missing, twice>>

(***************************************************************************)
(* Release, and the destructor that the last one runs.                     *)
(***************************************************************************)

Release(t) ==
  /\ pc[t] = "holds"
  /\ LET left == holders[mine[t]] \ {t} IN
       /\ holders' = [holders EXCEPT ![mine[t]] = left]
       /\ pc' = [pc EXCEPT ![t] = IF left = {} THEN "unregister" ELSE "idle"]
       /\ mine' = IF left = {} THEN mine ELSE [mine EXCEPT ![t] = None]
  /\ UNCHANGED <<table, text, memory, missing, twice>>

\* _UnregisterHString erases the entry of the text, whose ever it is.
Unregister(t) ==
  /\ pc[t] = "unregister"
  /\ LET x == text[mine[t]] IN
       /\ missing' = (missing \/ table[x] = None)
       /\ table' = [table EXCEPT ![x] = None]
  /\ pc' = [pc EXCEPT ![t] = "free"]
  /\ UNCHANGED <<text, holders, memory, mine, twice>>

Free(t) ==
  /\ pc[t] = "free"
  /\ twice' = (twice \/ mine[t] \notin memory)
  /\ memory' = memory \ {mine[t]}
  /\ pc' = [pc EXCEPT ![t] = "idle"]
  /\ mine' = [mine EXCEPT ![t] = None]
  /\ UNCHANGED <<table, text, holders, missing>>

Next ==
  \E t \in Threads :
    \/ \E x \in Texts : Find(t, x) \/ \E s \in Strings : Create(t, x, s)
    \/ Release(t) \/ Unregister(t) \/ Free(t)

Spec == Init /\ [][Next]_vars

(***************************************************************************)
(* What the table promises.                                                *)
(***************************************************************************)

\* Strings are compared by their pointers all over the code: two threads that
\* hold strings of one text hold the same string, it is allocated, and the table
\* has it.
OneStringPerText ==
  \A t \in Threads :
    pc[t] = "holds" => /\ mine[t] \in memory
                       /\ table[text[mine[t]]] = mine[t]

\* niPanicAssert in _UnregisterHString: the destructor finds its text.
UnregisterFinds == ~missing

\* A string is freed once.
FreedOnce == ~twice
=============================================================================
