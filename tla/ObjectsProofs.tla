---------------------------- MODULE ObjectsProofs ----------------------------
(***************************************************************************)
(* Proofs about the counted objects of Components: the interned strings,   *)
(* the weak pointers and the device resources, for any threads, texts,     *)
(* names and objects.                                                      *)
(***************************************************************************)
EXTENDS Components, TLAPS

(***************************************************************************)
(* Interned strings.  As long as no text is looked up while its string is  *)
(* on its way through the destructor, strings are unique, every destructor *)
(* finds its text and every string is freed once.                          *)
(***************************************************************************)

LEMMA NoNullString == None \notin HStrings
BY ComponentsAssumption

\* A thread's string is the one it is counted for.
HoldersMatch ==
  \A t \in Threads :
    /\ (stringPc[t] = "idle") <=> (string[t] = None)
    /\ stringPc[t] = "holds" => t \in strings[string[t]]
    /\ \A s \in HStrings :
         t \in strings[s] => stringPc[t] = "holds" /\ string[t] = s

\* The table has allocated strings, each under its own text.
TableMatches ==
  /\ \A s \in stringMemory : text[s] \in Texts
  /\ \A x \in Texts :
       table[x] # None => table[x] \in stringMemory /\ text[table[x]] = x

\* A string that a thread destroys has no holder and no other destructor, and
\* is in the table until it unregisters.
DyingMatch ==
  \A t \in Threads : stringPc[t] \in {"unregister", "free"} =>
    /\ string[t] \in stringMemory
    /\ strings[string[t]] = {}
    /\ (table[text[string[t]]] = string[t]) <=> (stringPc[t] = "unregister")
    /\ \A u \in Threads :
         stringPc[u] \in {"unregister", "free"} /\ string[u] = string[t] => u = t

StringsInv ==
  /\ Strings!TypeOK /\ HoldersMatch /\ TableMatches /\ DyingMatch
  /\ Strings!OneStringPerText /\ Strings!UnregisterFinds /\ Strings!FreedOnce

LEMMA StringsInit == Strings!Init => StringsInv
BY NoNullString
DEF Strings!Init, StringsInv, Strings!TypeOK, HoldersMatch, TableMatches,
       DyingMatch, Strings!OneStringPerText, Strings!UnregisterFinds,
       Strings!FreedOnce

LEMMA CreateKeeps ==
  ASSUME StringsInv, NEW t \in Threads, NEW x \in Texts, NEW s \in HStrings,
         Strings!Create(t, x, s)
  PROVE  StringsInv'
<1> USE NoNullString DEF StringsInv
<1>1. Strings!TypeOK' BY DEF Strings!TypeOK, Strings!Create, Strings!Get
<1>2. /\ strings[s] = {}
      /\ \A u \in Threads : stringPc[u] # "idle" => string[u] # s
  BY DEF Strings!TypeOK, HoldersMatch, DyingMatch, Strings!OneStringPerText,
         Strings!Create
<1>3. \A y \in Texts : table[y] # s
  BY DEF Strings!TypeOK, TableMatches, Strings!Create
<1>4. HoldersMatch'
  BY <1>2 DEF Strings!TypeOK, HoldersMatch, Strings!Create, Strings!Get
<1>5. TableMatches'
  BY <1>3 DEF Strings!TypeOK, TableMatches, Strings!Create, Strings!Get
<1>6. DyingMatch'
  BY <1>2, <1>3 DEF Strings!TypeOK, HoldersMatch, TableMatches, DyingMatch,
                    Strings!Create, Strings!Get
<1>7. Strings!OneStringPerText'
  BY <1>2, <1>3 DEF Strings!TypeOK, TableMatches, Strings!OneStringPerText,
                    Strings!Create, Strings!Get
<1>8. Strings!UnregisterFinds' /\ Strings!FreedOnce'
  BY DEF Strings!UnregisterFinds, Strings!FreedOnce, Strings!Create
<1>9. QED BY <1>1, <1>4, <1>5, <1>6, <1>7, <1>8

LEMMA FindKeeps ==
  ASSUME StringsInv, NEW t \in Threads, NEW x \in Texts, Strings!Find(t, x)
  PROVE  StringsInv'
<1> USE NoNullString DEF StringsInv
<1>1. Strings!TypeOK' BY DEF Strings!TypeOK, Strings!Find, Strings!Get
<1>2. /\ table[x] \in stringMemory /\ table[x] \in HStrings
      /\ text[table[x]] = x
      /\ \A u \in Threads :
           stringPc[u] \in {"unregister", "free"} => string[u] # table[x]
  BY DEF Strings!TypeOK, TableMatches, Strings!Find, Strings!Dying
<1>3. HoldersMatch'
  BY <1>2 DEF Strings!TypeOK, HoldersMatch, Strings!Find, Strings!Get
<1>4. TableMatches' BY DEF TableMatches, Strings!Find
<1>5. DyingMatch'
  BY <1>2 DEF Strings!TypeOK, DyingMatch, Strings!Find, Strings!Get
<1>6. Strings!OneStringPerText'
  BY <1>2 DEF Strings!TypeOK, Strings!OneStringPerText, Strings!Find, Strings!Get
<1>7. Strings!UnregisterFinds' /\ Strings!FreedOnce'
  BY DEF Strings!UnregisterFinds, Strings!FreedOnce, Strings!Find
<1>8. QED BY <1>1, <1>3, <1>4, <1>5, <1>6, <1>7

LEMMA DropStringKeeps ==
  ASSUME StringsInv, NEW t \in Threads, Strings!Release(t)
  PROVE  StringsInv'
<1> USE NoNullString DEF StringsInv
<1>1. /\ string[t] \in HStrings /\ string[t] \in stringMemory
      /\ t \in strings[string[t]]
      /\ table[text[string[t]]] = string[t]
  BY DEF Strings!TypeOK, HoldersMatch, Strings!OneStringPerText, Strings!Release
<1>2. Strings!TypeOK' BY <1>1 DEF Strings!TypeOK, Strings!Release
<1>3. HoldersMatch' BY <1>1 DEF Strings!TypeOK, HoldersMatch, Strings!Release
<1>4. TableMatches' BY DEF TableMatches, Strings!Release
<1>5. \A u \in Threads :
        stringPc[u] \in {"unregister", "free"} => string[u] # string[t]
  BY <1>1 DEF DyingMatch
<1>6. DyingMatch' BY <1>1, <1>5 DEF Strings!TypeOK, DyingMatch, Strings!Release
<1>7. Strings!OneStringPerText'
  BY <1>1 DEF Strings!TypeOK, Strings!OneStringPerText, Strings!Release
<1>8. Strings!UnregisterFinds' /\ Strings!FreedOnce'
  BY DEF Strings!UnregisterFinds, Strings!FreedOnce, Strings!Release
<1>9. QED BY <1>2, <1>3, <1>4, <1>6, <1>7, <1>8

LEMMA UnregisterKeeps ==
  ASSUME StringsInv, NEW t \in Threads, Strings!Unregister(t)
  PROVE  StringsInv'
<1> USE NoNullString DEF StringsInv
<1>1. /\ string[t] \in HStrings /\ string[t] \in stringMemory
      /\ strings[string[t]] = {}
      /\ text[string[t]] \in Texts
      /\ table[text[string[t]]] = string[t]
  BY DEF Strings!TypeOK, HoldersMatch, TableMatches, DyingMatch,
         Strings!Unregister
<1>2. Strings!TypeOK' BY <1>1 DEF Strings!TypeOK, Strings!Unregister
<1>3. HoldersMatch' BY DEF Strings!TypeOK, HoldersMatch, Strings!Unregister
<1>4. TableMatches' BY <1>1 DEF Strings!TypeOK, TableMatches, Strings!Unregister
<1>5. \A u \in Threads : stringPc[u] = "holds" => string[u] # string[t]
  BY <1>1 DEF HoldersMatch
<1>6. DyingMatch'
  BY <1>1 DEF Strings!TypeOK, HoldersMatch, TableMatches, DyingMatch,
              Strings!Unregister
<1>7. Strings!OneStringPerText'
  BY <1>1, <1>5 DEF Strings!TypeOK, TableMatches, Strings!OneStringPerText,
                    Strings!Unregister
<1>8. Strings!UnregisterFinds' /\ Strings!FreedOnce'
  BY <1>1 DEF Strings!UnregisterFinds, Strings!FreedOnce, Strings!Unregister
<1>9. QED BY <1>2, <1>3, <1>4, <1>6, <1>7, <1>8

LEMMA FreeStringKeeps ==
  ASSUME StringsInv, NEW t \in Threads, Strings!Free(t)
  PROVE  StringsInv'
<1> USE NoNullString DEF StringsInv
<1>1. /\ string[t] \in HStrings /\ string[t] \in stringMemory
      /\ strings[string[t]] = {}
      /\ \A x \in Texts : table[x] # string[t]
  BY DEF Strings!TypeOK, HoldersMatch, TableMatches, DyingMatch, Strings!Free
<1>2. Strings!TypeOK' BY <1>1 DEF Strings!TypeOK, Strings!Free
<1>3. HoldersMatch' BY <1>1 DEF Strings!TypeOK, HoldersMatch, Strings!Free
<1>4. TableMatches' BY <1>1 DEF Strings!TypeOK, TableMatches, Strings!Free
<1>5. DyingMatch' BY <1>1 DEF Strings!TypeOK, DyingMatch, Strings!Free
<1>6. Strings!OneStringPerText'
  BY <1>1 DEF Strings!TypeOK, HoldersMatch, Strings!OneStringPerText,
              Strings!Free
<1>7. Strings!UnregisterFinds' /\ Strings!FreedOnce'
  BY <1>1 DEF Strings!UnregisterFinds, Strings!FreedOnce, Strings!Free
<1>8. QED BY <1>2, <1>3, <1>4, <1>5, <1>6, <1>7

LEMMA StringsNext == StringsInv /\ [Strings!Next]_Strings!vars => StringsInv'
<1> SUFFICES ASSUME StringsInv, [Strings!Next]_Strings!vars
             PROVE  StringsInv'
  OBVIOUS
<1>1. CASE UNCHANGED Strings!vars
  BY <1>1 DEF Strings!vars, StringsInv, Strings!TypeOK, HoldersMatch,
              TableMatches, DyingMatch, Strings!OneStringPerText,
              Strings!UnregisterFinds, Strings!FreedOnce
<1>2. CASE Strings!Next
  BY <1>2, CreateKeeps, FindKeeps, DropStringKeeps, UnregisterKeeps,
     FreeStringKeeps
  DEF Strings!Next
<1>3. QED BY <1>1, <1>2

\* Two threads that hold strings of one text hold the same allocated string
\* (CreateHString, the destructor of cHString).
THEOREM StringsAreUnique ==
  Strings!Spec => []OneStringPerText
<1>1. Strings!Init => StringsInv BY StringsInit
<1>2. StringsInv /\ [Strings!Next]_Strings!vars => StringsInv' BY StringsNext
<1>3. StringsInv => OneStringPerText BY DEF StringsInv, OneStringPerText
<1>4. QED BY <1>1, <1>2, <1>3, PTL DEF Strings!Spec

\* The panic of _UnregisterHString does not happen and no string is freed
\* twice.
THEOREM DestructorsAreSafe ==
  Strings!Spec => [](Strings!UnregisterFinds /\ Strings!FreedOnce)
<1>1. Strings!Init => StringsInv BY StringsInit
<1>2. StringsInv /\ [Strings!Next]_Strings!vars => StringsInv' BY StringsNext
<1>3. StringsInv => Strings!UnregisterFinds /\ Strings!FreedOnce
  BY DEF StringsInv
<1>4. QED BY <1>1, <1>2, <1>3, PTL DEF Strings!Spec

(***************************************************************************)
(* Weak pointers.  As long as no two threads ask for the first weak        *)
(* pointer of the object at once, an object has one weak pointer, which is *)
(* told before the object's memory is freed and freed after that.          *)
(***************************************************************************)

LEMMA NoNullPointer == None \notin Pointers
BY ComponentsAssumption

\* Whoever makes the first weak pointer holds the object and is alone with the
\* header: nobody has or takes a weak pointer meanwhile.
MakerAlone ==
  \A t \in Threads : weakPc[t] \in {"make", "own"} =>
    /\ t \in objectHolders /\ object = "alive"
    /\ (weakPc[t] = "make") <=> (header = None)
    /\ \A u \in Threads :
         /\ weak[u] = None
         /\ u # t => weakPc[u] \notin {"make", "own", "take"}

\* Weak pointers come from the header; without one a dead object has no holder.
FromHeader ==
  /\ \A t \in Threads : /\ weak[t] \in {header, None}
                        /\ weakPc[t] \in {"own", "take", "addref"}
                             => header # None
  /\ header = None /\ object # "alive" => objectHolders = {}
  /\ \A p \in observed : p = header

\* The header owns one reference to its weak pointer until the object is freed.
OwnedOnce ==
  /\ header = None => \A p \in Pointers : owners[p] = 0
  /\ header # None /\ object # "freed" =>
       /\ header \in weakMemory
       /\ owners[header] = IF \E t \in Threads : weakPc[t] = "own" THEN 0 ELSE 1

\* SetObservedNull comes before the memory is freed.
NulledFirst == object \in {"nulled", "freed"} => observed = {}

WeakInv ==
  /\ Weak!TypeOK /\ MakerAlone /\ FromHeader /\ OwnedOnce /\ NulledFirst
  /\ Weak!WeakIsTold

LEMMA WeakInit == Weak!Init => WeakInv
<1> SUFFICES ASSUME Weak!Init PROVE WeakInv OBVIOUS
<1> USE NoNullPointer
<1>1. Weak!TypeOK BY DEF Weak!Init, Weak!TypeOK
<1>2. MakerAlone /\ FromHeader BY DEF Weak!Init, MakerAlone, FromHeader
<1>3. OwnedOnce BY DEF Weak!Init, OwnedOnce
<1>4. NulledFirst /\ Weak!WeakIsTold
  BY DEF Weak!Init, NulledFirst, Weak!WeakIsTold
<1>5. QED BY <1>1, <1>2, <1>3, <1>4 DEF WeakInv

LEMMA AskKeeps ==
  ASSUME WeakInv, NEW t \in Threads, Weak!Ask(t)
  PROVE  WeakInv'
<1> USE NoNullPointer
    DEF WeakInv, Weak!Ask, Weak!Goes, Weak!objectVars, Weak!weakVars
<1>1. Weak!TypeOK' BY DEF Weak!TypeOK
<1>2. header = None => object = "alive" /\ \A u \in Threads : weak[u] = None
  BY DEF Weak!TypeOK, FromHeader
<1>3. \A u \in Threads : weakPc[u] \notin {"make", "own"} OBVIOUS
<1>4. MakerAlone' BY <1>2, <1>3 DEF Weak!TypeOK, MakerAlone, FromHeader
<1>5. FromHeader' BY DEF Weak!TypeOK, FromHeader
<1>6. OwnedOnce' BY <1>3 DEF Weak!TypeOK, OwnedOnce
<1>7. NulledFirst' /\ Weak!WeakIsTold' BY DEF NulledFirst, Weak!WeakIsTold
<1>8. QED BY <1>1, <1>4, <1>5, <1>6, <1>7

LEMMA MakeKeeps ==
  ASSUME WeakInv, NEW t \in Threads, NEW p \in Pointers, Weak!Make(t, p)
  PROVE  WeakInv'
<1> USE NoNullPointer DEF WeakInv, Weak!Make, Weak!Goes, Weak!objectVars
<1>1. Weak!TypeOK' BY DEF Weak!TypeOK
<1>2. header = None /\ object = "alive" /\ observed = {}
  BY DEF Weak!TypeOK, MakerAlone, FromHeader
<1>3. MakerAlone' BY <1>2 DEF Weak!TypeOK, MakerAlone
<1>4. FromHeader' BY <1>2 DEF Weak!TypeOK, MakerAlone, FromHeader
<1>5. OwnedOnce' BY <1>2 DEF Weak!TypeOK, OwnedOnce
<1>6. NulledFirst' /\ Weak!WeakIsTold' BY <1>2 DEF NulledFirst, Weak!WeakIsTold
<1>7. QED BY <1>1, <1>3, <1>4, <1>5, <1>6

LEMMA OwnKeeps ==
  ASSUME WeakInv, NEW t \in Threads, Weak!Own(t)
  PROVE  WeakInv'
<1> USE NoNullPointer DEF WeakInv, Weak!Own, Weak!Goes, Weak!objectVars
<1>1. header \in Pointers /\ object = "alive"
  BY DEF Weak!TypeOK, MakerAlone, FromHeader
<1>2. owners[header] = 0 BY <1>1 DEF OwnedOnce
<1>3. Weak!TypeOK' BY <1>1, <1>2 DEF Weak!TypeOK
<1>4. \A u \in Threads : weakPc'[u] \notin {"make", "own"}
  BY DEF Weak!TypeOK, MakerAlone
<1>5. MakerAlone' BY <1>4 DEF MakerAlone
<1>6. FromHeader' BY <1>1 DEF Weak!TypeOK, FromHeader
<1>7. owners'[header'] = 1 BY <1>1, <1>2 DEF Weak!TypeOK
<1>8. OwnedOnce' BY <1>1, <1>4, <1>7 DEF Weak!TypeOK, OwnedOnce
<1>9. NulledFirst' /\ Weak!WeakIsTold' BY DEF NulledFirst, Weak!WeakIsTold
<1>10. QED BY <1>3, <1>5, <1>6, <1>8, <1>9

LEMMA TakeKeeps ==
  ASSUME WeakInv, NEW t \in Threads, Weak!Take(t)
  PROVE  WeakInv'
<1> USE NoNullPointer DEF WeakInv, Weak!Take, Weak!Goes, Weak!objectVars
<1>1. header \in Pointers BY DEF Weak!TypeOK, FromHeader
<1>2. Weak!TypeOK' BY <1>1 DEF Weak!TypeOK
<1>3. \A u \in Threads : weakPc[u] \notin {"make", "own"}
  BY DEF Weak!TypeOK, MakerAlone
<1>4. MakerAlone' BY <1>3 DEF Weak!TypeOK, MakerAlone
<1>5. FromHeader' BY DEF Weak!TypeOK, FromHeader
<1>6. OwnedOnce' BY <1>3 DEF Weak!TypeOK, OwnedOnce
<1>7. NulledFirst' /\ Weak!WeakIsTold' BY DEF NulledFirst, Weak!WeakIsTold
<1>8. QED BY <1>2, <1>4, <1>5, <1>6, <1>7

LEMMA DerefKeeps ==
  ASSUME WeakInv, NEW t \in Threads, Weak!Deref(t) \/ Weak!AddRef(t)
  PROVE  WeakInv'
<1> USE NoNullPointer
    DEF WeakInv, Weak!Deref, Weak!AddRef, Weak!Goes, Weak!objectVars,
        Weak!weakVars
<1>1. Weak!TypeOK' BY DEF Weak!TypeOK
<1>2. header # None BY DEF Weak!TypeOK, FromHeader
<1>3. MakerAlone' BY <1>2 DEF Weak!TypeOK, MakerAlone
<1>4. FromHeader' BY <1>2 DEF Weak!TypeOK, FromHeader
<1>5. \A u \in Threads : (weakPc'[u] = "own") <=> (weakPc[u] = "own")
  BY DEF Weak!TypeOK
<1>6. OwnedOnce' BY <1>5 DEF OwnedOnce
<1>7. NulledFirst' /\ Weak!WeakIsTold' BY DEF NulledFirst, Weak!WeakIsTold
<1>8. QED BY <1>1, <1>3, <1>4, <1>6, <1>7

LEMMA DropObjectKeeps ==
  ASSUME WeakInv, NEW t \in Threads, Weak!Release(t)
  PROVE  WeakInv'
<1> USE NoNullPointer DEF WeakInv, Weak!Release, Weak!Goes, Weak!weakVars
<1>1. Weak!TypeOK' BY DEF Weak!TypeOK
<1>2. MakerAlone' BY DEF Weak!TypeOK, MakerAlone
<1>3. FromHeader' BY DEF Weak!TypeOK, FromHeader
<1>4. \A u \in Threads : (weakPc'[u] = "own") <=> (weakPc[u] = "own")
  BY DEF Weak!TypeOK
<1>5. (object' = "freed") <=> (object = "freed") OBVIOUS
<1>6. OwnedOnce' BY <1>4, <1>5 DEF OwnedOnce
<1>7. NulledFirst' /\ Weak!WeakIsTold' BY DEF NulledFirst, Weak!WeakIsTold
<1>8. QED BY <1>1, <1>2, <1>3, <1>6, <1>7

LEMMA SetObservedNullKeeps ==
  ASSUME WeakInv, NEW t \in Threads, Weak!SetObservedNull(t)
  PROVE  WeakInv'
<1> USE NoNullPointer DEF WeakInv, Weak!SetObservedNull
<1>1. Weak!TypeOK' BY DEF Weak!TypeOK
<1>2. MakerAlone' BY DEF MakerAlone
<1>3. FromHeader' BY DEF FromHeader
<1>4. OwnedOnce' BY DEF OwnedOnce
<1>5. observed' = {} BY DEF FromHeader
<1>6. NulledFirst' /\ Weak!WeakIsTold' BY <1>5 DEF NulledFirst, Weak!WeakIsTold
<1>7. QED BY <1>1, <1>2, <1>3, <1>4, <1>6

LEMMA FreeObjectKeeps ==
  ASSUME WeakInv, NEW t \in Threads, Weak!Free(t)
  PROVE  WeakInv'
<1> USE NoNullPointer DEF WeakInv, Weak!Free, Weak!Goes
<1>1. \A u \in Threads : weakPc[u] \notin {"make", "own"} BY DEF MakerAlone
<1>2. header # None => header \in Pointers /\ owners[header] = 1
  BY <1>1 DEF Weak!TypeOK, OwnedOnce
<1>3. Weak!TypeOK'
  <2>1. CASE header = None BY <2>1 DEF Weak!TypeOK
  <2>2. CASE header # None
    <3>1. owners' = [owners EXCEPT ![header] = 0] BY <1>2, <2>2
    <3>2. QED BY <1>2, <2>2, <3>1 DEF Weak!TypeOK
  <2>3. QED BY <2>1, <2>2
<1>4. MakerAlone' BY <1>1 DEF Weak!TypeOK, MakerAlone
<1>5. FromHeader' BY DEF Weak!TypeOK, FromHeader
<1>6. OwnedOnce' BY DEF OwnedOnce
<1>7. NulledFirst' /\ Weak!WeakIsTold' BY DEF NulledFirst, Weak!WeakIsTold
<1>8. QED BY <1>3, <1>4, <1>5, <1>6, <1>7

LEMMA DropWeakKeeps ==
  ASSUME WeakInv, NEW t \in Threads, Weak!Drop(t)
  PROVE  WeakInv'
<1> USE NoNullPointer DEF WeakInv, Weak!Drop, Weak!objectVars
<1>1. weak[t] = header /\ header \in Pointers BY DEF Weak!TypeOK, FromHeader
<1>2. \A u \in Threads : weakPc[u] \notin {"make", "own"} BY DEF MakerAlone
<1>3. object # "freed" => weakMemory' = weakMemory BY <1>1, <1>2 DEF OwnedOnce
<1>4. Weak!TypeOK' BY <1>1 DEF Weak!TypeOK
<1>5. MakerAlone' BY <1>2 DEF MakerAlone
<1>6. FromHeader' BY DEF Weak!TypeOK, FromHeader
<1>7. OwnedOnce' BY <1>3 DEF OwnedOnce
<1>8. NulledFirst' BY DEF NulledFirst
<1>9. Weak!WeakIsTold' BY <1>3 DEF NulledFirst, Weak!WeakIsTold
<1>10. QED BY <1>4, <1>5, <1>6, <1>7, <1>8, <1>9

LEMMA WeakNext == WeakInv /\ [Weak!Next]_Weak!vars => WeakInv'
<1> SUFFICES ASSUME WeakInv, [Weak!Next]_Weak!vars PROVE WeakInv' OBVIOUS
<1>1. CASE UNCHANGED Weak!vars
  BY <1>1 DEF Weak!vars, WeakInv, Weak!TypeOK, MakerAlone, FromHeader, OwnedOnce,
              NulledFirst, Weak!WeakIsTold
<1>2. CASE Weak!Next
  BY <1>2, AskKeeps, MakeKeeps, OwnKeeps, TakeKeeps, DerefKeeps,
     DropObjectKeeps, SetObservedNullKeeps, FreeObjectKeeps, DropWeakKeeps
  DEF Weak!Next
<1>3. QED BY <1>1, <1>2

\* No weak pointer is left pointing to freed memory, and none is freed that still
\* points to the object (ni_object_get_weak_ptr against ni_object_free), if the
\* threads that ask for the first one keep the contract.
THEOREM WeakPointersAreTold == Weak!Spec => []WeakIsTold
<1>1. Weak!Init => WeakInv BY WeakInit
<1>2. WeakInv /\ [Weak!Next]_Weak!vars => WeakInv' BY WeakNext
<1>3. WeakInv => WeakIsTold BY DEF WeakInv, WeakIsTold
<1>4. QED BY <1>1, <1>2, <1>3, PTL DEF Weak!Spec

(***************************************************************************)
(* Device resources.  The manager lists no resource that was freed, Clear  *)
(* reaches none, and every valid resource is listed unless a later one has *)
(* its name.                                                               *)
(***************************************************************************)

LEMMA ResourcesApart ==
  /\ None \notin Resources /\ None \notin Holders /\ None \notin Names
  /\ NameOf \in [Resources -> Names \cup {None}]
BY ComponentsAssumption

\* Only valid resources are listed, each under its own name.
OnlyValid ==
  /\ \A r \in unnamed : NameOf[r] = None /\ resources[r] = "valid"
  /\ \A n \in Names : named[n] # None =>
       NameOf[named[n]] = n /\ resources[named[n]] = "valid"

\* Every valid resource is listed that no later one has the name of.
AllListed ==
  \A r \in Resources : resources[r] = "valid" =>
    IF NameOf[r] = None THEN r \in unnamed
    ELSE latest[NameOf[r]] = r => named[NameOf[r]] = r

\* Whoever has the mutex clears, and what is listed then is still to be
\* invalidated; all of that is valid, as other threads wait.
ClearMatches ==
  /\ \A t \in Holders : (resourcePc[t] = "clear") <=> (lock = t)
  /\ lock = None => copy = {}
  /\ lock # None =>
       /\ unnamed \subseteq copy
       /\ \A n \in Names : named[n] # None => named[n] \in copy
  /\ \A r \in copy : resources[r] = "valid"

\* A resource that is held or destroyed was made, and has been unregistered when it
\* is freed.
DestroyMatches ==
  /\ \A r \in Resources : resourceHolders[r] # {} => resources[r] # "no"
  /\ \A t \in Holders :
       /\ resourcePc[t] \in {"invalidate", "destroy", "unregister", "free"} =>
            resource[t] \in Resources /\ resources[resource[t]] # "no"
       /\ resourcePc[t] = "free" => resources[resource[t]] \in {"invalid", "freed"}

DevicesInv ==
  /\ Devices!TypeOK /\ OnlyValid /\ AllListed /\ ClearMatches /\ DestroyMatches
  /\ resourceTouched = FALSE

LEMMA DevicesInit == Devices!Init => DevicesInv
BY ResourcesApart
DEF Devices!Init, DevicesInv, Devices!TypeOK, OnlyValid, AllListed,
       ClearMatches, DestroyMatches

LEMMA NewKeeps ==
  ASSUME DevicesInv, NEW t \in Holders, NEW r \in Resources, Devices!New(t, r)
  PROVE  DevicesInv'
<1> USE ResourcesApart DEF DevicesInv
<1>1. Devices!TypeOK'
  BY DEF Devices!TypeOK, Devices!New, Devices!Register, Devices!Goes
<1>2. resources[r] = "no" /\ lock = None BY DEF Devices!New
<1>3. OnlyValid'
  BY <1>2 DEF Devices!TypeOK, OnlyValid, Devices!New, Devices!Register
<1>4. AllListed'
  <2> SUFFICES ASSUME NEW q \in Resources, resources'[q] = "valid"
               PROVE  IF NameOf[q] = None THEN q \in unnamed'
                      ELSE latest'[NameOf[q]] = q => named'[NameOf[q]] = q
    BY DEF AllListed
  <2>1. CASE NameOf[r] = None
    BY <1>2, <2>1 DEF Devices!TypeOK, AllListed, Devices!New, Devices!Register
  <2>2. CASE NameOf[r] # None
    <3>1. /\ unnamed' = unnamed
          /\ named' = [named EXCEPT ![NameOf[r]] = r]
          /\ latest' = [latest EXCEPT ![NameOf[r]] = r]
          /\ resources' = [resources EXCEPT ![r] = "valid"]
      BY <2>2 DEF Devices!New, Devices!Register
    <3>2. named'[NameOf[r]] = r /\ latest'[NameOf[r]] = r
      BY <2>2, <3>1 DEF Devices!TypeOK
    <3>3. CASE q = r BY <2>2, <3>2, <3>3
    <3>4. CASE q # r
      <4>1. resources[q] = "valid" BY <3>1, <3>4 DEF Devices!TypeOK
      <4>2. CASE NameOf[q] = None BY <3>1, <4>1, <4>2 DEF AllListed
      <4>3. CASE NameOf[q] = NameOf[r] BY <2>2, <3>2, <3>4, <4>3
      <4>4. CASE NameOf[q] # None /\ NameOf[q] # NameOf[r]
        BY <3>1, <4>1, <4>4 DEF Devices!TypeOK, AllListed
      <4>5. QED BY <4>2, <4>3, <4>4
    <3>5. QED BY <3>3, <3>4
  <2>3. QED BY <2>1, <2>2
<1>5. ClearMatches'
  BY <1>2 DEF Devices!TypeOK, ClearMatches, Devices!New, Devices!Goes
<1>6. DestroyMatches'
  BY <1>2 DEF Devices!TypeOK, DestroyMatches, Devices!New, Devices!Goes
<1>7. resourceTouched' = FALSE BY DEF Devices!New
<1>8. QED BY <1>1, <1>3, <1>4, <1>5, <1>6, <1>7

\* Unregister takes r out of both lists and nothing else.
LEMMA UnregisterRemoves ==
  ASSUME Devices!TypeOK, OnlyValid, NEW r \in Resources, Devices!Unregister(r)
  PROVE  /\ unnamed' = unnamed \ {r}
         /\ named' = [n \in Names |-> IF named[n] = r THEN None ELSE named[n]]
<1>1. CASE NameOf[r] = None \/ resources[r] = "invalid"
  BY <1>1, ResourcesApart DEF Devices!TypeOK, OnlyValid, Devices!Unregister
<1>2. CASE ~(NameOf[r] = None \/ resources[r] = "invalid")
  BY <1>2, ResourcesApart DEF Devices!TypeOK, OnlyValid, Devices!Unregister
<1>3. QED BY <1>1, <1>2

\* Whoever holds or destroys a resource finds out whether it has to unregister.
LEMMA TestKeeps ==
  ASSUME DevicesInv, NEW t \in Holders,
         Devices!Destroy(t) \/ \E r \in Resources : Devices!Invalidate(t, r)
  PROVE  DevicesInv'
<1> USE ResourcesApart DEF DevicesInv
<1>1. /\ UNCHANGED <<named, unnamed, resources, resourceHolders, lock, copy, latest,
                      resourceTouched>>
      /\ Devices!TypeOK'
  BY DEF Devices!TypeOK, Devices!Destroy, Devices!Invalidate, Devices!Goes
<1>2. OnlyValid' /\ AllListed' BY <1>1 DEF OnlyValid, AllListed
<1>3. ClearMatches'
  BY <1>1 DEF Devices!TypeOK, ClearMatches, Devices!Destroy, Devices!Invalidate,
              Devices!Goes
<1>4. DestroyMatches'
  <2>1. CASE Devices!Destroy(t)
    <3>1. resourcePc[t] = "destroy" /\ resource[t] \in Resources
      BY <2>1 DEF DestroyMatches, Devices!Destroy, Devices!Goes
    <3>2. resources[resource[t]] \in {"valid", "invalid", "freed"}
      BY <3>1 DEF Devices!TypeOK, DestroyMatches
    <3>3. QED
      BY <1>1, <2>1, <3>1, <3>2 DEF Devices!TypeOK, DestroyMatches, Devices!Destroy,
                                    Devices!Goes
  <2>2. CASE \E r \in Resources : Devices!Invalidate(t, r)
    BY <1>1, <2>2 DEF Devices!TypeOK, DestroyMatches, Devices!Invalidate, Devices!Goes
  <2>3. QED BY <2>1, <2>2
<1>5. QED BY <1>1, <1>2, <1>3, <1>4

LEMMA HolderKeeps ==
  ASSUME DevicesInv, NEW t \in Holders, NEW r \in Resources,
         Devices!Share(t, r) \/ Devices!Release(t, r)
  PROVE  DevicesInv'
<1> USE ResourcesApart DEF DevicesInv
<1>1. Devices!TypeOK'
  BY DEF Devices!TypeOK, Devices!Share, Devices!Release, Devices!Goes
<1>2. OnlyValid' BY DEF OnlyValid, Devices!Share, Devices!Release
<1>3. AllListed' BY DEF AllListed, Devices!Share, Devices!Release
<1>4. ClearMatches'
  BY DEF Devices!TypeOK, ClearMatches, Devices!Share, Devices!Release,
         Devices!Goes
<1>5. DestroyMatches'
  BY DEF Devices!TypeOK, DestroyMatches, Devices!Share, Devices!Release,
         Devices!Goes
<1>6. resourceTouched' = FALSE BY DEF Devices!Share, Devices!Release
<1>7. QED BY <1>1, <1>2, <1>3, <1>4, <1>5, <1>6

LEMMA InvalidateEndsKeeps ==
  ASSUME DevicesInv, NEW t \in Holders, Devices!InvalidateEnds(t)
  PROVE  DevicesInv'
<1> USE ResourcesApart DEF DevicesInv
<1>1. resource[t] \in Resources /\ lock = None /\ lock' = None
  BY DEF DestroyMatches, Devices!InvalidateEnds, Devices!Goes
<1>2. /\ unnamed' = unnamed \ {resource[t]}
      /\ named' = [n \in Names |-> IF named[n] = resource[t] THEN None
                                   ELSE named[n]]
  BY <1>1, UnregisterRemoves DEF Devices!InvalidateEnds
<1>3. Devices!TypeOK'
  BY <1>1, <1>2 DEF Devices!TypeOK, Devices!InvalidateEnds, Devices!Goes
<1>4. OnlyValid' BY <1>1, <1>2 DEF Devices!TypeOK, OnlyValid, Devices!InvalidateEnds
<1>5. AllListed'
  BY ZenonT(40), <1>1, <1>2 DEF Devices!TypeOK, AllListed, Devices!InvalidateEnds
<1>6. copy = {} /\ copy' = {} BY <1>1 DEF ClearMatches, Devices!InvalidateEnds
<1>7. ClearMatches'
  BY <1>1, <1>6 DEF Devices!TypeOK, ClearMatches, Devices!InvalidateEnds,
                    Devices!Goes
<1>8. DestroyMatches'
  BY <1>1 DEF Devices!TypeOK, DestroyMatches, Devices!InvalidateEnds, Devices!Goes
<1>9. resourceTouched' = FALSE BY DEF Devices!InvalidateEnds
<1>10. QED BY <1>3, <1>4, <1>5, <1>7, <1>8, <1>9

LEMMA FreeResourceKeeps ==
  ASSUME DevicesInv, NEW t \in Holders, Devices!Free(t)
  PROVE  DevicesInv'
<1> USE ResourcesApart DEF DevicesInv
<1>1. resource[t] \in Resources /\ resources[resource[t]] # "valid"
  BY DEF DestroyMatches, Devices!Free, Devices!Goes
<1>2. Devices!TypeOK' BY <1>1 DEF Devices!TypeOK, Devices!Free, Devices!Goes
<1>3. OnlyValid' BY <1>1 DEF Devices!TypeOK, OnlyValid, Devices!Free
<1>4. AllListed' BY <1>1 DEF Devices!TypeOK, AllListed, Devices!Free
<1>5. ClearMatches'
  BY <1>1 DEF Devices!TypeOK, ClearMatches, Devices!Free, Devices!Goes
<1>6. DestroyMatches'
  BY <1>1 DEF Devices!TypeOK, DestroyMatches, Devices!Free, Devices!Goes
<1>7. resourceTouched' = FALSE BY DEF Devices!Free
<1>8. QED BY <1>2, <1>3, <1>4, <1>5, <1>6, <1>7

LEMMA ClearKeeps ==
  ASSUME DevicesInv, NEW t \in Holders, Devices!Clear(t)
  PROVE  DevicesInv'
<1> USE ResourcesApart DEF DevicesInv
<1>1. Devices!TypeOK'
  BY DEF Devices!TypeOK, Devices!Clear, Devices!Goes, Devices!Listed
<1>2. OnlyValid' /\ AllListed' BY DEF OnlyValid, AllListed, Devices!Clear
<1>3. ClearMatches'
  BY DEF Devices!TypeOK, OnlyValid, ClearMatches, Devices!Clear, Devices!Goes,
         Devices!Listed
<1>4. DestroyMatches'
  BY DEF Devices!TypeOK, DestroyMatches, Devices!Clear, Devices!Goes
<1>5. resourceTouched' = FALSE BY DEF Devices!Clear
<1>6. QED BY <1>1, <1>2, <1>3, <1>4, <1>5

LEMMA ClearOneKeeps ==
  ASSUME DevicesInv, NEW t \in Holders, NEW r \in Resources,
         Devices!ClearOne(t, r)
  PROVE  DevicesInv'
<1> USE ResourcesApart DEF DevicesInv
<1>1. r \in copy /\ resources[r] = "valid" BY DEF ClearMatches, Devices!ClearOne
<1>2. /\ unnamed' = unnamed \ {r}
      /\ named' = [n \in Names |-> IF named[n] = r THEN None ELSE named[n]]
  BY <1>1, UnregisterRemoves DEF Devices!ClearOne
<1>3. Devices!TypeOK' BY <1>2 DEF Devices!TypeOK, Devices!ClearOne, Devices!Goes
<1>4. OnlyValid' BY <1>2 DEF Devices!TypeOK, OnlyValid, Devices!ClearOne
<1>5. AllListed' BY <1>2 DEF Devices!TypeOK, AllListed, Devices!ClearOne
<1>6. lock = t BY DEF ClearMatches, Devices!ClearOne, Devices!Goes
<1>7. ClearMatches'
  BY <1>2, <1>6 DEF Devices!TypeOK, ClearMatches, Devices!ClearOne, Devices!Goes
<1>8. DestroyMatches'
  BY <1>1 DEF Devices!TypeOK, DestroyMatches, Devices!ClearOne, Devices!Goes
<1>9. resourceTouched' = FALSE BY <1>1 DEF Devices!ClearOne
<1>10. QED BY <1>3, <1>4, <1>5, <1>7, <1>8, <1>9

\* By the end of Clear the lists are empty already.
LEMMA ClearEndsKeeps ==
  ASSUME DevicesInv, NEW t \in Holders, Devices!ClearEnds(t)
  PROVE  DevicesInv'
<1> USE ResourcesApart DEF DevicesInv
<1>1. lock = t BY DEF ClearMatches, Devices!ClearEnds, Devices!Goes
<1>2. unnamed = {} /\ \A n \in Names : named[n] = None
  BY <1>1 DEF Devices!TypeOK, ClearMatches, Devices!ClearEnds
<1>3. unnamed' = unnamed /\ named' = named
  BY <1>2 DEF Devices!TypeOK, Devices!ClearEnds
<1>4. Devices!TypeOK' BY <1>3 DEF Devices!TypeOK, Devices!ClearEnds, Devices!Goes
<1>5. OnlyValid' /\ AllListed'
  BY <1>3 DEF OnlyValid, AllListed, Devices!ClearEnds
<1>6. ClearMatches'
  BY <1>1 DEF Devices!TypeOK, ClearMatches, Devices!ClearEnds, Devices!Goes
<1>7. DestroyMatches'
  BY DEF Devices!TypeOK, DestroyMatches, Devices!ClearEnds, Devices!Goes
<1>8. resourceTouched' = FALSE BY DEF Devices!ClearEnds
<1>9. QED BY <1>4, <1>5, <1>6, <1>7, <1>8

LEMMA DevicesNext == DevicesInv /\ [Devices!Next]_Devices!vars => DevicesInv'
<1> SUFFICES ASSUME DevicesInv, [Devices!Next]_Devices!vars
             PROVE  DevicesInv'
  OBVIOUS
<1>1. CASE UNCHANGED Devices!vars
  BY <1>1 DEF Devices!vars, DevicesInv, Devices!TypeOK, OnlyValid, AllListed,
              ClearMatches, DestroyMatches
<1>2. CASE Devices!Next
  BY <1>2, NewKeeps, TestKeeps, HolderKeeps, InvalidateEndsKeeps,
     FreeResourceKeeps, ClearKeeps, ClearOneKeeps, ClearEndsKeeps
  DEF Devices!Next
<1>3. QED BY <1>1, <1>2

\* The manager's lists are true (Register, Unregister and Clear of
\* cDeviceResourceManager against the destructors of the resources).
THEOREM ListsAreTrue == Devices!Spec => []ListIsTrue
<1>1. Devices!Init => DevicesInv BY DevicesInit
<1>2. DevicesInv /\ [Devices!Next]_Devices!vars => DevicesInv' BY DevicesNext
<1>3. DevicesInv => ListIsTrue
  BY ResourcesApart
  DEF DevicesInv, Devices!TypeOK, OnlyValid, AllListed, ListIsTrue, Devices!ListIsTrue,
         Devices!Listed
<1>4. QED BY <1>1, <1>2, <1>3, PTL DEF Devices!Spec
==============================================================================
