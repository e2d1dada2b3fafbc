---------------------------- MODULE WidgetsProofs ----------------------------
(***************************************************************************)
(* Proofs about Widgets.  One thread runs everything, so the invariant is  *)
(* about what is still to be done, todo: which statements may wait while   *)
(* another is done (After, where careful handlers come in) and which only  *)
(* for what was destroyed (Late); how far the destruction of a widget is   *)
(* (WidgetOK); that focus and active widget are valid or will be taken     *)
(* from their widget (Held); and for each way in which a flag and a stack  *)
(* may differ, the statement that will make them equal (Agrees).           *)
(***************************************************************************)
EXTENDS Widgets, SequenceTheorems, FiniteSetTheorems, WellFoundedInduction, TLAPS

(***************************************************************************)
(* The tree.                                                               *)
(***************************************************************************)

\* A widget has the parent it had first, or none.
TreeOK ==
  /\ parent \in [Widget -> OrNone]
  /\ \A w \in Widget : parent[w] \in {None, ParentOf[w]}

\* The sets that Path takes the smallest of.
IsLine(w, S) ==
  /\ S \in SUBSET Widget
  /\ w \in S /\ \A x \in S : parent[x] # None => parent[x] \in S

LEMMA PathIs ==
  ASSUME NEW w \in Widget
  PROVE  /\ Path(w) \subseteq Widget
         /\ \A v \in Widget : v \in Path(w) <=> \A S : IsLine(w, S) => v \in S
BY DEF Path, IsLine

LEMMA PathSelf ==
  ASSUME NEW w \in Widget
  PROVE  w \in Path(w)
BY PathIs DEF IsLine

LEMMA PathLeast ==
  ASSUME NEW w \in Widget, NEW S, IsLine(w, S)
  PROVE  Path(w) \subseteq S
BY PathIs

LEMMA PathUp ==
  ASSUME TreeOK, NEW w \in Widget, NEW v \in Path(w), parent[v] # None
  PROVE  parent[v] \in Path(w)
<1>1. v \in Widget /\ parent[v] \in Widget BY PathIs DEF TreeOK, OrNone
<1>2. ASSUME NEW S, IsLine(w, S) PROVE parent[v] \in S
  BY <1>1, <1>2, PathIs DEF IsLine
<1>3. QED BY <1>1, <1>2, PathIs

LEMMA PathIsLine ==
  ASSUME TreeOK, NEW w \in Widget
  PROVE  IsLine(w, Path(w))
BY PathIs, PathSelf, PathUp DEF IsLine

LEMMA PathTrans ==
  ASSUME TreeOK, NEW w \in Widget, NEW v \in Path(w)
  PROVE  Path(v) \subseteq Path(w)
<1>1. v \in Widget BY PathIs
<1>2. IsLine(v, Path(w)) BY PathIsLine DEF IsLine
<1>3. QED BY <1>1, <1>2, PathLeast

\* An ancestor is the parent of something on the way.
LEMMA PathDown ==
  ASSUME TreeOK, NEW w \in Widget, NEW v \in Path(w), v # w
  PROVE  \E c \in Path(w) : parent[c] = v
<1>1. SUFFICES ASSUME \A c \in Path(w) : parent[c] # v PROVE FALSE OBVIOUS
<1>2. IsLine(w, Path(w) \ {v}) BY <1>1, PathIsLine DEF IsLine
<1>3. QED BY <1>2, PathLeast

LEMMA PathOfChild ==
  ASSUME TreeOK, NEW w \in Widget, parent[w] # None
  PROVE  parent[w] \in Widget /\ Path(w) = {w} \cup Path(parent[w])
<1>1. parent[w] \in Widget BY DEF TreeOK, OrNone
<1>2. IsLine(w, {w} \cup Path(parent[w]))
  BY <1>1, PathIsLine DEF IsLine
<1>3. Path(w) \subseteq {w} \cup Path(parent[w]) BY <1>2, PathLeast
<1>4. w \in Path(w) BY PathSelf
<1>5. parent[w] \in Path(w) BY <1>4, PathUp
<1>6. Path(parent[w]) \subseteq Path(w) BY <1>5, PathTrans
<1>7. QED BY <1>1, <1>3, <1>4, <1>6

\* The way up descends in depth.
LEMMA PathDepth ==
  ASSUME TreeOK
  PROVE  \E depth \in [Widget -> Nat] :
           \A w \in Widget : \A v \in Path(w) : v = w \/ depth[v] < depth[w]
<1>1. Cardinality(Widget) \in Nat BY WidgetAssumption, FS_CardinalityType
<1>2. PICK depth \in [Widget -> 0 .. Cardinality(Widget)] :
        \A w \in Widget \ {Root} : ParentOf[w] # None /\ depth[ParentOf[w]] < depth[w]
  BY WidgetAssumption
<1>3. depth \in [Widget -> Nat] BY <1>1, <1>2
<1>4. \A w \in Widget : parent[w] # None => depth[parent[w]] < depth[w]
  BY <1>2, WidgetAssumption DEF TreeOK
<1>5. ASSUME NEW w \in Widget, NEW v \in Path(w)
      PROVE  v = w \/ depth[v] < depth[w]
  <2> DEFINE S == {x \in Widget : x = w \/ depth[x] < depth[w]}
  <2>1. ASSUME NEW x \in S, parent[x] # None PROVE parent[x] \in S
    <3>1. x \in Widget /\ parent[x] \in Widget BY <2>1 DEF TreeOK, OrNone
    <3>2. depth[parent[x]] < depth[x] BY <1>4, <2>1, <3>1
    <3>3. depth[x] <= depth[w] BY <1>3, <3>1
    <3>4. depth[parent[x]] < depth[w] BY <1>3, <3>1, <3>2, <3>3
    <3>5. QED BY <3>1, <3>4
  <2>2. IsLine(w, S) BY <2>1 DEF IsLine
  <2> HIDE DEF S
  <2>3. v \in S BY <2>2, PathLeast
  <2>4. QED BY <2>3 DEF S
<1>6. QED BY <1>3, <1>5

\* No widget is above itself.
LEMMA Acyclic ==
  ASSUME TreeOK, NEW w \in Widget, parent[w] # None
  PROVE  w \notin Path(parent[w])
<1>1. PICK depth \in [Widget -> Nat] :
        \A x \in Widget : \A v \in Path(x) : v = x \/ depth[v] < depth[x]
  BY PathDepth
<1>2. parent[w] \in Path(w) /\ parent[w] \in Widget BY PathSelf, PathUp, PathIs
<1>3. parent[w] # w
  BY WidgetAssumption DEF TreeOK
<1>4. depth[parent[w]] < depth[w] BY <1>1, <1>2, <1>3
<1>5. ~(depth[w] < depth[parent[w]]) BY <1>2, <1>4
<1>6. QED BY <1>1, <1>2, <1>3, <1>5

\* Of two widgets on a way one is above the other.
LEMMA PathChain ==
  ASSUME TreeOK, NEW w \in Widget, NEW u \in Path(w), NEW v \in Path(w)
  PROVE  u \in Path(v) \/ v \in Path(u)
<1> DEFINE S == {x \in Path(w) : \A y \in Path(w) : y \in Path(x) \/ x \in Path(y)}
<1>1. w \in S BY PathSelf, PathTrans
<1>2. ASSUME NEW x \in S, parent[x] # None PROVE parent[x] \in S
  <2>1. x \in Path(w) /\ x \in Widget /\ parent[x] \in Path(w) BY <1>2, PathIs, PathUp
  <2>2. ASSUME NEW y \in Path(w) PROVE y \in Path(parent[x]) \/ parent[x] \in Path(y)
    <3>1. y \in Widget BY PathIs
    <3>2. CASE x \in Path(y) BY <1>2, <2>1, <3>1, <3>2, PathUp
    <3>3. CASE y = x BY <1>2, <3>1, <3>3, PathSelf, PathUp
    <3>4. CASE y \in Path(x) /\ y # x BY <1>2, <2>1, <3>4, PathOfChild
    <3>5. QED BY <3>2, <3>3, <3>4
  <2>3. QED BY <2>1, <2>2
<1>3. IsLine(w, S) BY <1>1, <1>2, PathIs DEF IsLine
<1> HIDE DEF S
<1>4. u \in S BY <1>3, PathLeast
<1>5. QED BY <1>4 DEF S

LEMMA LeastNat ==
  ASSUME NEW T \in SUBSET Nat, T # {}
  PROVE  \E x \in T : \A y \in T : x <= y
<1>1. PICK x \in T : \A y \in T : ~(<<y, x>> \in OpToRel(<, Nat))
  BY NatLessThanWellFounded, WFMin
<1>2. ASSUME NEW y \in T PROVE x <= y
  <2>1. ~(y < x) BY <1>1 DEF OpToRel
  <2>2. QED BY <2>1
<1>3. QED BY <1>2

LEMMA NearestIs ==
  ASSUME TreeOK, NEW w \in Widget, NEW S \in SUBSET Path(w), S # {}
  PROVE  Nearest(S) \in S
<1>1. PICK depth \in [Widget -> Nat] :
        \A x \in Widget : \A v \in Path(x) : v = x \/ depth[v] < depth[x]
  BY PathDepth
<1>2. S \subseteq Widget BY PathIs
<1> DEFINE T == {depth[w] - depth[x] : x \in S}
<1>3. T \in SUBSET Nat /\ T # {}
  <2>1. ASSUME NEW x \in S PROVE depth[w] - depth[x] \in Nat
    <3>1. x = w \/ depth[x] < depth[w] BY <1>1
    <3>2. QED BY <1>2, <3>1
  <2>2. QED BY <2>1
<1> HIDE DEF T
<1>4. PICK m \in T : \A y \in T : m <= y BY <1>3, LeastNat
<1>5. PICK v \in S : m = depth[w] - depth[v] BY DEF T
<1>6. ASSUME NEW u \in S PROVE u \in Path(v)
  <2>1. u \in Widget /\ v \in Widget BY <1>2
  <2>2. depth[w] - depth[u] \in T BY DEF T
  <2>3. depth[w] - depth[v] <= depth[w] - depth[u] BY <1>4, <1>5, <2>2
  <2>4. ~(depth[v] < depth[u]) BY <2>1, <2>3
  <2>5. u \in Path(v) \/ v \in Path(u) BY PathChain
  <2>6. CASE v \in Path(u) BY <1>1, <2>1, <2>4, <2>6, PathSelf
  <2>7. QED BY <2>5, <2>6
<1>7. \E x \in S : S \subseteq Path(x) BY <1>6
<1>8. QED BY <1>7 DEF Nearest

\* _GetFocusTarget and _GetFocusActivateWidget find a widget of the way up.
LEMMA FocusIsAbove ==
  ASSUME TreeOK, NEW w \in Widget
  PROVE  /\ FocusTarget(w) \in Path(w)
         /\ FocusActivate(w) \in Path(w) \cup {None}
<1>1. PICK depth \in [Widget -> Nat] :
        \A x \in Widget : \A v \in Path(x) : v = x \/ depth[v] < depth[x]
  BY PathDepth
<1> DEFINE T == {depth[x] : x \in Path(w)}
           S == {v \in Path(w) : v \in HoldFocus \/ parent[v] = None}
<1>2. T \in SUBSET Nat /\ T # {} BY PathIs, PathSelf
<1> HIDE DEF T
<1>3. PICK m \in T : \A y \in T : m <= y BY <1>2, LeastNat
<1>4. PICK v \in Path(w) : m = depth[v] BY DEF T
<1>5. parent[v] = None
  <2>1. SUFFICES ASSUME parent[v] # None PROVE FALSE OBVIOUS
  <2>2. v \in Widget /\ parent[v] \in Widget /\ parent[v] \in Path(w)
    BY <2>1, PathIs, PathUp
  <2>3. parent[v] \in Path(v) BY <2>1, <2>2, PathSelf, PathUp
  <2>4. parent[v] # v BY <2>1, <2>2, WidgetAssumption, Acyclic, PathSelf
  <2>5. depth[parent[v]] < depth[v] BY <1>1, <2>2, <2>3, <2>4
  <2>6. depth[v] <= depth[parent[v]] BY <1>3, <1>4, <2>2 DEF T
  <2>7. QED BY <2>2, <2>5, <2>6
<1>6. v \in S BY <1>5
<1> HIDE DEF S
<1>7. FocusTarget(w) \in S BY <1>6, NearestIs DEF FocusTarget, S
<1>8. FocusActivate(w) \in Path(w) \cup {None} BY NearestIs DEF FocusActivate
<1>9. QED BY <1>7, <1>8 DEF S

(***************************************************************************)
(* Sequences.                                                              *)
(***************************************************************************)

Stmts == [op : Statements, w : Widget, on : BOOLEAN]
Unique(s) == \A i, j \in DOMAIN s : s[i] = s[j] => i = j

\* SetToSeq lists a finite set, each member once.
LEMMA ListsOnce ==
  ASSUME NEW S, IsFiniteSet(S)
  PROVE  /\ SetToSeq(S) \in Seq(S) /\ Unique(SetToSeq(S))
         /\ \A x \in S : \E i \in DOMAIN SetToSeq(S) : SetToSeq(S)[i] = x
<1> DEFINE n == Cardinality(S)
<1>1. n \in Nat /\ ExistsBijection(1 .. n, S) BY FS_CardinalityType
<1>2. PICK f \in Bijection(1 .. n, S) : TRUE BY <1>1 DEF ExistsBijection
<1>3. f \in [1 .. n -> S] /\ IsInjective(f) BY <1>2 DEF Bijection, Injection
<1>4. SetToSeq(S) \in [1 .. n -> S] /\ IsInjective(SetToSeq(S))
  BY <1>3 DEF SetToSeq
<1>5. SetToSeq(S) \in Injection(1 .. n, S) BY <1>4 DEF Injection
<1>6. IsFiniteSet(1 .. n) /\ Cardinality(1 .. n) = Cardinality(S)
  BY <1>1, FS_Interval
<1>7. SetToSeq(S) \in Surjection(1 .. n, S) BY <1>5, <1>6, FS_Injection
<1> HIDE DEF n
<1>8. SetToSeq(S) \in Seq(S) BY <1>1, <1>4
<1>9. QED BY <1>4, <1>7, <1>8 DEF Unique, IsInjective, Surjection

\* A statement for each widget of a set.
LEMMA StatementsFor ==
  ASSUME NEW S \in SUBSET Widget, NEW op \in Statements, NEW q,
         q = [i \in DOMAIN SetToSeq(S) |-> Stmt(op, SetToSeq(S)[i])]
  PROVE  /\ q \in Seq(Stmts)
         /\ Range(q) = {Stmt(op, v) : v \in S}
         /\ \A i, j \in DOMAIN q : i # j => q[i].w # q[j].w
<1> DEFINE l == SetToSeq(S)
<1>1. IsFiniteSet(S) BY WidgetAssumption, FS_Subset
<1>2. /\ l \in Seq(S) /\ Unique(l)
      /\ \A x \in S : \E i \in DOMAIN l : l[i] = x
  BY <1>1, ListsOnce
<1>3. q = [i \in DOMAIN l |-> Stmt(op, l[i])] OBVIOUS
<1> HIDE DEF l
<1>4. Len(l) \in Nat /\ DOMAIN l = 1 .. Len(l) BY <1>2, LenProperties
<1>5. \A i \in DOMAIN l : l[i] \in S BY <1>2, <1>4, ElementOfSeq
<1>6. \A v \in Widget : Stmt(op, v) \in Stmts /\ Stmt(op, v).w = v
  BY DEF Stmt, Stmts
<1>7. q \in Seq(Stmts)
  <2>1. q \in [1 .. Len(l) -> Stmts] BY <1>3, <1>4, <1>5, <1>6
  <2>2. QED BY <1>4, <2>1
<1>8. Range(q) = {Stmt(op, v) : v \in S}
  BY <1>2, <1>3, <1>5 DEF Range
<1>9. ASSUME NEW i \in DOMAIN q, NEW j \in DOMAIN q, i # j PROVE q[i].w # q[j].w
  <2>1. i \in DOMAIN l /\ j \in DOMAIN l /\ q[i].w = l[i] /\ q[j].w = l[j]
    BY <1>3, <1>5, <1>6, <1>9
  <2>2. QED BY <1>2, <1>9, <2>1 DEF Unique
<1>10. QED BY <1>7, <1>8, <1>9

\* What find_erase leaves.
LEMMA EraseLeaves ==
  ASSUME NEW s \in Seq(Widget), Unique(s), NEW w \in Widget
  PROVE  /\ FindErase(s, w) \in Seq(Widget) /\ Unique(FindErase(s, w))
         /\ Range(FindErase(s, w)) = Range(s) \ {w}
         /\ s # <<>> /\ Last(s) # w =>
              FindErase(s, w) # <<>> /\ Last(FindErase(s, w)) = Last(s)
<1>1. PICK n \in Nat : n = Len(s) /\ DOMAIN s = 1 .. n BY LenProperties
<1>2. \A i \in 1 .. n : s[i] \in Widget BY <1>1, ElementOfSeq
<1>3. CASE w \notin Range(s) BY <1>3 DEF FindErase
<1>4. CASE w \in Range(s)
  <2>1. PICK i \in 1 .. n : s[i] = w BY <1>1, <1>4 DEF Range
  <2>2. \A j \in 1 .. n : s[j] = w => j = i BY <1>1, <2>1 DEF Unique
  <2>3. FindErase(s, w) = RemoveAt(s, i)
    <3>1. (CHOOSE k \in DOMAIN s : s[k] = w /\ \A j \in DOMAIN s : s[j] = w => k <= j) = i
      BY <1>1, <2>1, <2>2
    <3>2. QED BY <1>4, <3>1 DEF FindErase
  <2> DEFINE a == SubSeq(s, 1, i - 1)
             b == SubSeq(s, i + 1, n)
             r == a \o b
  <2>4. FindErase(s, w) = r BY <1>1, <2>3 DEF RemoveAt
  <2>5. /\ a \in Seq(Widget) /\ Len(a) = i - 1
        /\ \A k \in 1 .. i - 1 : a[k] = s[k]
    <3>1. \A k \in 1 .. i - 1 : s[k] \in Widget BY <1>1, <1>2
    <3>2. i - 1 \in Int /\ 1 \in Int BY <1>1
    <3>3. /\ a \in Seq(Widget) /\ Len(a) = IF 1 <= i - 1 THEN i - 1 - 1 + 1 ELSE 0
          /\ \A k \in 1 .. i - 1 - 1 + 1 : a[k] = s[1 + k - 1]
      BY <3>1, <3>2, SubSeqProperties
    <3>4. QED BY <1>1, <3>3
  <2>6. /\ b \in Seq(Widget) /\ Len(b) = n - i
        /\ \A k \in 1 .. n - i : b[k] = s[i + k]
    <3>1. \A k \in i + 1 .. n : s[k] \in Widget BY <1>1, <1>2
    <3>2. i + 1 \in Int /\ n \in Int BY <1>1
    <3>3. /\ b \in Seq(Widget) /\ Len(b) = IF i + 1 <= n THEN n - (i + 1) + 1 ELSE 0
          /\ \A k \in 1 .. n - (i + 1) + 1 : b[k] = s[(i + 1) + k - 1]
      BY <3>1, <3>2, SubSeqProperties
    <3>4. Len(b) = n - i /\ n - (i + 1) + 1 = n - i BY <1>1, <3>3
    <3>5. \A k \in 1 .. n - i : (i + 1) + k - 1 = i + k BY <1>1
    <3>6. QED BY <3>3, <3>4, <3>5
  <2> HIDE DEF a, b
  <2>7. /\ r \in Seq(Widget) /\ Len(r) = n - 1
        /\ \A k \in 1 .. n - 1 : r[k] = IF k < i THEN s[k] ELSE s[k + 1]
    <3>1. /\ r \in Seq(Widget) /\ Len(r) = Len(a) + Len(b)
          /\ \A k \in 1 .. Len(a) + Len(b) :
               r[k] = IF k <= Len(a) THEN a[k] ELSE b[k - Len(a)]
      BY <2>5, <2>6, ConcatProperties
    <3>2. Len(r) = n - 1 BY <1>1, <2>5, <2>6, <3>1
    <3>3. ASSUME NEW k \in 1 .. n - 1
          PROVE  r[k] = IF k < i THEN s[k] ELSE s[k + 1]
      <4>1. r[k] = IF k <= i - 1 THEN a[k] ELSE b[k - (i - 1)]
        BY <1>1, <2>5, <2>6, <3>1
      <4>2. CASE k < i BY <2>5, <4>1, <4>2
      <4>3. CASE ~(k < i)
        <5>1. k - (i - 1) \in 1 .. n - i BY <1>1, <4>3
        <5>2. i + (k - (i - 1)) = k + 1 BY <1>1
        <5>3. QED BY <2>6, <4>1, <4>3, <5>1, <5>2
      <4>4. QED BY <4>2, <4>3
    <3>4. QED BY <3>1, <3>2, <3>3
  <2> HIDE DEF r
  <2>8. DOMAIN r = 1 .. n - 1 BY <2>7, LenProperties
  <2>9. Unique(r)
    <3>1. ASSUME NEW k \in 1 .. n - 1, NEW l \in 1 .. n - 1, r[k] = r[l] PROVE k = l
      <4> DEFINE p == IF k < i THEN k ELSE k + 1
                 q == IF l < i THEN l ELSE l + 1
      <4>1. p \in 1 .. n /\ q \in 1 .. n BY <1>1
      <4>2. s[p] = r[k] /\ s[q] = r[l] BY <2>7
      <4>3. p = q BY <1>1, <3>1, <4>1, <4>2 DEF Unique
      <4>4. QED BY <1>1, <4>3
    <3>2. QED BY <2>8, <3>1 DEF Unique
  <2>10. Range(r) = Range(s) \ {w}
    <3>1. ASSUME NEW k \in 1 .. n - 1 PROVE r[k] \in Range(s) \ {w}
      <4> DEFINE p == IF k < i THEN k ELSE k + 1
      <4>1. p \in 1 .. n /\ p # i BY <1>1
      <4>2. r[k] = s[p] BY <2>7
      <4>3. QED BY <1>1, <2>2, <4>1, <4>2 DEF Range
    <3>2. ASSUME NEW k \in 1 .. n, s[k] # w PROVE s[k] \in Range(r)
      <4> DEFINE p == IF k < i THEN k ELSE k - 1
      <4>1. p \in 1 .. n - 1 /\ (p < i <=> k < i) BY <1>1, <2>1, <3>2
      <4>2. r[p] = s[k]
        <5>1. CASE k < i BY <2>7, <4>1, <5>1
        <5>2. CASE ~(k < i)
          <6>1. ~(p < i) /\ p + 1 = k BY <1>1, <4>1, <5>2
          <6>2. r[p] = s[p + 1] BY <2>7, <4>1, <6>1
          <6>3. QED BY <6>1, <6>2
        <5>3. QED BY <5>1, <5>2
      <4>3. QED BY <2>8, <4>1, <4>2 DEF Range
    <3>3. QED BY <1>1, <2>8, <3>1, <3>2 DEF Range
  <2>11. ASSUME s # <<>>, Last(s) # w PROVE r # <<>> /\ Last(r) = Last(s)
    <3>1. s[n] # w BY <1>1, <2>11 DEF Last
    <3>2. i # n BY <2>1, <3>1
    <3>3. n - 1 \in 1 .. n - 1 /\ ~(n - 1 < i) /\ n - 1 + 1 = n
      BY <1>1, <3>2
    <3>4. r[n - 1] = s[n - 1 + 1] BY <2>7, <3>3
    <3>5. r[Len(r)] = s[n] BY <2>7, <3>3, <3>4
    <3>6. Len(r) # 0 BY <2>7, <3>3
    <3>7. r # <<>> BY <3>6, EmptySeq
    <3>8. QED BY <1>1, <3>5, <3>7 DEF Last
  <2>12. QED BY <2>4, <2>7, <2>9, <2>10, <2>11
<1>5. QED BY <1>3, <1>4

(***************************************************************************)
(* The statements still to be done.                                        *)
(***************************************************************************)

Pending == Range(todo)
Rest == Range(Tail(todo))
P(op, w) == Stmt(op, w) \in Pending

Kills == {"Destroy", "MarkInvalid", "Unparent", "InvalidateTarget", "Forget"}
Removes == {"RemoveCapture", "RemoveExclusive"}

\* The statements that need their widget: what careful handlers leave alone.
Firm == Switching \cup Giving \cup Destroying

\* What a destroyed widget still goes through, in this order.
BlockOrder ==
  {<<"MarkInvalid", "Unparent">>, <<"MarkInvalid", "InvalidateTarget">>,
   <<"MarkInvalid", "Forget">>, <<"Unparent", "InvalidateTarget">>,
   <<"Unparent", "Forget">>, <<"InvalidateTarget", "Forget">>}
SameCall == {<<"PushCapture", "FlagCapture">>, <<"PushExclusive", "FlagExclusive">>}

\* The statements during which no switch of the same widget is under way.
Alone(a) == a.on \/ a.op \in {"SetVisible", "PushCapture", "PushExclusive"}

\* Statement b may be waiting while a is done.
After(a, b) ==
  /\ a.op \in Kills /\ b.op \in Firm =>
       IF b.w = a.w THEN <<a.op, b.op>> \in BlockOrder ELSE a.w \notin Path(b.w)
  /\ a.op \in Kills /\ b.op = "Destroy" => b.w = a.w \/ a.w \notin Path(b.w)
  /\ Alone(a) /\ b.op \in Switching =>
       b.w # a.w \/ (b.on /\ <<a.op, b.op>> \in SameCall)

\* What waits behind another statement: a child is destroyed because its parent was,
\* and a widget is taken from a stack because it was destroyed.
Late(b) ==
  /\ b.op = "Destroy" => parent[b.w] = None \/ ~Valid(parent[b.w])
  /\ b.op \in Removes => ~Valid(b.w)
MayFollow(a, b) == After(a, b) /\ Late(b)
InOrder == \A i, j \in DOMAIN todo : i < j => MayFollow(todo[i], todo[j])

\* Statement h is done, and replaced by s.
Does(h, s) ==
  /\ todo # <<>> /\ Head(todo) = h
  /\ s \in Seq(Stmts) /\ todo' = s \o Tail(todo)

LEMMA DoesIs ==
  ASSUME todo \in Seq(Stmts), NEW h, NEW s, Does(h, s)
  PROVE  /\ h \in Stmts /\ todo' \in Seq(Stmts)
         /\ Rest \subseteq Stmts /\ Range(s) \subseteq Stmts
         /\ Pending = {h} \cup Rest
         /\ Pending' = Range(s) \cup Rest
<1>1. /\ h \in Stmts /\ Tail(todo) \in Seq(Stmts) /\ Len(Tail(todo)) = Len(todo) - 1
      /\ \A i \in 1 .. Len(Tail(todo)) : Tail(todo)[i] = todo[i + 1]
  BY HeadTailProperties DEF Does
<1>2. /\ todo' \in Seq(Stmts) /\ Range(todo') = Range(s) \cup Range(Tail(todo))
  <2>1. s \in Seq(Stmts) /\ todo' = s \o Tail(todo) BY DEF Does
  <2>2. Tail(todo) \in Seq(Stmts) BY <1>1
  <2>3. s \o Tail(todo) \in Seq(Stmts) BY <2>1, <2>2, ConcatProperties
  <2>4. Range(s \o Tail(todo)) = Range(s) \cup Range(Tail(todo))
    BY ONLY <2>1, <2>2, RangeConcatenation
  <2>5. QED BY <2>1, <2>3, <2>4
<1>3. Rest \subseteq Stmts /\ Range(s) \subseteq Stmts
  BY <1>1, RangeOfSeq DEF Does, Rest
<1>4. Pending = {h} \cup Rest
  <2>1. PICK n \in Nat \ {0} : n = Len(todo) /\ DOMAIN todo = 1 .. n
    BY LenProperties, EmptySeq DEF Does
  <2>2. DOMAIN Tail(todo) = 1 .. n - 1 BY <1>1, <2>1, LenProperties
  <2>3. todo[1] = h BY DEF Does
  <2>4. \A i \in 1 .. n - 1 : Tail(todo)[i] = todo[i + 1] BY <1>1, <2>1
  <2>5. ASSUME NEW x \in Rest PROVE x \in Pending
    <3>1. PICK i \in 1 .. n - 1 : x = Tail(todo)[i] BY <2>2 DEF Rest, Range
    <3>2. i + 1 \in 1 .. n OBVIOUS
    <3>3. x = todo[i + 1] BY <2>4, <3>1
    <3>4. QED BY <2>1, <3>2, <3>3 DEF Pending, Range
  <2>6. ASSUME NEW x \in Pending, x # h PROVE x \in Rest
    <3>1. PICK i \in 1 .. n : x = todo[i] BY <2>1 DEF Pending, Range
    <3>2. i - 1 \in 1 .. n - 1 /\ i - 1 + 1 = i BY <2>3, <2>6, <3>1
    <3>3. Tail(todo)[i - 1] = x BY <2>4, <3>1, <3>2
    <3>4. QED BY <2>2, <3>2, <3>3 DEF Rest, Range
  <2>7. 1 \in DOMAIN todo BY <2>1
  <2>8. h \in Pending BY <2>3, <2>7 DEF Pending, Range
  <2>9. QED BY <2>5, <2>6, <2>8
<1>5. QED BY <1>1, <1>2, <1>3, <1>4 DEF Pending, Rest

\* What waits may follow what is done.
LEMMA RestFollows ==
  ASSUME todo \in Seq(Stmts), InOrder, NEW h, NEW s, Does(h, s), NEW b \in Rest
  PROVE  MayFollow(h, b)
<1>1. PICK n \in Nat \ {0} : n = Len(todo) /\ DOMAIN todo = 1 .. n
  BY LenProperties, EmptySeq DEF Does
<1>2. /\ Tail(todo) \in Seq(Stmts) /\ Len(Tail(todo)) = n - 1
      /\ \A i \in 1 .. n - 1 : Tail(todo)[i] = todo[i + 1]
  BY <1>1, HeadTailProperties DEF Does
<1>3. DOMAIN Tail(todo) = 1 .. n - 1 BY <1>2, LenProperties
<1>4. PICK i \in 1 .. n - 1 : b = Tail(todo)[i] BY <1>3 DEF Rest, Range
<1>5. 1 \in 1 .. n /\ i + 1 \in 1 .. n /\ 1 < i + 1 /\ b = todo[i + 1]
  BY <1>2, <1>4
<1>6. h = todo[1] BY DEF Does
<1>7. QED BY <1>1, <1>5, <1>6 DEF InOrder

\* The order is kept if the new statements keep it.
LEMMA OrderNext ==
  ASSUME todo \in Seq(Stmts), InOrder, NEW h, NEW s, Does(h, s),
         \A a, b \in Stmts : MayFollow(a, b) => MayFollow(a, b)',
         \A i, j \in DOMAIN s : i < j => MayFollow(s[i], s[j])',
         \A a \in Range(s), b \in Rest : MayFollow(a, b)'
  PROVE  InOrder'
<1>1. PICK n \in Nat \ {0} : n = Len(todo) /\ DOMAIN todo = 1 .. n
  BY LenProperties, EmptySeq DEF Does
<1>2. PICK t \in Seq(Stmts) :
        /\ t = Tail(todo) /\ Len(t) = n - 1
        /\ \A i \in 1 .. n - 1 : t[i] = todo[i + 1]
  <2>1. todo # <<>> BY DEF Does
  <2>2. /\ Tail(todo) \in Seq(Stmts) /\ Len(Tail(todo)) = Len(todo) - 1
        /\ \A i \in 1 .. Len(Tail(todo)) : Tail(todo)[i] = todo[i + 1]
    BY <2>1, HeadTailProperties
  <2>3. QED BY <1>1, <2>2
<1>3. DOMAIN t = 1 .. n - 1 BY <1>2, LenProperties
<1>4. PICK m \in Nat : m = Len(s) /\ DOMAIN s = 1 .. m
  BY LenProperties DEF Does
<1>5. /\ todo' \in Seq(Stmts) /\ Len(todo') = m + (n - 1)
      /\ \A i \in 1 .. m + (n - 1) : todo'[i] = IF i <= m THEN s[i] ELSE t[i - m]
  BY <1>2, <1>4, ConcatProperties DEF Does
<1>6. DOMAIN todo' = 1 .. m + (n - 1) BY <1>5, LenProperties
<1>7. ASSUME NEW i \in 1 .. m + (n - 1), NEW j \in 1 .. m + (n - 1), i < j,
             NEW a \in Stmts, NEW b \in Stmts, a = todo'[i], b = todo'[j]
      PROVE  MayFollow(a, b)'
  <2>1. CASE j <= m
    <3>1. i \in 1 .. m /\ j \in 1 .. m /\ i <= m BY <1>7, <2>1
    <3>2. a = s[i] /\ b = s[j] BY <1>5, <1>7, <2>1, <3>1
    <3>3. MayFollow(s[i], s[j])' BY <1>4, <1>7, <3>1
    <3>4. QED BY <3>2, <3>3
  <2>2. CASE i <= m /\ m < j
    <3>1. i \in 1 .. m /\ j - m \in 1 .. n - 1 /\ ~(j <= m) BY <1>7, <2>2
    <3>2. a = s[i] /\ b = t[j - m] BY <1>5, <1>7, <2>2, <3>1
    <3>3. a \in Range(s) /\ b \in Rest
      BY <1>2, <1>3, <1>4, <3>1, <3>2 DEF Range, Rest
    <3>4. QED BY <3>3
  <2>3. CASE m < i
    <3>1. /\ i - m \in 1 .. n - 1 /\ j - m \in 1 .. n - 1
          /\ ~(i <= m) /\ ~(j <= m)
          /\ i - m + 1 \in 1 .. n /\ j - m + 1 \in 1 .. n
          /\ i - m + 1 < j - m + 1
      BY <1>7, <2>3
    <3>2. a = t[i - m] /\ b = t[j - m] BY <1>5, <1>7, <3>1
    <3>3. a = todo[i - m + 1] /\ b = todo[j - m + 1]
      BY <1>2, <3>1, <3>2
    <3>4. MayFollow(a, b) BY <1>1, <3>1, <3>3 DEF InOrder
    <3>5. QED BY <3>4
  <2>4. QED BY <1>7, <2>1, <2>2, <2>3
<1>8. SUFFICES ASSUME NEW i \in DOMAIN todo', NEW j \in DOMAIN todo', i < j
               PROVE  MayFollow(todo[i], todo[j])'
  BY DEF InOrder
<1>9. todo'[i] \in Stmts /\ todo'[j] \in Stmts BY <1>5, <1>6, <1>8, ElementOfSeq
<1>10. PICK a \in Stmts, b \in Stmts : a = todo'[i] /\ b = todo'[j] BY <1>9
<1>11. MayFollow(a, b)' BY <1>6, <1>7, <1>8, <1>10
<1>12. QED BY <1>10, <1>11 DEF MayFollow, After, Late, Valid

\* What may follow still may, if the tree stays and none comes to life.
LEMMA OrderLasts ==
  ASSUME UNCHANGED parent, TreeOK, \A v \in Widget : Valid(v)' => Valid(v)
  PROVE  /\ \A a, b \in Stmts : After(a, b) => After(a, b)'
         /\ \A b \in Stmts : Late(b) => Late(b)'
         /\ \A a, b \in Stmts : MayFollow(a, b) => MayFollow(a, b)'
<1>1. ASSUME NEW a \in Stmts, NEW b \in Stmts, After(a, b) PROVE After(a, b)'
  BY <1>1 DEF After, Path
<1>2. ASSUME NEW b \in Stmts, Late(b) PROVE Late(b)'
  <2>1. b.w \in Widget BY DEF Stmts
  <2>2. PICK p : p = parent[b.w] OBVIOUS
  <2>3. p \in Widget \cup {None} BY <2>1, <2>2 DEF TreeOK, OrNone
  <2>4. p # None => (Valid(p)' => Valid(p)) BY <2>3
  <2>5. parent'[b.w] = p BY <2>2
  <2>6. b.op \in Removes => ~Valid(b.w)' BY <1>2, <2>1 DEF Late
  <2>7. b.op = "Destroy" => p = None \/ ~Valid(p)' BY <1>2, <2>2, <2>4 DEF Late
  <2>8. QED BY <2>5, <2>6, <2>7 DEF Late, Valid
<1>3. QED BY <1>1, <1>2 DEF MayFollow

(***************************************************************************)
(* The invariant.                                                          *)
(***************************************************************************)

Switches == {"SetVisible", "SetCapture", "SetExclusive", "FlagCapture", "FlagExclusive"}

StmtOK(a) ==
  /\ a.on => a.op \in Switches
  /\ a.op \in {"ApplyTop", "Refocus"} => a.w = Root
  /\ a.op \in Kills \cup {"SetVisible", "FocusParent"} => a.w # Root
Forms == TypeOK /\ \A a \in Pending : StmtOK(a)

\* How far the destruction of a widget is.
WidgetOK(w) ==
  /\ Valid(w) => parent[w] = ParentOf[w]
  /\ ~Valid(w) /\ parent[w] # None => P("Unparent", w)
  /\ status[w] = "invalid" => P("Forget", w)
  /\ parent[w] # None /\ ~Valid(parent[w]) =>
       /\ P("Destroy", w) \/ P("MarkInvalid", w) \/ P("Unparent", w)
       /\ P("InvalidateTarget", parent[w])
  /\ P("MarkInvalid", w) =>
       Valid(w) /\ P("Unparent", w) /\ P("InvalidateTarget", w) /\ P("Forget", w)
  /\ \A op \in {"Unparent", "InvalidateTarget", "Forget"} :
       P(op, w) => status[w] # "gone" /\ (P("MarkInvalid", w) \/ ~Valid(w))
TreeInv ==
  /\ TreeOK
  /\ Valid(Root) /\ Root \in shown
  /\ \A w \in Widget : WidgetOK(w)

\* A widget that is not valid has lost its flags.
FlagsOK == \A w \in Widget : ~Valid(w) => w \notin shown \cup captures \cup exclusives

\* The focus is with a widget that is valid, or will be taken from it.
Held(v) == Valid(v) \/ P("InvalidateTarget", v)
HandOK(a) ==
  /\ a.op \in {"FocusParent", "SetActive", "PutActive"} => Valid(a.w)
  /\ a.op = "SetFocusInput" => Held(a.w)
FocusInv ==
  /\ \A a \in Pending : HandOK(a)
  /\ focus # None => Held(focus)
  /\ active # None => Held(active)

\* Exclusivity and capture are given and taken in the same way.
Exclusivity == [set |-> "SetExclusive", remove |-> "RemoveExclusive",
                push |-> "PushExclusive", flag |-> "FlagExclusive"]
Capturing   == [set |-> "SetCapture", remove |-> "RemoveCapture",
                push |-> "PushCapture", flag |-> "FlagCapture"]
Kinds == {Exclusivity, Capturing}

\* The widget was marked invalid, and is still to be taken out of the context.
Leaving(w, N) == Stmt("InvalidateTarget", w) \in N /\ Stmt("MarkInvalid", w) \notin N

\* Widget w is in the stack, has the flag, is visible, N is pending.
Agrees(k, w, in, has, vis, N) ==
  /\ in /\ ~has => \/ Set(k.flag, w, TRUE) \in N \/ Stmt(k.remove, w) \in N
                   \/ Leaving(w, N)
  /\ has /\ ~in => Set(k.flag, w, FALSE) \in N
  /\ Set(k.flag, w, TRUE) \in N =>
       /\ vis /\ ~has
       /\ in \/ Stmt(k.push, w) \in N
       /\ Stmt(k.remove, w) \in N => Stmt(k.push, w) \in N
  /\ Stmt(k.push, w) \in N => Set(k.flag, w, TRUE) \in N /\ ~in
  /\ Set(k.flag, w, FALSE) \in N => ~in \/ Stmt(k.remove, w) \in N
  /\ Stmt(k.remove, w) \in N => ~has \/ Set(k.flag, w, FALSE) \in N
  /\ has /\ ~vis => \/ Stmt("CheckCapture", w) \in N \/ Set(k.set, w, FALSE) \in N
                    \/ Set(k.flag, w, FALSE) \in N
Kept(k, stack, flags, vis, N) ==
  /\ Unique(stack)
  /\ \A w \in Widget : Agrees(k, w, w \in Range(stack), w \in flags, w \in vis, N)

ExclusiveOK == Kept(Exclusivity, exclusiveStack, exclusives, shown, Pending)
CaptureOK   == Kept(Capturing, captureStack, captures, shown, Pending)
TopOK       == top # Root => exclusiveStack # <<>> /\ top = Last(exclusiveStack)
CaptorOK    == captureAll = IF captureStack = <<>> THEN None ELSE Last(captureStack)

StackInv == ExclusiveOK /\ CaptureOK /\ TopOK /\ CaptorOK

IInv ==
  Forms /\ InOrder /\ TreeInv /\ FlagsOK /\ FocusInv /\ StackInv /\ NoNullContext

(***************************************************************************)
(* What the steps leave as it was.                                         *)
(***************************************************************************)

\* The statuses are as they were, as far as it matters.
SameStatus ==
  /\ status' \in [Widget -> {"alive", "destroyed", "invalid", "gone"}]
  /\ \A v \in Widget : \/ status'[v] = status[v]
                       \/ {status[v], status'[v]} \subseteq {"alive", "destroyed"}

LEMMA SameValid ==
  ASSUME SameStatus, NEW v \in Widget
  PROVE  /\ Valid(v)' <=> Valid(v)
         /\ status'[v] = "gone" <=> status[v] = "gone"
         /\ status'[v] = "invalid" <=> status[v] = "invalid"
BY DEF SameStatus, Valid

LEMMA TreeStays ==
  ASSUME TreeInv, SameStatus, UNCHANGED parent, Root \in shown',
         \A op \in Kills \ {"Destroy"}, w \in Widget : P(op, w)' <=> P(op, w),
         \A w \in Widget :
           P("Destroy", w) => P("Destroy", w)' \/ P("Unparent", w)' \/ parent[w] = None
  PROVE  TreeInv'
<1>1. ASSUME NEW w \in Widget PROVE WidgetOK(w)'
  <2>1. parent[w] # None =>
          parent[w] \in Widget /\ (Valid(parent[w])' <=> Valid(parent[w]))
    BY SameValid DEF TreeInv, TreeOK, OrNone
  <2>2. WidgetOK(w) BY DEF TreeInv
  <2>3. /\ Valid(w)' <=> Valid(w)
        /\ status'[w] = "gone" <=> status[w] = "gone"
        /\ status'[w] = "invalid" <=> status[w] = "invalid"
    BY SameValid
  <2>4. \A op \in {"MarkInvalid", "Unparent", "InvalidateTarget", "Forget"}, v \in Widget :
          P(op, v)' <=> P(op, v)
    BY DEF Kills
  <2>5. parent[w] # None =>
          (P("InvalidateTarget", parent[w])' <=> P("InvalidateTarget", parent[w]))
    BY <2>1, <2>4
  <2>6. QED BY <2>1, <2>2, <2>3, <2>4, <2>5 DEF WidgetOK
<1>2. QED BY <1>1, SameValid, WidgetAssumption DEF TreeInv, TreeOK

LEMMA FlagsStay ==
  ASSUME FlagsOK, SameStatus, shown' \subseteq shown, captures' \subseteq captures,
         exclusives' \subseteq exclusives
  PROVE  FlagsOK'
BY SameValid DEF FlagsOK

LEMMA FocusStays ==
  ASSUME FocusInv, focus \in OrNone, active \in OrNone,
         \A v \in Widget : Held(v) => Held(v)',
         \A a \in Pending' : HandOK(a)',
         focus' \in {focus, None} \/ (focus' \in Widget /\ Held(focus')),
         active' \in {active, None} \/ (active' \in Widget /\ Held(active'))
  PROVE  FocusInv'
<1>1. ASSUME focus' # None PROVE Held(focus)'
  <2>1. focus' \in Widget /\ Held(focus') BY <1>1 DEF FocusInv, OrNone
  <2>2. PICK v \in Widget : v = focus' /\ Held(v) BY <2>1
  <2>3. Held(v)' BY <2>2
  <2>4. QED BY <2>2, <2>3 DEF Held, Valid, P
<1>2. ASSUME active' # None PROVE Held(active)'
  <2>1. active' \in Widget /\ Held(active') BY <1>2 DEF FocusInv, OrNone
  <2>2. PICK v \in Widget : v = active' /\ Held(v) BY <2>1
  <2>3. Held(v)' BY <2>2
  <2>4. QED BY <2>2, <2>3 DEF Held, Valid, P
<1>3. QED BY <1>1, <1>2 DEF FocusInv

\* The flag and the stack stay as they are, and so do the statements about them.
LEMMA KeptStays ==
  ASSUME NEW k \in Kinds, NEW stack, NEW flags, NEW vis, NEW N, NEW vis2, NEW N2,
         Kept(k, stack, flags, vis, N),
         \A w \in Widget :
           /\ Set(k.flag, w, TRUE) \in N2 <=> Set(k.flag, w, TRUE) \in N
           /\ Set(k.flag, w, FALSE) \in N2 <=> Set(k.flag, w, FALSE) \in N
           /\ Stmt(k.push, w) \in N2 <=> Stmt(k.push, w) \in N
           /\ Stmt(k.remove, w) \in N2 <=> Stmt(k.remove, w) \in N
           /\ Leaving(w, N) => Leaving(w, N2)
           /\ Set(k.flag, w, TRUE) \in N => w \in vis2
           /\ w \in flags /\ w \notin vis2 =>
                \/ Stmt("CheckCapture", w) \in N2 \/ Set(k.set, w, FALSE) \in N2
                \/ Set(k.flag, w, FALSE) \in N2
  PROVE  Kept(k, stack, flags, vis2, N2)
BY DEF Kept, Agrees

(***************************************************************************)
(* Steps that destroy nothing.                                             *)
(***************************************************************************)

LEMMA MildStep ==
  ASSUME IInv, NEW h, NEW N \in SUBSET Stmts, todo' \in Seq(Stmts),
         Pending \subseteq {h} \cup Pending', Pending' \subseteq Pending \cup N,
         h.op \in Kills => h.op = "Destroy" /\ h.w \in Widget /\ ~Valid(h.w),
         \A a \in N : StmtOK(a) /\ HandOK(a) /\ a.op \notin Kills \ {"Destroy"},
         SameStatus, UNCHANGED parent, Root \in shown', crashed' = FALSE,
         focus' \in {focus, None} \/ (focus' \in Widget /\ Held(focus')),
         active' \in {active, None} \/ (active' \in Widget /\ Held(active')),
         TypeOK', InOrder', FlagsOK', StackInv'
  PROVE  IInv'
<1>0. /\ Forms /\ TreeInv /\ FocusInv /\ TypeOK /\ todo \in Seq(Stmts)
  BY DEF IInv, Forms, TypeOK, Stmts
<1>1. Pending \subseteq Stmts /\ Pending' \subseteq Stmts
  BY <1>0, RangeOfSeq DEF Pending
<1>2. Forms' BY <1>0 DEF Forms, StmtOK
<1>3. \A op \in Kills \ {"Destroy"}, w \in Widget : P(op, w)' <=> P(op, w)
  <2>1. ASSUME NEW op \in Kills \ {"Destroy"}, NEW w \in Widget
        PROVE  P(op, w)' <=> P(op, w)
    <3>1. Stmt(op, w) # h /\ Stmt(op, w) \notin N BY DEF Stmt, Kills
    <3>2. QED BY <3>1 DEF P
  <2>2. QED BY <2>1
<1>4. ASSUME NEW w \in Widget, P("Destroy", w)
      PROVE  P("Destroy", w)' \/ P("Unparent", w)' \/ parent[w] = None
  <2>1. CASE Stmt("Destroy", w) = h
    <3>1. ~Valid(w) BY <2>1 DEF Stmt, Kills
    <3>2. parent[w] # None => P("Unparent", w) BY <1>0, <3>1 DEF TreeInv, WidgetOK
    <3>3. QED BY <1>3, <3>2 DEF Kills
  <2>2. CASE Stmt("Destroy", w) # h BY <1>4, <2>2 DEF P
  <2>3. QED BY <2>1, <2>2
<1>5. TreeInv' BY <1>0, <1>3, <1>4, TreeStays
<1>6. FocusInv'
  <2>1. \A v \in Widget : Held(v)' <=> Held(v) BY <1>3, SameValid DEF Held, Kills
  <2>2. ASSUME NEW a \in Pending' PROVE HandOK(a)'
    <3>1. HandOK(a) /\ a.w \in Widget BY <1>0, <1>1 DEF FocusInv, Stmts
    <3>2. Valid(a.w)' <=> Valid(a.w) BY <3>1, SameValid
    <3>3. Held(a.w)' <=> Held(a.w) BY <2>1, <3>1
    <3>4. QED BY <3>1, <3>2, <3>3 DEF HandOK
  <2>3. focus \in OrNone /\ active \in OrNone BY <1>0 DEF TypeOK
  <2>4. QED BY <1>0, <2>1, <2>2, <2>3, FocusStays
<1>7. NoNullContext' BY DEF NoNullContext
<1>8. QED BY <1>2, <1>5, <1>6, <1>7 DEF IInv

(***************************************************************************)
(* Quiet steps: those that are about the focus, and those that only say    *)
(* what is to be done.                                                     *)
(***************************************************************************)

QuietOps ==
  {"SetFocus", "SetFocusInput", "SetActive", "PutActive", "Send", "Handling",
   "CheckCapture", "FocusParent", "ApplyTop", "Refocus", "SendDestroy", "SetVisible", "SetCapture",
   "SetExclusive", "Destroy", "FlagDestroyed"}

\* What may be asked for at any time.
Quiet(a) == a.op \in QuietOps \ {"SetVisible", "Destroy"} /\ ~a.on

LEMMA QuietFirst ==
  ASSUME NEW a, Quiet(a), NEW b
  PROVE  After(a, b) /\ Late(a)
BY DEF Quiet, QuietOps, After, Kills, Alone, Late, Removes

LEMMA QuietOrder ==
  ASSUME todo \in Seq(Stmts), InOrder, NEW h, NEW s, Does(h, s), UNCHANGED parent,
         TreeOK, \A v \in Widget : Valid(v)' => Valid(v),
         \A a \in Range(s) : Quiet(a)
  PROVE  InOrder'
<1>1. /\ \A a, b \in Stmts : MayFollow(a, b) => MayFollow(a, b)'
      /\ Range(s) \subseteq Stmts /\ Rest \subseteq Stmts
  BY OrderLasts, DoesIs
<1>2. ASSUME NEW a \in Range(s), NEW b \in Range(s) \cup Rest PROVE MayFollow(a, b)'
  <2>1. Late(b) BY QuietFirst, RestFollows DEF MayFollow
  <2>2. MayFollow(a, b) BY <2>1, QuietFirst DEF MayFollow
  <2>3. QED BY <1>1, <2>2
<1>3. \A i \in DOMAIN s : s[i] \in Range(s) BY DEF Range
<1>4. \A i, j \in DOMAIN s : i < j => MayFollow(s[i], s[j])' BY <1>2, <1>3
<1>5. \A a \in Range(s), b \in Rest : MayFollow(a, b)' BY <1>2
<1> HIDE DEF MayFollow
<1>6. QED BY <1>1, <1>4, <1>5, OrderNext

\* Whoever has the flag and is hidden is still to give it up.
GivesUp(h, N, k, flags) ==
  \A w \in flags \ shown :
    h \in {Stmt("CheckCapture", w), Set(k.set, w, FALSE)} => Set(k.set, w, FALSE) \in N

LEMMA QuietKept ==
  ASSUME NEW k \in Kinds, NEW stack, NEW flags, NEW vis, NEW N, NEW M, NEW S, NEW h,
         Kept(k, stack, flags, vis, N), flags \in SUBSET Widget,
         N \subseteq {h} \cup M, M \subseteq N \cup S,
         h.op \in QuietOps, \A a \in S : a.op \in QuietOps,
         \A w \in flags \ vis :
           h \in {Stmt("CheckCapture", w), Set(k.set, w, FALSE)} => Set(k.set, w, FALSE) \in M
  PROVE  Kept(k, stack, flags, vis, M)
<1>1. /\ k.flag \notin QuietOps
      /\ k.push \notin QuietOps
      /\ k.remove \notin QuietOps
      /\ "InvalidateTarget" \notin QuietOps /\ "MarkInvalid" \notin QuietOps
  BY DEF Kinds, Exclusivity, Capturing, QuietOps
<1>2. ASSUME NEW w \in Widget
      PROVE  /\ Set(k.flag, w, TRUE) \in M <=> Set(k.flag, w, TRUE) \in N
             /\ Set(k.flag, w, FALSE) \in M <=> Set(k.flag, w, FALSE) \in N
             /\ Stmt(k.push, w) \in M <=> Stmt(k.push, w) \in N
             /\ Stmt(k.remove, w) \in M <=> Stmt(k.remove, w) \in N
             /\ Leaving(w, N) => Leaving(w, M)
  BY <1>1 DEF Leaving, Set, Stmt
<1>3. ASSUME NEW w \in Widget
      PROVE  /\ Set(k.flag, w, TRUE) \in N => w \in vis
             /\ w \in flags /\ w \notin vis =>
                  \/ Stmt("CheckCapture", w) \in M
                  \/ Set(k.set, w, FALSE) \in M
                  \/ Set(k.flag, w, FALSE) \in M
  <2>1. Agrees(k, w, w \in Range(stack), w \in flags, w \in vis, N) BY DEF Kept
  <2>2. QED BY <1>2, <2>1 DEF Agrees
<1>4. QED BY <1>2, <1>3, KeptStays

LEMMA QuietStep ==
  ASSUME IInv, NEW h, NEW N \in SUBSET Stmts, todo' \in Seq(Stmts), InOrder',
         Pending \subseteq {h} \cup Pending', Pending' \subseteq Pending \cup N,
         h.op \in QuietOps,
         h.op = "Destroy" => h.w \in Widget /\ ~Valid(h.w),
         \A a \in N : a.op \in QuietOps /\ StmtOK(a) /\ HandOK(a),
         SameStatus, UNCHANGED <<parent, shown, captures, exclusives, stackVars>>,
         calls' \in 0 .. MaxCalls, crashed' = FALSE,
         focus' \in {focus, None} \/ (focus' \in Widget /\ Held(focus')),
         active' \in {active, None} \/ (active' \in Widget /\ Held(active')),
         GivesUp(h, Pending', Exclusivity, exclusives),
         GivesUp(h, Pending', Capturing, captures)
  PROVE  IInv'
<1>1. /\ TypeOK /\ FlagsOK /\ StackInv /\ TreeInv BY DEF IInv, Forms
<1> USE DEF stackVars
<1>2. TypeOK'
  BY <1>1 DEF TypeOK, Stmts, OrNone, SameStatus
<1>3. FlagsOK' BY <1>1, FlagsStay
<1>4. StackInv'
  <2>1. Kept(Exclusivity, exclusiveStack, exclusives, shown, Pending')
    <3>1. Exclusivity \in Kinds BY DEF Kinds
    <3>2. exclusives \in SUBSET Widget /\ ExclusiveOK BY <1>1 DEF StackInv, TypeOK
    <3>3. QED BY <3>1, <3>2, QuietKept DEF ExclusiveOK, GivesUp
  <2>2. Kept(Capturing, captureStack, captures, shown, Pending')
    <3>1. Capturing \in Kinds BY DEF Kinds
    <3>2. captures \in SUBSET Widget /\ CaptureOK BY <1>1 DEF StackInv, TypeOK
    <3>3. QED BY <3>1, <3>2, QuietKept DEF CaptureOK, GivesUp
  <2>3. TopOK' /\ CaptorOK' BY <1>1 DEF StackInv, TopOK, CaptorOK
  <2>4. QED BY <2>1, <2>2, <2>3 DEF StackInv, ExclusiveOK, CaptureOK
<1>5. h.op \notin Kills \ {"Destroy"} /\ \A a \in N : a.op \notin Kills \ {"Destroy"}
  BY DEF QuietOps, Kills
<1>6. Root \in shown' BY <1>1 DEF TreeInv
<1>7. QED BY <1>2, <1>3, <1>4, <1>5, <1>6, MildStep

(***************************************************************************)
(* Exclusivity and capture, one statement at a time: N is pending before,  *)
(* R the rest of it, S what the statement asks for.                        *)
(***************************************************************************)

\* The statements about v are the same in N and in M.
SameAbout(k, v, N, M) ==
  /\ Set(k.flag, v, TRUE) \in M <=> Set(k.flag, v, TRUE) \in N
  /\ Set(k.flag, v, FALSE) \in M <=> Set(k.flag, v, FALSE) \in N
  /\ Stmt(k.push, v) \in M <=> Stmt(k.push, v) \in N
  /\ Stmt(k.remove, v) \in M <=> Stmt(k.remove, v) \in N
  /\ Set(k.set, v, FALSE) \in N => Set(k.set, v, FALSE) \in M
  /\ Stmt("CheckCapture", v) \in N => Stmt("CheckCapture", v) \in M
  /\ Leaving(v, N) => Leaving(v, M)

LEMMA AboutOthers ==
  ASSUME NEW k, NEW h, NEW R, NEW S, NEW v, h.w # v,
         \A a \in S : a.op \in {k.remove, k.push, k.flag, "MarkInvalid"} => a.w # v
  PROVE  SameAbout(k, v, {h} \cup R, S \cup R)
BY DEF SameAbout, Leaving, Set, Stmt

LEMMA AboutOtherKind ==
  ASSUME NEW k, NEW h, NEW R, NEW S, NEW v,
         h.op \notin {k.set, k.remove, k.push, k.flag, "CheckCapture", "InvalidateTarget"},
         \A a \in S : a.op \notin {k.remove, k.push, k.flag, "MarkInvalid"}
  PROVE  SameAbout(k, v, {h} \cup R, S \cup R)
BY DEF SameAbout, Leaving, Set, Stmt

\* Widget w alone is touched.
Elsewhere(k, w, N, M, stack, stack2, flags, flags2, vis, vis2) ==
  \A v \in Widget \ {w} :
    /\ SameAbout(k, v, N, M)
    /\ v \in Range(stack2) <=> v \in Range(stack)
    /\ v \in flags2 <=> v \in flags
    /\ v \in vis2 <=> v \in vis

LEMMA KeptNext ==
  ASSUME NEW k \in Kinds, NEW w \in Widget,
         NEW stack, NEW flags, NEW vis, NEW N, Kept(k, stack, flags, vis, N),
         NEW stack2, NEW flags2, NEW vis2, NEW M, Unique(stack2),
         Elsewhere(k, w, N, M, stack, stack2, flags, flags2, vis, vis2),
         Agrees(k, w, w \in Range(stack2), w \in flags2, w \in vis2, M)
  PROVE  Kept(k, stack2, flags2, vis2, M)
<1>1. SUFFICES ASSUME NEW v \in Widget, v # w
               PROVE  Agrees(k, v, v \in Range(stack2), v \in flags2, v \in vis2, M)
  BY DEF Kept
<1>2. /\ SameAbout(k, v, N, M)
      /\ v \in Range(stack2) <=> v \in Range(stack)
      /\ v \in flags2 <=> v \in flags
      /\ v \in vis2 <=> v \in vis
  BY <1>1 DEF Elsewhere
<1>3. Agrees(k, v, v \in Range(stack), v \in flags, v \in vis, N) BY DEF Kept
<1>4. QED BY <1>1, <1>2, <1>3 DEF Agrees, SameAbout

\* No widget is.
LEMMA KeptBeside ==
  ASSUME NEW k \in Kinds, NEW stack, NEW flags, NEW vis, NEW N, NEW M,
         Kept(k, stack, flags, vis, N), \A v \in Widget : SameAbout(k, v, N, M)
  PROVE  Kept(k, stack, flags, vis, M)
BY DEF Kept, Agrees, SameAbout

\* No switch of the widget is under way, but for these statements.
OnlyWaits(R, w, T) == \A b \in R : b.w = w /\ b.op \in Switching \cup Removes => b \in T

LEMMA KindWaits ==
  ASSUME NEW k \in Kinds
  PROVE  k.flag \in Switching /\ k.push \in Switching /\ k.remove \in Removes
BY DEF Kinds, Exclusivity, Capturing, Switching, Removes

LEMMA SetKept ==
  ASSUME NEW k \in Kinds, NEW stack, NEW flags, NEW vis, NEW R, NEW S,
         NEW w \in Widget, NEW on \in BOOLEAN, NEW h, h = Set(k.set, w, on),
         Kept(k, stack, flags, vis, {h} \cup R),
         S = {Stmt(k.remove, w), Set(k.flag, w, on)}
             \cup (IF on THEN {Stmt(k.push, w)} ELSE {}),
         on <=> w \notin flags, on => w \in vis, on => OnlyWaits(R, w, {}),
         on => ~Leaving(w, {h} \cup R)
  PROVE  Kept(k, stack, flags, vis, S \cup R)
<1>1. /\ k.set # k.remove /\ k.set # k.push /\ k.set # k.flag
      /\ k.remove # k.push /\ k.remove # k.flag /\ k.push # k.flag
      /\ k.set # "InvalidateTarget" /\ k.remove # "MarkInvalid" /\ k.push # "MarkInvalid"
      /\ k.flag # "MarkInvalid"
  BY DEF Kinds, Exclusivity, Capturing
<1>2. Agrees(k, w, w \in Range(stack), w \in flags, w \in vis, {h} \cup R) BY DEF Kept
<1>3. h.w = w /\ \A a \in S : a.w = w /\ a.op # "MarkInvalid" BY <1>1 DEF Set, Stmt
<1>4. Agrees(k, w, w \in Range(stack), w \in flags, w \in vis, S \cup R)
  <2>1. CASE on
    <3>1. /\ Set(k.flag, w, TRUE) \in S /\ Stmt(k.remove, w) \in S /\ Stmt(k.push, w) \in S
          /\ Set(k.flag, w, FALSE) \notin S \cup R /\ w \notin flags /\ w \in vis
      BY <1>1, <2>1, KindWaits DEF OnlyWaits, Set, Stmt
    <3>2. Set(k.flag, w, TRUE) \notin {h} \cup R /\ Stmt(k.remove, w) \notin {h} \cup R
      BY <1>1, <2>1, KindWaits DEF OnlyWaits, Set, Stmt
    <3>3. w \notin Range(stack) BY <1>2, <2>1, <3>1, <3>2 DEF Agrees
    <3>4. QED BY <3>1, <3>3 DEF Agrees
  <2>2. CASE ~on
    <3>1. on = FALSE /\ w \in flags BY <2>2
    <3>2. /\ Set(k.flag, w, FALSE) \in S /\ Stmt(k.remove, w) \in S /\ w \in flags
          /\ Stmt(k.push, w) \notin S /\ Set(k.flag, w, TRUE) \notin S
      BY <1>1, <3>1 DEF Set, Stmt
    <3>3. Set(k.flag, w, TRUE) \notin R /\ Stmt(k.push, w) \notin R
      BY <1>2, <3>2 DEF Agrees
    <3>4. QED BY <3>2, <3>3 DEF Agrees
  <2>3. QED BY <2>1, <2>2
<1>5. \A v \in Widget \ {w} : SameAbout(k, v, {h} \cup R, S \cup R)
  BY <1>3, AboutOthers
<1>6. Unique(stack) BY DEF Kept
<1>7. Elsewhere(k, w, {h} \cup R, S \cup R, stack, stack, flags, flags, vis, vis)
  BY <1>5 DEF Elsewhere
<1>8. QED BY <1>4, <1>6, <1>7, KeptNext

LEMMA RemoveKept ==
  ASSUME NEW k \in Kinds, NEW stack \in Seq(Widget), NEW flags, NEW vis, NEW R, NEW S,
         NEW w \in Widget, NEW h, h = Stmt(k.remove, w),
         Kept(k, stack, flags, vis, {h} \cup R), \A a \in S : a.op \in QuietOps,
         NEW left, left = FindErase(stack, w)
  PROVE  Kept(k, left, flags, vis, S \cup R)
<1>1. /\ k.remove # k.push /\ k.remove # k.flag /\ k.remove # k.set
      /\ k.remove # "CheckCapture" /\ k.remove # "InvalidateTarget"
      /\ "MarkInvalid" \notin QuietOps
      /\ k.remove \notin QuietOps /\ k.push \notin QuietOps /\ k.flag \notin QuietOps
  BY DEF Kinds, Exclusivity, Capturing, QuietOps
<1>2. Agrees(k, w, w \in Range(stack), w \in flags, w \in vis, {h} \cup R) BY DEF Kept
<1>3. Unique(left) /\ Range(left) = Range(stack) \ {w} BY EraseLeaves DEF Kept
<1>4. Agrees(k, w, w \in Range(left), w \in flags, w \in vis, S \cup R)
  <2>1. /\ Set(k.flag, w, TRUE) \in S \cup R <=> Set(k.flag, w, TRUE) \in {h} \cup R
        /\ Set(k.flag, w, FALSE) \in S \cup R <=> Set(k.flag, w, FALSE) \in {h} \cup R
        /\ Stmt(k.push, w) \in S \cup R <=> Stmt(k.push, w) \in {h} \cup R
        /\ Stmt(k.remove, w) \in S \cup R => Stmt(k.remove, w) \in {h} \cup R
        /\ Stmt(k.remove, w) \in {h} \cup R
        /\ Set(k.set, w, FALSE) \in {h} \cup R => Set(k.set, w, FALSE) \in S \cup R
        /\ Stmt("CheckCapture", w) \in {h} \cup R => Stmt("CheckCapture", w) \in S \cup R
    BY <1>1 DEF Set, Stmt
  <2>2. w \notin Range(left) BY <1>3
  <2>3. QED BY <1>2, <2>1, <2>2 DEF Agrees
<1>5. h.w = w /\ \A a \in S : a.op \notin {k.remove, k.push, k.flag, "MarkInvalid"}
  BY <1>1 DEF Stmt
<1>6. \A v \in Widget \ {w} : SameAbout(k, v, {h} \cup R, S \cup R)
  BY <1>5, AboutOthers
<1>7. Elsewhere(k, w, {h} \cup R, S \cup R, stack, left, flags, flags, vis, vis)
  BY <1>3, <1>6 DEF Elsewhere
<1>8. QED BY <1>3, <1>4, <1>7, KeptNext

LEMMA PushedLast ==
  ASSUME NEW s \in Seq(Widget), NEW w \in Widget
  PROVE  /\ Append(s, w) \in Seq(Widget) /\ Append(s, w) # <<>>
         /\ Last(Append(s, w)) = w /\ Range(Append(s, w)) = Range(s) \cup {w}
         /\ Unique(s) /\ w \notin Range(s) => Unique(Append(s, w))
<1>1. PICK n \in Nat : n = Len(s) /\ DOMAIN s = 1 .. n BY LenProperties
<1> DEFINE t == Append(s, w)
<1>2. /\ t \in Seq(Widget) /\ Len(t) = n + 1 /\ DOMAIN t = 1 .. n + 1
      /\ \A i \in 1 .. n : t[i] = s[i]
      /\ t[n + 1] = w
  BY <1>1, AppendProperties, LenProperties
<1> HIDE DEF t
<1>3. t # <<>> /\ Last(t) = w BY <1>1, <1>2, EmptySeq DEF Last
<1>4. Range(t) = Range(s) \cup {w}
  <2>1. \A i \in 1 .. n + 1 : t[i] \in Range(s) \cup {w}
    <3>1. \A i \in 1 .. n + 1 : i \in 1 .. n \/ i = n + 1 BY <1>1
    <3>2. QED BY <1>1, <1>2, <3>1 DEF Range
  <2>2. \A i \in 1 .. n : s[i] \in Range(t)
    <3>1. \A i \in 1 .. n : i \in 1 .. n + 1 BY <1>1
    <3>2. QED BY <1>1, <1>2, <3>1 DEF Range
  <2>3. w \in Range(t)
    <3>1. n + 1 \in 1 .. n + 1 BY <1>1
    <3>2. QED BY <1>2, <3>1 DEF Range
  <2>4. QED BY <1>1, <1>2, <2>1, <2>2, <2>3 DEF Range
<1>5. ASSUME Unique(s), w \notin Range(s) PROVE Unique(t)
  <2>1. \A i \in 1 .. n + 1 : i \in 1 .. n \/ i = n + 1 BY <1>1
  <2>2. \A i \in 1 .. n : s[i] # w BY <1>1, <1>5 DEF Range
  <2>3. QED BY <1>1, <1>2, <1>5, <2>1, <2>2 DEF Unique
<1>6. QED BY <1>2, <1>3, <1>4, <1>5 DEF t

LEMMA PushKept ==
  ASSUME NEW k \in Kinds, NEW stack, NEW flags, NEW vis, NEW R, NEW S,
         NEW w \in Widget, NEW h, h = Stmt(k.push, w),
         Kept(k, stack, flags, vis, {h} \cup R), \A a \in S : a.op \in QuietOps,
         OnlyWaits(R, w, {Set(k.flag, w, TRUE)}),
         NEW more, Range(more) = Range(stack) \cup {w},
         w \notin Range(stack) => Unique(more)
  PROVE  Kept(k, more, flags, vis, S \cup R)
<1>1. /\ k.push # k.flag /\ k.remove # k.flag
      /\ "MarkInvalid" \notin QuietOps
      /\ k.remove \notin QuietOps /\ k.push \notin QuietOps /\ k.flag \notin QuietOps
  BY DEF Kinds, Exclusivity, Capturing, QuietOps
<1>2. Agrees(k, w, w \in Range(stack), w \in flags, w \in vis, {h} \cup R) BY DEF Kept
<1>3. Set(k.flag, w, TRUE) \in R /\ w \notin Range(stack) /\ w \in vis /\ w \notin flags
  BY <1>1, <1>2 DEF Agrees, Set, Stmt
<1>4. Unique(more) BY <1>3 DEF Kept
<1>5. Agrees(k, w, w \in Range(more), w \in flags, w \in vis, S \cup R)
  <2>1. /\ Stmt(k.push, w) \notin S \cup R /\ Stmt(k.remove, w) \notin S \cup R
        /\ Set(k.flag, w, FALSE) \notin S \cup R
    BY <1>1, KindWaits DEF OnlyWaits, Set, Stmt
  <2>2. w \in Range(more) OBVIOUS
  <2>3. QED BY <1>3, <2>1, <2>2 DEF Agrees
<1>6. h.w = w /\ \A a \in S : a.op \notin {k.remove, k.push, k.flag, "MarkInvalid"}
  BY <1>1 DEF Stmt
<1>7. \A v \in Widget \ {w} : SameAbout(k, v, {h} \cup R, S \cup R)
  BY <1>6, AboutOthers
<1>8. Elsewhere(k, w, {h} \cup R, S \cup R, stack, more, flags, flags, vis, vis)
  BY <1>7 DEF Elsewhere
<1>9. QED BY <1>4, <1>5, <1>8, KeptNext

LEMMA FlagKept ==
  ASSUME NEW k \in Kinds, NEW stack, NEW flags, NEW vis, NEW R, NEW S, S = {},
         NEW w \in Widget, NEW on \in BOOLEAN, NEW h, h = Set(k.flag, w, on),
         Kept(k, stack, flags, vis, {h} \cup R), on => OnlyWaits(R, w, {}),
         NEW now, now = IF on THEN flags \cup {w} ELSE flags \ {w}
  PROVE  Kept(k, stack, now, vis, S \cup R)
<1>1. /\ k.push # k.flag /\ k.remove # k.flag
      /\ k.flag # "InvalidateTarget"
  BY DEF Kinds, Exclusivity, Capturing
<1>2. Agrees(k, w, w \in Range(stack), w \in flags, w \in vis, {h} \cup R) BY DEF Kept
<1>3. Agrees(k, w, w \in Range(stack), w \in now, w \in vis, S \cup R)
  <2>1. CASE on
    <3>1. /\ Set(k.flag, w, TRUE) \notin R /\ Set(k.flag, w, FALSE) \notin R
          /\ Stmt(k.push, w) \notin R /\ Stmt(k.remove, w) \notin R
      BY <1>1, <2>1, KindWaits DEF OnlyWaits, Set, Stmt
    <3>2. Stmt(k.push, w) # h /\ Set(k.flag, w, TRUE) = h
      BY <1>1, <2>1 DEF Set, Stmt
    <3>3. w \in Range(stack) /\ w \in vis BY <1>2, <3>1, <3>2 DEF Agrees
    <3>4. w \in now BY <2>1
    <3>5. QED BY <3>1, <3>3, <3>4 DEF Agrees
  <2>2. CASE ~on
    <3>1. /\ Stmt(k.push, w) # h /\ Stmt(k.remove, w) # h
          /\ Set(k.flag, w, FALSE) = h /\ Set(k.flag, w, TRUE) # h
      BY <1>1, <2>2 DEF Set, Stmt
    <3>2. w \notin now BY <2>2
    <3>3. w \in Range(stack) => Stmt(k.remove, w) \in R BY <1>2, <3>1 DEF Agrees
    <3>4. QED BY <1>2, <3>1, <3>2, <3>3 DEF Agrees
  <2>3. QED BY <2>1, <2>2
<1>4. h.w = w /\ Unique(stack) BY DEF Set, Kept
<1>5. \A v \in Widget \ {w} : SameAbout(k, v, {h} \cup R, S \cup R)
  BY <1>4, AboutOthers
<1>6. Elsewhere(k, w, {h} \cup R, S \cup R, stack, stack, flags, now, vis, vis)
  BY <1>5 DEF Elsewhere
<1>7. QED BY <1>3, <1>4, <1>6, KeptNext

\* The widget is destroyed.
LEMMA DeadKept ==
  ASSUME NEW k \in Kinds, NEW stack, NEW flags, NEW vis, NEW R, NEW S, NEW h,
         NEW w \in Widget, Kept(k, stack, flags, vis, {h} \cup R),
         h.w = w, h.op \in {"MarkInvalid", "InvalidateTarget"},
         \A b \in R : b.w = w => b.op \notin Switching,
         \A a \in S : a.op \notin {k.push, k.flag, "MarkInvalid"} /\ (a.op = k.remove => a.w = w),
         Leaving(w, S \cup R) \/ Stmt(k.remove, w) \in S \cup R
  PROVE  Kept(k, stack, flags \ {w}, vis \ {w}, S \cup R)
<1>1. k.push \in Switching /\ k.flag \in Switching BY KindWaits
<1>2. Agrees(k, w, w \in Range(stack), FALSE, FALSE, S \cup R)
  <2>1. /\ Set(k.flag, w, TRUE) \notin S \cup R /\ Set(k.flag, w, FALSE) \notin S \cup R
        /\ Stmt(k.push, w) \notin S \cup R
    BY <1>1 DEF Set, Stmt
  <2>2. QED BY <2>1 DEF Agrees
<1>3. (w \in flags \ {w}) = FALSE /\ (w \in vis \ {w}) = FALSE OBVIOUS
<1>4. Agrees(k, w, w \in Range(stack), w \in flags \ {w}, w \in vis \ {w}, S \cup R)
  BY <1>2, <1>3
<1>5. \A v \in Widget \ {w} : SameAbout(k, v, {h} \cup R, S \cup R)
  BY AboutOthers
<1>6. Unique(stack) BY DEF Kept
<1>7. Elsewhere(k, w, {h} \cup R, S \cup R, stack, stack, flags, flags \ {w},
                vis, vis \ {w})
  BY <1>5 DEF Elsewhere
<1>8. QED BY <1>4, <1>6, <1>7, KeptNext

(***************************************************************************)
(* The head of todo, and what replaces it.                                 *)
(***************************************************************************)

LEMMA StmtIs ==
  ASSUME NEW op \in Statements, NEW w \in Widget
  PROVE  /\ Stmt(op, w) \in Stmts /\ Stmt(op, w) = Set(op, w, FALSE)
         /\ Stmt(op, w).op = op /\ Stmt(op, w).w = w /\ Stmt(op, w).on = FALSE
BY DEF Stmt, Set, Stmts

LEMMA SetIs ==
  ASSUME NEW op \in Statements, NEW w \in Widget, NEW on \in BOOLEAN
  PROVE  /\ Set(op, w, on) \in Stmts
         /\ Set(op, w, on).op = op /\ Set(op, w, on).w = w /\ Set(op, w, on).on = on
BY DEF Set, Stmts

LEMMA NoneAre == <<>> \in Seq(Stmts) /\ Range(<<>>) = {}
BY DEF Range

LEMMA OneIs ==
  ASSUME NEW a \in Stmts
  PROVE  <<a>> \in Seq(Stmts) /\ Range(<<a>>) = {a}
BY DEF Range

LEMMA TwoAre ==
  ASSUME NEW a \in Stmts, NEW b \in Stmts
  PROVE  <<a, b>> \in Seq(Stmts) /\ Range(<<a, b>>) = {a, b}
BY DEF Range

LEMMA ThreeAre ==
  ASSUME NEW a \in Stmts, NEW b \in Stmts, NEW c \in Stmts
  PROVE  <<a, b, c>> \in Seq(Stmts) /\ Range(<<a, b, c>>) = {a, b, c}
BY DEF Range

LEMMA Joined ==
  ASSUME NEW s \in Seq(Stmts), NEW t \in Seq(Stmts)
  PROVE  s \o t \in Seq(Stmts) /\ Range(s \o t) = Range(s) \cup Range(t)
BY ConcatProperties, RangeConcatenation

LEMMA HeadIs ==
  ASSUME IInv, NEW op, NEW w, At(op, w)
  PROVE  /\ Head(todo) \in Pending /\ Head(todo) \in Stmts /\ w \in Widget /\ op \in Statements
         /\ Head(todo) = Set(op, w, Head(todo).on)
         /\ op \notin Switches => Head(todo) = Stmt(op, w)
<1>1. todo \in Seq(Stmts) /\ todo # <<>> /\ Head(todo).op = op /\ Head(todo).w = w
  BY DEF IInv, Forms, TypeOK, Stmts, At
<1>2. Head(todo) \in Stmts BY <1>1, HeadTailProperties
<1>3. Head(todo) \in Pending
  <2>1. 1 \in DOMAIN todo /\ Head(todo) = todo[1] BY <1>1, LenProperties, EmptySeq
  <2>2. QED BY <2>1 DEF Pending, Range
<1>4. StmtOK(Head(todo)) BY <1>3 DEF IInv, Forms
<1>5. QED BY <1>1, <1>2, <1>3, <1>4 DEF Stmts, Set, Stmt, StmtOK

\* The statement at the head is no switch, and is replaced.
LEMMA StepIs ==
  ASSUME IInv, NEW op, op \notin Switches, NEW w, At(op, w),
         NEW s \in Seq(Stmts), Then(s)
  PROVE  /\ Does(Stmt(op, w), s)
         /\ Stmt(op, w) \in Pending
         /\ w \in Widget /\ op \in Statements
         /\ StmtOK(Stmt(op, w)) /\ HandOK(Stmt(op, w))
         /\ todo \in Seq(Stmts) /\ todo' \in Seq(Stmts)
         /\ Rest \subseteq Stmts /\ Range(s) \subseteq Stmts
         /\ Pending = {Stmt(op, w)} \cup Rest
         /\ Pending' = Range(s) \cup Rest
         /\ calls' \in 0 .. MaxCalls
<1>1. /\ Head(todo) = Stmt(op, w) /\ Stmt(op, w) \in Pending /\ w \in Widget
      /\ op \in Statements
  BY HeadIs
<1>2. Does(Stmt(op, w), s) BY <1>1 DEF Does, At, Then
<1>3. todo \in Seq(Stmts) BY DEF IInv, Forms, TypeOK, Stmts
<1>4. StmtOK(Stmt(op, w)) /\ HandOK(Stmt(op, w))
  BY <1>1 DEF IInv, Forms, FocusInv
<1>5. calls' \in 0 .. MaxCalls BY DEF IInv, Forms, TypeOK, Then
<1>6. QED BY <1>1, <1>2, <1>3, <1>4, <1>5, DoesIs

LEMMA SwitchIs ==
  ASSUME IInv, NEW op, NEW w, NEW on \in BOOLEAN, AtSet(op, w, on),
         NEW s \in Seq(Stmts), Then(s)
  PROVE  /\ Does(Set(op, w, on), s)
         /\ Set(op, w, on) \in Pending
         /\ w \in Widget /\ op \in Statements
         /\ StmtOK(Set(op, w, on))
         /\ todo \in Seq(Stmts) /\ todo' \in Seq(Stmts)
         /\ Rest \subseteq Stmts /\ Range(s) \subseteq Stmts
         /\ Pending = {Set(op, w, on)} \cup Rest
         /\ Pending' = Range(s) \cup Rest
         /\ calls' \in 0 .. MaxCalls
<1>1. /\ Head(todo) = Set(op, w, on) /\ Set(op, w, on) \in Pending /\ w \in Widget
      /\ op \in Statements
  BY HeadIs DEF AtSet
<1>2. Does(Set(op, w, on), s) BY <1>1 DEF Does, At, AtSet, Then
<1>3. todo \in Seq(Stmts) BY DEF IInv, Forms, TypeOK, Stmts
<1>4. StmtOK(Set(op, w, on)) BY <1>1 DEF IInv, Forms
<1>5. calls' \in 0 .. MaxCalls BY DEF IInv, Forms, TypeOK, Then
<1>6. QED BY <1>1, <1>2, <1>3, <1>4, <1>5, DoesIs

\* What an operation on a widget may rely on.
LEMMA Known ==
  ASSUME IInv
  PROVE  /\ TypeOK /\ InOrder /\ TreeInv /\ TreeOK /\ FlagsOK /\ FocusInv /\ StackInv
         /\ crashed = FALSE
BY DEF IInv, Forms, TreeInv, TypeOK, NoNullContext

LEMMA KnownOf ==
  ASSUME IInv, NEW w \in Widget
  PROVE  /\ WidgetOK(w)
         /\ parent[w] # None => parent[w] \in Widget
         /\ w \in shown \cup captures \cup exclusives => Valid(w)
BY DEF IInv, Forms, TreeInv, TypeOK, OrNone, FlagsOK

LEMMA StatusSame ==
  ASSUME IInv, UNCHANGED status
  PROVE  SameStatus
BY DEF IInv, Forms, TypeOK, SameStatus

\* Statements that may be asked for at any time.
Fit(a) == a \in Stmts /\ Quiet(a) /\ StmtOK(a) /\ HandOK(a)
AllFit(s) == s \in Seq(Stmts) /\ \A a \in Range(s) : Fit(a)

LEMMA FitNone == AllFit(<<>>)
BY NoneAre DEF AllFit

LEMMA FitOne ==
  ASSUME NEW a, Fit(a)
  PROVE  AllFit(<<a>>)
BY OneIs DEF Fit, AllFit

LEMMA FitWhen ==
  ASSUME NEW c, NEW s, c => AllFit(s)
  PROVE  AllFit(When(c, s))
BY FitNone DEF When

LEMMA FitJoined ==
  ASSUME NEW s, NEW t, AllFit(s), AllFit(t)
  PROVE  AllFit(s \o t)
BY Joined DEF AllFit

LEMMA FitStmt ==
  ASSUME NEW op \in {"Send", "Handling", "SetFocus", "SetFocusInput", "SetActive",
                     "PutActive", "FlagDestroyed", "SendDestroy", "CheckCapture"},
         NEW w \in Widget,
         op \in {"SetActive", "PutActive"} => Valid(w),
         op = "SetFocusInput" => Held(w)
  PROVE  Fit(Stmt(op, w))
<1>1. op \in Statements BY DEF Statements, Operations
<1>2. op \notin Kills \cup {"ApplyTop", "Refocus", "SetVisible", "FocusParent"}
  BY DEF Kills
<1>3. op \in QuietOps \ {"SetVisible", "Destroy"} BY DEF QuietOps
<1>4. QED BY <1>1, <1>2, <1>3, StmtIs DEF Fit, Quiet, StmtOK, HandOK

LEMMA FitRoot ==
  ASSUME NEW op \in {"ApplyTop", "Refocus"}
  PROVE  Fit(Stmt(op, Root))
<1>1. op \in Statements /\ op \in QuietOps \ {"SetVisible", "Destroy"} /\ op \notin Kills
  BY DEF Statements, Operations, QuietOps, Kills
<1>2. Root \in Widget BY WidgetAssumption
<1>3. QED BY <1>1, <1>2, StmtIs DEF Fit, Quiet, StmtOK, HandOK

\* A quiet step that replaces the head and leaves all but the focus as it was.
LEMMA QuietDoes ==
  ASSUME IInv, NEW h, NEW s, Does(h, s), AllFit(s), h.op \in QuietOps,
         h.op = "Destroy" => h.w \in Widget /\ ~Valid(h.w),
         UNCHANGED <<widgetVars, stackVars>>, calls' \in 0 .. MaxCalls, crashed' = FALSE,
         focus' \in {focus, None} \/ (focus' \in Widget /\ Held(focus')),
         active' \in {active, None} \/ (active' \in Widget /\ Held(active')),
         GivesUp(h, Range(s) \cup Rest, Exclusivity, exclusives),
         GivesUp(h, Range(s) \cup Rest, Capturing, captures)
  PROVE  IInv'
<1>1. todo \in Seq(Stmts) /\ InOrder /\ SameStatus
  BY Known, StatusSame DEF TypeOK, Stmts, widgetVars
<1>2. /\ todo' \in Seq(Stmts) /\ Range(s) \subseteq Stmts
      /\ Pending = {h} \cup Rest /\ Pending' = Range(s) \cup Rest
  BY <1>1, DoesIs
<1>3. InOrder'
  <2>1. \A v \in Widget : Valid(v)' => Valid(v) BY <1>1, SameValid
  <2>2. TreeOK /\ \A a \in Range(s) : Quiet(a) BY Known DEF AllFit, Fit
  <2>3. UNCHANGED parent BY DEF widgetVars
  <2>4. QED BY <1>1, <2>1, <2>2, <2>3, QuietOrder
<1>4. \A a \in Range(s) : a.op \in QuietOps /\ StmtOK(a) /\ HandOK(a)
  BY DEF AllFit, Fit, Quiet
<1>5. UNCHANGED <<parent, shown, captures, exclusives, stackVars>> BY DEF widgetVars
<1>6. GivesUp(h, Pending', Exclusivity, exclusives)
  BY <1>2 DEF GivesUp
<1>7. GivesUp(h, Pending', Capturing, captures)
  BY <1>2 DEF GivesUp
<1>8. Pending \subseteq {h} \cup Pending' /\ Pending' \subseteq Pending \cup Range(s)
  BY <1>2
<1>9. QED BY <1>1, <1>2, <1>3, <1>4, <1>5, <1>6, <1>7, <1>8, QuietStep

(***************************************************************************)
(* The quiet steps.                                                        *)
(***************************************************************************)

LEMMA NothingToGive ==
  ASSUME NEW h, NEW N, NEW k \in Kinds, NEW flags,
         h.op \notin {"CheckCapture", "SetCapture", "SetExclusive"}
  PROVE  GivesUp(h, N, k, flags)
BY DEF GivesUp, Kinds, Exclusivity, Capturing, Stmt, Set

LEMMA CalmStep ==
  ASSUME IInv, NEW w, NEW s, AllFit(s), Then(s),
         NEW op \in QuietOps \ (Switches \cup {"CheckCapture", "Destroy"}), At(op, w),
         UNCHANGED <<widgetVars, stackVars>>, crashed' = FALSE,
         focus' \in {focus, None} \/ (focus' \in Widget /\ Held(focus')),
         active' \in {active, None} \/ (active' \in Widget /\ Held(active'))
  PROVE  IInv'
<1>1. Does(Stmt(op, w), s) /\ calls' \in 0 .. MaxCalls BY StepIs DEF AllFit
<1>2. Stmt(op, w).op = op BY DEF Stmt
<1>3. op \notin {"CheckCapture", "SetCapture", "SetExclusive"} /\ op # "Destroy"
  BY DEF Switches
<1>4. /\ GivesUp(Stmt(op, w), Range(s) \cup Rest, Exclusivity, exclusives)
      /\ GivesUp(Stmt(op, w), Range(s) \cup Rest, Capturing, captures)
  BY <1>2, <1>3, NothingToGive DEF Kinds
<1>5. QED BY <1>1, <1>2, <1>3, <1>4, QuietDoes

\* Nothing is asked for, and nothing changes.
LEMMA SkipStep ==
  ASSUME IInv, NEW w, NEW op \in QuietOps \ (Switches \cup {"CheckCapture", "Destroy"}),
         At(op, w), Skip
  PROVE  IInv'
<1>1. crashed = FALSE BY Known
<1>2. QED BY <1>1, FitNone, CalmStep DEF Skip, focusVars

LEMMA SendStep ==
  ASSUME IInv, NEW w, Send(w)
  PROVE  IInv'
BY SkipStep DEF Send, QuietOps, Switches

LEMMA HandlerReturnsStep ==
  ASSUME IInv, NEW w, HandlerReturns(w)
  PROVE  IInv'
BY SkipStep DEF HandlerReturns, QuietOps, Switches

LEMMA SetFocusStep ==
  ASSUME IInv, NEW w, SetFocus(w)
  PROVE  IInv'
<1> DEFINE s == When(Valid(w), <<Stmt("SetFocusInput", w)>>)
<1>1. At("SetFocus", w) /\ Then(s) /\ UNCHANGED <<widgetVars, focusVars, stackVars, crashed>>
  BY DEF SetFocus
<1>2. w \in Widget /\ crashed = FALSE BY <1>1, HeadIs, Known
<1>3. Valid(w) => Fit(Stmt("SetFocusInput", w)) BY <1>2, FitStmt DEF Held
<1>4. AllFit(s) BY <1>3, FitOne, FitWhen
<1>5. "SetFocus" \in QuietOps \ (Switches \cup {"CheckCapture", "Destroy"})
  BY DEF QuietOps, Switches
<1> HIDE DEF s
<1>6. QED BY <1>1, <1>2, <1>4, <1>5, CalmStep DEF focusVars

LEMMA SetFocusInputStep ==
  ASSUME IInv, NEW w, SetFocusInput(w)
  PROVE  IInv'
<1>0. "SetFocusInput" \in QuietOps \ (Switches \cup {"CheckCapture", "Destroy"})
  BY DEF QuietOps, Switches
<1>1. CASE Skip BY <1>0, <1>1, SkipStep DEF SetFocusInput
<1>2. CASE ~Skip
  <2> DEFINE new == FocusTarget(w)
             act == FocusActivate(new)
             s1 == When(OK(new) /\ OK(act), <<Stmt("SetActive", act)>>)
             s2 == When(OK(focus), <<Stmt("Send", focus)>>)
             s3 == <<Stmt("Send", new)>>
             s == s1 \o s2 \o s3
  <2>1. /\ focus' = new /\ Then(s) /\ UNCHANGED <<widgetVars, active, stackVars, crashed>>
        /\ At("SetFocusInput", w)
    BY <1>2 DEF SetFocusInput
  <2>2. w \in Widget /\ Stmt("SetFocusInput", w) \in Pending
    BY <2>1, HeadIs DEF Switches
  <2>3. TreeOK /\ TreeInv /\ FocusInv /\ TypeOK /\ crashed = FALSE BY Known
  <2>4. Held(w) BY <2>2, <2>3 DEF FocusInv, HandOK, Stmt
  <2>5. new \in Path(w) /\ new \in Widget /\ act \in Widget \cup {None}
    BY <2>2, <2>3, FocusIsAbove, PathIs
  <2>6. Held(new)
    <3>1. CASE new # w
      <4>1. PICK c \in Path(w) : parent[c] = new BY <2>2, <2>3, <2>5, <3>1, PathDown
      <4>2. c \in Widget /\ new # None BY <2>2, <2>5, PathIs, WidgetAssumption
      <4>3. WidgetOK(c) BY <2>3, <4>2 DEF TreeInv
      <4>4. QED BY <4>1, <4>2, <4>3 DEF WidgetOK, Held
    <3>2. QED BY <2>4, <3>1
  <2> HIDE DEF new, act
  <2>7. AllFit(s1)
    <3>1. OK(new) /\ OK(act) => Fit(Stmt("SetActive", act)) BY <2>5, FitStmt DEF OK
    <3>2. QED BY <3>1, FitOne, FitWhen
  <2>8. AllFit(s2)
    <3>1. OK(focus) => Fit(Stmt("Send", focus))
      BY <2>3, FitStmt DEF OK, TypeOK, OrNone
    <3>2. QED BY <3>1, FitOne, FitWhen
  <2>9. AllFit(s3) BY <2>5, FitOne, FitStmt
  <2> HIDE DEF s1, s2, s3
  <2>10. AllFit(s) BY <2>7, <2>8, <2>9, FitJoined
  <2> HIDE DEF s
  <2>11. QED BY <1>0, <2>1, <2>3, <2>5, <2>6, <2>10, CalmStep
<1>3. QED BY <1>1, <1>2

LEMMA SetActiveStep ==
  ASSUME IInv, NEW w, SetActive(w)
  PROVE  IInv'
<1> DEFINE s1 == When(OK(active), <<Stmt("Send", active)>>)
           s2 == <<Stmt("PutActive", w)>>
           s == When(active # w, s1 \o s2)
<1>1. At("SetActive", w) /\ Then(s) /\ UNCHANGED <<widgetVars, focusVars, stackVars, crashed>>
  BY DEF SetActive
<1>2. w \in Widget /\ Stmt("SetActive", w) \in Pending BY <1>1, HeadIs DEF Switches
<1>3. TypeOK /\ FocusInv /\ crashed = FALSE BY Known
<1>4. Valid(w) BY <1>2, <1>3 DEF FocusInv, HandOK, Stmt
<1>5. AllFit(s1)
  <2>1. OK(active) => Fit(Stmt("Send", active))
    BY <1>3, FitStmt DEF OK, TypeOK, OrNone
  <2>2. QED BY <2>1, FitOne, FitWhen
<1>6. AllFit(s2) BY <1>2, <1>4, FitOne, FitStmt
<1> HIDE DEF s1, s2
<1>7. AllFit(s) BY <1>5, <1>6, FitJoined, FitWhen
<1>8. "SetActive" \in QuietOps \ (Switches \cup {"CheckCapture", "Destroy"})
  BY DEF QuietOps, Switches
<1> HIDE DEF s
<1>9. QED BY <1>1, <1>3, <1>7, <1>8, CalmStep DEF focusVars

LEMMA PutActiveStep ==
  ASSUME IInv, NEW w, PutActive(w)
  PROVE  IInv'
<1>1. /\ At("PutActive", w) /\ active' = w /\ Then(<<Stmt("Send", w)>>)
      /\ UNCHANGED <<widgetVars, focus, stackVars, crashed>>
  BY DEF PutActive
<1>2. w \in Widget /\ Stmt("PutActive", w) \in Pending BY <1>1, HeadIs DEF Switches
<1>3. FocusInv /\ crashed = FALSE BY Known
<1>4. Held(w) BY <1>2, <1>3 DEF FocusInv, HandOK, Stmt, Held
<1>5. AllFit(<<Stmt("Send", w)>>) BY <1>2, FitOne, FitStmt
<1>6. "PutActive" \in QuietOps \ (Switches \cup {"CheckCapture", "Destroy"})
  BY DEF QuietOps, Switches
<1>7. QED BY <1>1, <1>2, <1>3, <1>4, <1>5, <1>6, CalmStep

LEMMA CheckCaptureStep ==
  ASSUME IInv, NEW w, CheckCapture(w)
  PROVE  IInv'
<1> DEFINE a == Set("SetCapture", w, FALSE)
           b == Set("SetExclusive", w, FALSE)
           c == Stmt("FocusParent", w)
           s == When(Valid(w) /\ w \notin shown, <<a, b, c>>)
           h == Stmt("CheckCapture", w)
<1>1. At("CheckCapture", w) /\ Then(s) /\ UNCHANGED <<widgetVars, focusVars, stackVars, crashed>>
  BY DEF CheckCapture
<1>2. w \in Widget /\ crashed = FALSE BY <1>1, HeadIs, Known
<1>3. w \notin shown => w # Root BY Known DEF TreeInv
<1>4. Fit(a) /\ Fit(b)
  <2>1. /\ "SetCapture" \in Statements /\ "SetExclusive" \in Statements
        /\ "SetCapture" \in QuietOps \ {"SetVisible", "Destroy"}
        /\ "SetExclusive" \in QuietOps \ {"SetVisible", "Destroy"}
        /\ "SetCapture" \notin Kills /\ "SetExclusive" \notin Kills
    BY DEF Statements, Operations, QuietOps, Kills
  <2>2. QED BY <1>2, <2>1, SetIs DEF Fit, Quiet, StmtOK, HandOK
<1>5. Valid(w) /\ w \notin shown => Fit(c)
  <2>1. /\ "FocusParent" \in Statements /\ "FocusParent" \notin Kills
        /\ "FocusParent" \in QuietOps \ {"SetVisible", "Destroy"}
    BY DEF Statements, Operations, QuietOps, Kills
  <2>2. QED BY <1>2, <1>3, <2>1, StmtIs DEF Fit, Quiet, StmtOK, HandOK
<1> HIDE DEF a, b, c
<1>6. Valid(w) /\ w \notin shown => AllFit(<<a, b, c>>) /\ Range(<<a, b, c>>) = {a, b, c}
  BY <1>4, <1>5, ThreeAre DEF AllFit, Fit
<1>7. AllFit(s) BY <1>6, FitWhen
<1>8. Valid(w) /\ w \notin shown => a \in Range(s) /\ b \in Range(s)
  BY <1>6 DEF When
<1> HIDE DEF s
<1>9. Does(h, s) /\ calls' \in 0 .. MaxCalls BY <1>1, <1>7, StepIs DEF Switches, AllFit
<1>10. h.op = "CheckCapture" /\ "CheckCapture" \in QuietOps BY DEF Stmt, QuietOps
<1>11. ASSUME NEW v \in Widget, v \notin shown, v \in captures \cup exclusives,
              h = Stmt("CheckCapture", v)
       PROVE  Set("SetCapture", v, FALSE) \in Range(s) /\ Set("SetExclusive", v, FALSE) \in Range(s)
  <2>1. v = w BY <1>11 DEF Stmt
  <2>2. Valid(v) BY <1>11, KnownOf
  <2>3. QED BY <1>8, <1>11, <2>1, <2>2 DEF a, b
<1>12. captures \subseteq Widget /\ exclusives \subseteq Widget BY Known DEF TypeOK
<1>13. Exclusivity.set = "SetExclusive" /\ Capturing.set = "SetCapture"
  BY DEF Exclusivity, Capturing
<1>14. \A v : h # Set("SetExclusive", v, FALSE) /\ h # Set("SetCapture", v, FALSE)
  BY <1>10 DEF Set
<1> HIDE DEF h
<1>15. /\ GivesUp(h, Range(s) \cup Rest, Exclusivity, exclusives)
       /\ GivesUp(h, Range(s) \cup Rest, Capturing, captures)
  BY <1>11, <1>12, <1>13, <1>14 DEF GivesUp
<1>16. QED
  BY <1>1, <1>2, <1>7, <1>9, <1>10, <1>15, QuietDoes DEF focusVars

LEMMA FocusParentStep ==
  ASSUME IInv, NEW w, FocusParent(w)
  PROVE  IInv'
<1> DEFINE s == When(focus = w /\ parent[w] # None, <<Stmt("SetFocusInput", parent[w])>>)
<1>1. /\ At("FocusParent", w) /\ Then(s) /\ UNCHANGED <<widgetVars, focusVars, stackVars>>
      /\ crashed' = (crashed \/ status[w] = "gone" \/ (focus = w /\ parent[w] = None))
  BY DEF FocusParent
<1>2. /\ w \in Widget /\ Stmt("FocusParent", w) \in Pending
      /\ Stmt("FocusParent", w).op = "FocusParent" /\ Stmt("FocusParent", w).w = w
  BY <1>1, HeadIs DEF Switches, Stmt
<1>3. Valid(w) /\ w # Root BY <1>2, Known DEF FocusInv, HandOK, IInv, Forms, StmtOK
<1>4. parent[w] # None /\ parent[w] \in Widget
  BY <1>2, <1>3, KnownOf, WidgetAssumption DEF WidgetOK
<1>5. Held(parent[w]) BY <1>2, <1>4, KnownOf DEF WidgetOK, Held
<1>6. crashed' = FALSE BY <1>1, <1>3, <1>4, Known DEF Valid
<1>7. AllFit(s) BY <1>4, <1>5, FitStmt, FitOne, FitWhen
<1>8. "FocusParent" \in QuietOps \ (Switches \cup {"CheckCapture", "Destroy"})
  BY DEF QuietOps, Switches
<1> HIDE DEF s
<1>9. QED BY <1>1, <1>6, <1>7, <1>8, CalmStep DEF focusVars

LEMMA ApplyTopStep ==
  ASSUME IInv, ApplyTop
  PROVE  IInv'
<1> DEFINE a == Stmt("SetFocusInput", top)
           b == Stmt("CheckCapture", top)
           s == When(Valid(top), <<a, b>>)
<1>1. At("ApplyTop", Root) /\ Then(s) /\ UNCHANGED <<widgetVars, focusVars, stackVars, crashed>>
  BY DEF ApplyTop
<1>2. top \in Widget /\ crashed = FALSE BY Known DEF TypeOK
<1>3. Valid(top) => Fit(a) /\ Fit(b) BY <1>2, FitStmt DEF Held
<1> HIDE DEF a, b
<1>4. AllFit(s)
  <2>1. Valid(top) => AllFit(<<a, b>>) BY <1>3, TwoAre DEF AllFit, Fit
  <2>2. QED BY <2>1, FitWhen
<1>5. "ApplyTop" \in QuietOps \ (Switches \cup {"CheckCapture", "Destroy"})
  BY DEF QuietOps, Switches
<1> HIDE DEF s
<1>6. QED BY <1>1, <1>2, <1>4, <1>5, CalmStep DEF focusVars

LEMMA RefocusStep ==
  ASSUME IInv, NEW v \in Widget, Refocus(v)
  PROVE  IInv'
<1> DEFINE s == When(Valid(v), <<Stmt("SetFocusInput", v)>>)
<1>1. At("Refocus", Root) /\ Then(s) /\ UNCHANGED <<widgetVars, focusVars, stackVars, crashed>>
  BY DEF Refocus
<1>2. crashed = FALSE BY Known
<1>3. Valid(v) => Fit(Stmt("SetFocusInput", v)) BY FitStmt DEF Held
<1>4. AllFit(s) BY <1>3, FitOne, FitWhen
<1>5. "Refocus" \in QuietOps \ (Switches \cup {"CheckCapture", "Destroy"})
  BY DEF QuietOps, Switches
<1> HIDE DEF s
<1>6. QED BY <1>1, <1>2, <1>4, <1>5, CalmStep DEF focusVars

LEMMA FitForAll ==
  ASSUME NEW S \in SUBSET Widget, NEW op \in {"Send", "SendDestroy"}, NEW q,
         q = [i \in DOMAIN SetToSeq(S) |-> Stmt(op, SetToSeq(S)[i])]
  PROVE  AllFit(q)
<1>1. op \in Statements BY DEF Statements, Operations
<1>2. q \in Seq(Stmts) /\ Range(q) = {Stmt(op, v) : v \in S} BY <1>1, StatementsFor
<1>3. \A v \in S : Fit(Stmt(op, v)) BY FitStmt
<1>4. QED BY <1>2, <1>3 DEF AllFit

LEMMA SendDestroyStep ==
  ASSUME IInv, NEW w, SendDestroy(w)
  PROVE  IInv'
<1> DEFINE told == Children(w)
           s1 == [i \in DOMAIN told |-> Stmt("SendDestroy", told[i])]
           s2 == When(status[w] = "alive", <<Stmt("Send", w), Stmt("FlagDestroyed", w)>>)
           s == s1 \o s2
<1>1. At("SendDestroy", w) /\ Then(s) /\ UNCHANGED <<widgetVars, focusVars, stackVars, crashed>>
  BY DEF SendDestroy
<1>2. w \in Widget /\ crashed = FALSE BY <1>1, HeadIs, Known
<1>3. AllFit(s1) BY FitForAll DEF Children
<1>4. AllFit(s2)
  <2>1. Fit(Stmt("Send", w)) /\ Fit(Stmt("FlagDestroyed", w)) BY <1>2, FitStmt
  <2>2. AllFit(<<Stmt("Send", w), Stmt("FlagDestroyed", w)>>) BY <2>1, TwoAre DEF AllFit, Fit
  <2>3. QED BY <2>2, FitWhen
<1> HIDE DEF s1, s2
<1>5. AllFit(s) BY <1>3, <1>4, FitJoined
<1>6. "SendDestroy" \in QuietOps \ (Switches \cup {"CheckCapture", "Destroy"})
  BY DEF QuietOps, Switches
<1> HIDE DEF s
<1>7. QED BY <1>1, <1>2, <1>5, <1>6, CalmStep DEF focusVars

LEMMA FlagDestroyedStep ==
  ASSUME IInv, NEW w, FlagDestroyed(w)
  PROVE  IInv'
<1> DEFINE h == Stmt("FlagDestroyed", w)
<1>1. /\ At("FlagDestroyed", w) /\ Then(<<>>)
      /\ status' = [status EXCEPT ![w] = IF @ = "alive" THEN "destroyed" ELSE @]
      /\ UNCHANGED <<parent, shown, captures, exclusives, focusVars, stackVars, crashed>>
  BY DEF FlagDestroyed
<1>2. /\ Does(h, <<>>) /\ calls' \in 0 .. MaxCalls /\ todo' \in Seq(Stmts)
      /\ Pending = {h} \cup Rest /\ Pending' = Rest
      /\ todo \in Seq(Stmts)
  BY <1>1, StepIs, NoneAre DEF Switches
<1>3. TypeOK /\ InOrder /\ crashed = FALSE BY Known
<1>4. SameStatus BY <1>1, <1>3 DEF SameStatus, TypeOK
<1>5. InOrder'
  <2>1. \A v \in Widget : Valid(v)' => Valid(v) BY <1>4, SameValid
  <2>2. TreeOK BY Known
  <2>3. QED BY <1>1, <1>2, <1>3, <2>1, <2>2, QuietOrder, NoneAre
<1>6. h.op = "FlagDestroyed" /\ "FlagDestroyed" \in QuietOps BY DEF Stmt, QuietOps
<1>7. /\ GivesUp(h, Pending', Exclusivity, exclusives)
      /\ GivesUp(h, Pending', Capturing, captures)
  BY <1>6, NothingToGive DEF Kinds
<1>8. Pending \subseteq {h} \cup Pending' /\ Pending' \subseteq Pending \cup {} BY <1>2
<1>9. {} \in SUBSET Stmts /\ \A a \in {} : a.op \in QuietOps /\ StmtOK(a) /\ HandOK(a)
  OBVIOUS
<1> HIDE DEF h
<1>10. QED
  BY <1>1, <1>2, <1>3, <1>4, <1>5, <1>6, <1>7, <1>8, <1>9, QuietStep DEF focusVars

\* Nothing is done: the call was of no use.
LEMMA NoCallStep ==
  ASSUME IInv, NEW op \in {"SetVisible", "SetCapture", "SetExclusive"}, NEW w,
         NEW on \in BOOLEAN, AtSet(op, w, on), Skip,
         op = "SetCapture" /\ ~on => w \notin captures,
         op = "SetExclusive" /\ ~on => w \notin exclusives
  PROVE  IInv'
<1> DEFINE h == Set(op, w, on)
<1>1. Then(<<>>) /\ UNCHANGED <<widgetVars, focusVars, stackVars, crashed>> BY DEF Skip
<1>2. Does(h, <<>>) /\ calls' \in 0 .. MaxCalls BY <1>1, NoneAre, SwitchIs
<1>3. crashed = FALSE BY Known
<1>4. h.op = op /\ op \in QuietOps /\ op # "Destroy" BY DEF Set, QuietOps
<1>5. GivesUp(h, Range(<<>>) \cup Rest, Exclusivity, exclusives)
  BY DEF GivesUp, Exclusivity, Set, Stmt
<1>6. GivesUp(h, Range(<<>>) \cup Rest, Capturing, captures)
  BY DEF GivesUp, Capturing, Set, Stmt
<1> HIDE DEF h
<1>7. QED BY <1>1, <1>2, <1>3, <1>4, <1>5, <1>6, FitNone, QuietDoes DEF focusVars

(***************************************************************************)
(* Calls, by the program and by handlers.                                  *)
(***************************************************************************)

LEMMA CallIs ==
  ASSUME NEW call \in Calls, call.op # "SetFocus" => call.w # Root
  PROVE  /\ call \in Stmts /\ call.w \in Widget
         /\ call.op \in Operations /\ call.op \in QuietOps
         /\ call.op \in {"Destroy", "SetFocus"} => ~call.on
         /\ StmtOK(call) /\ HandOK(call)
<1>1. /\ call \in Stmts /\ call.w \in Widget /\ call.on \in BOOLEAN
      /\ call.op \in Operations
      /\ call.op \in {"Destroy", "SetFocus"} => ~call.on
  BY DEF Calls, Stmts, Statements
<1>2. call.op \in QuietOps BY <1>1 DEF Operations, QuietOps
<1>3. StmtOK(call) BY <1>1 DEF StmtOK, Switches, Kills, Operations
<1>4. HandOK(call) BY <1>1 DEF HandOK, Operations
<1>5. QED BY <1>1, <1>2, <1>3, <1>4

LEMMA RestWaits ==
  ASSUME todo \in Seq(Stmts), todo # <<>>, NEW b \in Rest, NEW ops, b.op \in ops
  PROVE  b.w \in Waits(ops)
<1>1. PICK n \in Nat \ {0} : n = Len(todo) /\ DOMAIN todo = 1 .. n
  BY LenProperties, EmptySeq
<1>2. /\ Tail(todo) \in Seq(Stmts) /\ Len(Tail(todo)) = n - 1
      /\ \A i \in 1 .. n - 1 : Tail(todo)[i] = todo[i + 1]
  BY <1>1, HeadTailProperties
<1>3. DOMAIN Tail(todo) = 1 .. n - 1 BY <1>2, LenProperties
<1>4. PICK i \in 1 .. n - 1 : b = Tail(todo)[i] BY <1>3 DEF Rest, Range
<1>5. i + 1 \in 2 .. Len(todo) /\ b = todo[i + 1] BY <1>1, <1>2, <1>4
<1>6. QED BY <1>5 DEF Waits

\* A careful handler does not destroy a widget above one that is being destroyed.
LEMMA CallMayFollow ==
  ASSUME IInv, Careful, NEW op \in {"Send", "Handling"}, NEW w,
         NEW s, Does(Stmt(op, w), s),
         NEW call \in Calls, Allowed(call), NEW b \in Rest
  PROVE  MayFollow(call, b)
<1>1. /\ TreeOK /\ TreeInv /\ InOrder /\ todo \in Seq(Stmts) /\ todo # <<>>
  BY Known DEF TypeOK, Stmts, Does
<1>2. Late(b) BY <1>1, RestFollows DEF MayFollow
<1>3. /\ b \in Stmts /\ b.w \in Widget /\ Pending = {Stmt(op, w)} \cup Rest
  BY <1>1, DoesIs DEF Stmts
<1>4. /\ call.w \in Widget /\ call.op \in Operations
      /\ call.op \in {"Destroy", "SetFocus"} => ~call.on
  BY DEF Calls
<1>5. CASE call.op = "Destroy"
  <2>1. \A v \in Waits(Firm) : call.w \notin Path(v) BY <1>5 DEF Allowed, Firm
  <2>2. \A a \in Rest : a.op \in Firm => a.w \in Waits(Firm) BY <1>1, RestWaits
  <2>3. ASSUME b.op \in Firm PROVE call.w \notin Path(b.w) /\ b.w # call.w
    BY <1>3, <2>1, <2>2, <2>3, PathSelf
  <2>4. ASSUME b.op = "Destroy" PROVE b.w = call.w \/ call.w \notin Path(b.w)
    <3>1. CASE parent[b.w] = None
      <4>1. IsLine(b.w, {b.w}) BY <1>3, <3>1 DEF IsLine
      <4>2. QED BY <1>3, <4>1, PathLeast
    <3>2. CASE parent[b.w] # None
      <4>1. ~Valid(parent[b.w]) BY <1>2, <2>4, <3>2 DEF Late
      <4>2. parent[b.w] \in Widget /\ Path(b.w) = {b.w} \cup Path(parent[b.w])
        BY <1>1, <1>3, <3>2, PathOfChild
      <4>3. P("InvalidateTarget", parent[b.w])
        BY <1>1, <1>3, <3>2, <4>1 DEF TreeInv, WidgetOK
      <4>4. Stmt("InvalidateTarget", parent[b.w]) \in Rest
        BY <1>3, <4>3 DEF P, Stmt
      <4>5. parent[b.w] \in Waits(Firm)
        BY <2>2, <4>4 DEF Stmt, Firm, Destroying
      <4>6. QED BY <2>1, <4>2, <4>5
    <3>3. QED BY <3>1, <3>2
  <2>5. ~Alone(call) BY <1>4, <1>5 DEF Alone
  <2>6. QED BY <1>2, <2>3, <2>4, <2>5 DEF MayFollow, After
<1>6. CASE call.op = "SetFocus"
  BY <1>2, <1>4, <1>6 DEF MayFollow, After, Alone, Kills
<1>7. CASE call.op \notin {"Destroy", "SetFocus"}
  <2>1. call.w \notin Waits(Switching) BY <1>7 DEF Allowed
  <2>2. b.op \in Switching => b.w # call.w BY <1>1, <2>1, RestWaits
  <2>3. call.op \notin Kills BY <1>4, <1>7 DEF Operations, Kills
  <2>4. QED BY <1>2, <2>2, <2>3 DEF MayFollow, After
<1>8. QED BY <1>5, <1>6, <1>7

LEMMA HandlerCallsStep ==
  ASSUME IInv, Careful, NEW w, HandlerCalls(w)
  PROVE  IInv'
<1>1. PICK op \in {"Send", "Handling"}, call \in Calls :
        /\ At(op, w) /\ Allowed(call)
        /\ todo' = <<call, Stmt("Handling", w)>> \o Tail(todo)
  BY DEF HandlerCalls
<1>2. /\ calls < MaxCalls /\ calls' = calls + 1
      /\ UNCHANGED <<widgetVars, focusVars, stackVars, crashed>>
  BY DEF HandlerCalls
<1> DEFINE h == Stmt(op, w)
           m == Stmt("Handling", w)
           s == <<call, m>>
<1>3. /\ TypeOK /\ InOrder /\ TreeOK /\ crashed = FALSE /\ SameStatus
      /\ todo \in Seq(Stmts) /\ calls' \in 0 .. MaxCalls
  BY <1>2, Known, StatusSame, WidgetAssumption DEF TypeOK, Stmts, widgetVars
<1>4. call.op # "SetFocus" => call.w # Root BY <1>1 DEF Allowed
<1>5. /\ call \in Stmts /\ call.w \in Widget
      /\ call.op \in Operations /\ call.op \in QuietOps
      /\ call.op \in {"Destroy", "SetFocus"} => ~call.on
      /\ StmtOK(call) /\ HandOK(call)
  BY <1>4, CallIs
<1>6. op \in QuietOps /\ op \notin Switches BY DEF QuietOps, Switches
<1>7. w \in Widget /\ Head(todo) = h /\ todo # <<>> BY <1>1, <1>6, HeadIs DEF At
<1>8. Fit(m) BY <1>7, FitStmt
<1>9. m \in Stmts /\ Quiet(m) /\ m.op = "Handling" BY <1>8 DEF Fit, Stmt
<1>10. s \in Seq(Stmts) /\ Range(s) = {call, m} BY <1>5, <1>9, TwoAre
<1>11. Does(h, s) BY <1>1, <1>7, <1>10 DEF Does
<1>12. /\ todo' \in Seq(Stmts) /\ Pending = {h} \cup Rest /\ Pending' = {call, m} \cup Rest
       /\ Rest \subseteq Stmts
  BY <1>3, <1>10, <1>11, DoesIs
<1>13. InOrder'
  <2>1. \A a, b \in Stmts : MayFollow(a, b) => MayFollow(a, b)'
    <3>1. \A v \in Widget : Valid(v)' => Valid(v) BY <1>3, SameValid
    <3>2. QED BY <1>2, <1>3, <3>1, OrderLasts DEF widgetVars
  <2>2. \A b \in Rest : MayFollow(call, b) BY <1>1, <1>11, CallMayFollow
  <2>3. \A b \in Rest : MayFollow(m, b)
    BY <1>3, <1>9, <1>11, RestFollows, QuietFirst DEF MayFollow
  <2>4. MayFollow(call, m)
    BY <1>9, QuietFirst DEF MayFollow, After, Firm, Switching, Giving, Destroying
  <2>5. \A a \in Range(s), b \in Rest : MayFollow(a, b)'
    BY <1>5, <1>9, <1>10, <1>12, <2>1, <2>2, <2>3
  <2>6. \A i, j \in DOMAIN s : i < j => MayFollow(s[i], s[j])'
    BY <1>5, <1>9, <2>1, <2>4
  <2> HIDE DEF s, h
  <2>7. QED BY <1>3, <1>11, <2>1, <2>5, <2>6, OrderNext
<1>14. h.op = op BY DEF Stmt
<1>15. /\ GivesUp(h, Pending', Exclusivity, exclusives)
       /\ GivesUp(h, Pending', Capturing, captures)
  BY <1>14, NothingToGive DEF Kinds
<1>16. Pending \subseteq {h} \cup Pending' /\ Pending' \subseteq Pending \cup {call, m}
  BY <1>12
<1> HIDE DEF h, s, m
<1>17. {call, m} \in SUBSET Stmts BY <1>5, <1>9
<1>18. \A a \in {call, m} : a.op \in QuietOps /\ StmtOK(a) /\ HandOK(a)
  BY <1>5, <1>8 DEF Fit, Quiet
<1>19. h.op \in QuietOps /\ h.op # "Destroy" BY <1>6, <1>14
<1>20. QED
  BY <1>2, <1>3, <1>12, <1>13, <1>15, <1>16, <1>17, <1>18, <1>19, QuietStep
  DEF widgetVars, focusVars

LEMMA ProgramCallsStep ==
  ASSUME IInv, ProgramCalls
  PROVE  IInv'
<1>1. PICK call \in Calls : Allowed(call) /\ todo' = <<call>> BY DEF ProgramCalls
<1>2. /\ todo = <<>> /\ calls' = 0
      /\ UNCHANGED <<widgetVars, focusVars, stackVars, crashed>>
  BY DEF ProgramCalls
<1> DEFINE h == Stmt("Send", Root)
<1>3. crashed = FALSE /\ SameStatus /\ calls' \in 0 .. MaxCalls
  BY <1>2, Known, StatusSame, WidgetAssumption DEF widgetVars
<1>4. /\ call \in Stmts /\ call.op \in QuietOps /\ StmtOK(call) /\ HandOK(call)
  BY <1>1, CallIs DEF Allowed
<1>5. todo' \in Seq(Stmts) /\ Pending' = {call} BY <1>1, <1>4, OneIs DEF Pending
<1>6. Pending = {} BY <1>2 DEF Pending, Range
<1>7. InOrder'
  <2>1. DOMAIN todo' = {1} BY <1>1
  <2>2. QED BY <2>1 DEF InOrder
<1>8. h.op = "Send" /\ "Send" \in QuietOps BY DEF Stmt, QuietOps
<1>9. /\ GivesUp(h, Pending', Exclusivity, exclusives)
      /\ GivesUp(h, Pending', Capturing, captures)
  BY <1>8, NothingToGive DEF Kinds
<1>10. Pending \subseteq {h} \cup Pending' /\ Pending' \subseteq Pending \cup {call}
  BY <1>5, <1>6
<1> HIDE DEF h
<1>11. {call} \in SUBSET Stmts BY <1>4
<1>12. \A a \in {call} : a.op \in QuietOps /\ StmtOK(a) /\ HandOK(a) BY <1>4
<1>13. QED
  BY <1>2, <1>3, <1>5, <1>7, <1>8, <1>9, <1>10, <1>11, <1>12, QuietStep
  DEF widgetVars, focusVars

(***************************************************************************)
(* Visibility.                                                             *)
(***************************************************************************)

LEMMA AloneWaits ==
  ASSUME todo \in Seq(Stmts), InOrder, NEW h, NEW s, Does(h, s), Alone(h),
         Valid(h.w), h.op \notin {"PushCapture", "PushExclusive"}
  PROVE  OnlyWaits(Rest, h.w, {})
<1>1. SUFFICES ASSUME NEW b \in Rest, b.w = h.w PROVE b.op \notin Switching \cup Removes
  BY DEF OnlyWaits
<1>2. MayFollow(h, b) BY RestFollows
<1>3. QED BY <1>1, <1>2 DEF MayFollow, After, Late, SameCall

LEMMA VisibleKept ==
  ASSUME NEW k \in Kinds, NEW stack, NEW flags, NEW vis, NEW R, NEW S, NEW h,
         NEW w \in Widget, h.op = "SetVisible", h.w = w,
         Kept(k, stack, flags, vis, {h} \cup R), OnlyWaits(R, w, {}),
         \A a \in S : a.op \in QuietOps, Stmt("CheckCapture", w) \in S,
         NEW vis2, \A v \in Widget \ {w} : v \in vis2 <=> v \in vis
  PROVE  Kept(k, stack, flags, vis2, S \cup R)
<1>1. /\ {k.push, k.flag, k.remove, "MarkInvalid"} \cap QuietOps = {} /\ k.flag # "SetVisible"
      /\ "SetVisible" \notin {k.set, k.remove, k.push, k.flag, "CheckCapture", "InvalidateTarget"}
  BY DEF Kinds, Exclusivity, Capturing, QuietOps
<1>2. \A v \in Widget : SameAbout(k, v, {h} \cup R, S \cup R)
  BY <1>1, AboutOtherKind
<1>3. Set(k.flag, w, TRUE) \notin {h} \cup R
  BY <1>1, KindWaits DEF OnlyWaits, Set
<1>4. Agrees(k, w, w \in Range(stack), w \in flags, w \in vis2, S \cup R)
  <2>1. Agrees(k, w, w \in Range(stack), w \in flags, w \in vis, {h} \cup R) BY DEF Kept
  <2>2. SameAbout(k, w, {h} \cup R, S \cup R) /\ Stmt("CheckCapture", w) \in S \cup R
    BY <1>2
  <2>3. Set(k.flag, w, TRUE) \notin S \cup R BY <1>3, <2>2 DEF SameAbout
  <2>4. QED BY <2>1, <2>2, <2>3 DEF Agrees, SameAbout
<1>5. Unique(stack) BY DEF Kept
<1>6. Elsewhere(k, w, {h} \cup R, S \cup R, stack, stack, flags, flags, vis, vis2)
  BY <1>2 DEF Elsewhere
<1>7. QED BY <1>4, <1>5, <1>6, KeptNext

LEMMA SetVisibleStep ==
  ASSUME IInv, NEW w, NEW on \in BOOLEAN, SetVisible(w, on)
  PROVE  IInv'
<1> DEFINE h == Set("SetVisible", w, on)
           a == Stmt("CheckCapture", w)
           b == Stmt("Send", w)
           s == <<a, b>>
<1>1. CASE ~(Valid(w) /\ (w \in shown) # on)
  <2>1. AtSet("SetVisible", w, on) /\ Skip BY <1>1 DEF SetVisible
  <2>2. QED BY <2>1, NoCallStep
<1>2. CASE Valid(w) /\ (w \in shown) # on
  <2>1. /\ AtSet("SetVisible", w, on) /\ Then(s)
        /\ shown' = (IF on THEN shown \cup {w} ELSE shown \ {w})
        /\ UNCHANGED <<status, parent, captures, exclusives, focusVars, stackVars, crashed>>
    BY <1>2 DEF SetVisible
  <2>2. w \in Widget BY <2>1, HeadIs DEF AtSet
  <2>3. Fit(a) /\ Fit(b) BY <2>2, FitStmt
  <2> HIDE DEF a, b
  <2>4. AllFit(s) /\ Range(s) = {a, b} BY <2>3, TwoAre DEF AllFit, Fit
  <2> HIDE DEF s
  <2>5. /\ Does(h, s) /\ StmtOK(h) /\ todo' \in Seq(Stmts) /\ todo \in Seq(Stmts)
        /\ Pending = {h} \cup Rest /\ Pending' = Range(s) \cup Rest
        /\ calls' \in 0 .. MaxCalls
    BY <2>1, <2>4, SwitchIs DEF AllFit
  <2>6. /\ TypeOK /\ InOrder /\ TreeInv /\ FlagsOK /\ FocusInv /\ StackInv
        /\ crashed = FALSE /\ SameStatus
    BY <2>1, Known, StatusSame
  <2>7. h.op = "SetVisible" /\ h.w = w /\ h.on = on BY DEF Set
  <2>8. w # Root BY <2>5, <2>7 DEF StmtOK
  <2>9. Root \in shown' BY <2>1, <2>6, <2>8 DEF TreeInv
  <2>10. \A v \in Widget \ {w} : v \in shown' <=> v \in shown BY <2>1
  <2>11. TypeOK'
    <3>1. shown' \subseteq Widget BY <2>1, <2>2, <2>6 DEF TypeOK
    <3>2. QED BY <2>1, <2>5, <2>6, <3>1 DEF TypeOK, Stmts, OrNone, focusVars, stackVars
  <2>12. InOrder'
    <3>1. \A v \in Widget : Valid(v)' => Valid(v) BY <2>6, SameValid
    <3>2. TreeOK /\ \A x \in Range(s) : Quiet(x) BY <2>4, Known DEF AllFit, Fit
    <3>3. QED BY <2>1, <2>5, <2>6, <3>1, <3>2, QuietOrder
  <2>13. FlagsOK'
    <3>1. ASSUME NEW v \in Widget, ~Valid(v)'
          PROVE  v \notin shown' \cup captures' \cup exclusives'
      <4>1. ~Valid(v) /\ v # w BY <1>2, <2>6, <3>1, SameValid
      <4>2. QED BY <2>1, <2>6, <2>10, <4>1 DEF FlagsOK
    <3>2. QED BY <3>1 DEF FlagsOK
  <2>14. OnlyWaits(Rest, w, {})
    <3>1. Alone(h) BY <2>7 DEF Alone
    <3>2. QED BY <1>2, <2>5, <2>6, <2>7, <3>1, AloneWaits
  <2>15. /\ \A x \in Range(s) : x.op \in QuietOps
         /\ \A x \in Range(s) : StmtOK(x) /\ HandOK(x) /\ x.op \notin Kills \ {"Destroy"}
    BY <2>4 DEF AllFit, Fit, Quiet, QuietOps, Kills
  <2>16. StackInv'
    <3>1. Stmt("CheckCapture", w) \in Range(s) BY <2>4 DEF a
    <3>2. ASSUME NEW k \in Kinds, NEW stack, NEW flags, Kept(k, stack, flags, shown, Pending)
          PROVE  Kept(k, stack, flags, shown', Pending')
      <4>1. Kept(k, stack, flags, shown, {h} \cup Rest) BY <2>5, <3>2
      <4>2. Kept(k, stack, flags, shown', Range(s) \cup Rest)
        BY <2>2, <2>7, <2>10, <2>14, <2>15, <3>1, <4>1, VisibleKept
      <4>3. QED BY <2>5, <4>2
    <3>3. Exclusivity \in Kinds /\ Capturing \in Kinds BY DEF Kinds
    <3>4. ExclusiveOK' BY <2>1, <2>6, <3>2, <3>3 DEF StackInv, ExclusiveOK, stackVars
    <3>5. CaptureOK' BY <2>1, <2>6, <3>2, <3>3 DEF StackInv, CaptureOK, stackVars
    <3>6. TopOK' /\ CaptorOK' BY <2>1, <2>6 DEF StackInv, TopOK, CaptorOK, stackVars
    <3>7. QED BY <3>4, <3>5, <3>6 DEF StackInv
  <2>17. h.op \notin Kills BY <2>7 DEF Kills
  <2>18. Pending \subseteq {h} \cup Pending' /\ Pending' \subseteq Pending \cup Range(s)
    BY <2>5
  <2>19. Range(s) \in SUBSET Stmts BY <2>4 DEF AllFit, Fit
  <2> HIDE DEF h
  <2>20. QED
    BY <2>1, <2>5, <2>6, <2>9, <2>11, <2>12, <2>13, <2>15, <2>16, <2>17, <2>18, <2>19,
       MildStep DEF focusVars
<1>3. QED BY <1>1, <1>2

(***************************************************************************)
(* Exclusivity and capture: asking for them, and giving them up.           *)
(***************************************************************************)

LEMMA StackStep ==
  ASSUME IInv, NEW h, NEW s, Does(h, s), h.op \notin Kills,
         \A a \in Range(s) : StmtOK(a) /\ HandOK(a) /\ a.op \notin Kills,
         UNCHANGED <<status, parent, shown, focusVars, calls, crashed>>,
         captures' \subseteq Widget, exclusives' \subseteq Widget,
         top' \in Widget, captureAll' \in OrNone,
         exclusiveStack' \in Seq(Widget), captureStack' \in Seq(Widget),
         InOrder', FlagsOK', StackInv'
  PROVE  IInv'
<1>1. TypeOK /\ TreeInv /\ crashed = FALSE /\ SameStatus /\ todo \in Seq(Stmts)
  BY Known, StatusSame DEF TypeOK, Stmts
<1>2. /\ todo' \in Seq(Stmts) /\ Range(s) \subseteq Stmts
      /\ Pending = {h} \cup Rest /\ Pending' = Range(s) \cup Rest
  BY <1>1, DoesIs
<1>3. TypeOK' BY <1>1, <1>2 DEF TypeOK, Stmts, OrNone, focusVars
<1>4. Root \in shown' BY <1>1 DEF TreeInv
<1>5. Pending \subseteq {h} \cup Pending' /\ Pending' \subseteq Pending \cup Range(s)
  BY <1>2
<1>6. QED BY <1>1, <1>2, <1>3, <1>4, <1>5, MildStep DEF focusVars

\* The tree stays, none comes to life, and the order is kept.
LEMMA OrderStays ==
  ASSUME todo \in Seq(Stmts), InOrder, NEW h, NEW s, Does(h, s), UNCHANGED parent,
         TreeOK, \A v \in Widget : Valid(v)' => Valid(v),
         \A i, j \in DOMAIN s : i < j => MayFollow(s[i], s[j]),
         \A a \in Range(s), b \in Rest : MayFollow(a, b)
  PROVE  InOrder'
<1>1. \A a, b \in Stmts : MayFollow(a, b) => MayFollow(a, b)' BY OrderLasts
<1>2. Range(s) \subseteq Stmts /\ Rest \subseteq Stmts BY DoesIs
<1>3. \A i \in DOMAIN s : s[i] \in Range(s) BY DEF Range
<1>4. \A i, j \in DOMAIN s : i < j => MayFollow(s[i], s[j])' BY <1>1, <1>2, <1>3
<1>5. \A a \in Range(s), b \in Rest : MayFollow(a, b)' BY <1>1, <1>2
<1>6. QED BY <1>1, <1>4, <1>5, OrderNext

LEMMA KindOps ==
  ASSUME NEW k \in Kinds
  PROVE  /\ k.set \in QuietOps /\ k.remove \notin QuietOps /\ k.push \notin QuietOps
         /\ k.flag \notin QuietOps
         /\ {k.set, k.remove, k.push, k.flag} \cap (Kills \cup {"Send", "CheckCapture"}) = {}
         /\ {k.set, k.remove, k.push, k.flag} \subseteq Statements
         /\ {k.set, k.remove, k.push, k.flag} \cap
              {"SetVisible", "FocusParent", "ApplyTop", "Refocus", "SetActive", "PutActive",
               "SetFocusInput"} = {}
         /\ k.set \in Switches /\ k.flag \in Switches
         /\ k.remove \notin Switches /\ k.push \notin Switches
         /\ k.push \in {"PushCapture", "PushExclusive"}
         /\ {k.set, k.remove, k.flag} \cap {"PushCapture", "PushExclusive"} = {}
         /\ {k.push, k.flag} \cap Removes = {}
         /\ <<k.push, k.flag>> \in SameCall
         /\ \A op : <<k.push, op>> \in SameCall => op = k.flag
BY DEF Kinds, Exclusivity, Capturing, QuietOps, Kills, Statements, Operations, Switches, SameCall,
       Removes

LEMMA KindsDiffer ==
  ASSUME NEW k \in Kinds, NEW k2 \in Kinds, k # k2
  PROVE  {k.set, k.remove, k.push, k.flag} \cap
           {k2.set, k2.remove, k2.push, k2.flag, "CheckCapture", "InvalidateTarget"} = {}
BY DEF Kinds, Exclusivity, Capturing

LEMMA FitKind ==
  ASSUME NEW k \in Kinds, NEW w \in Widget, NEW on \in BOOLEAN,
         NEW a \in {Stmt(k.remove, w), Stmt(k.push, w), Set(k.flag, w, on)}
  PROVE  a \in Stmts /\ StmtOK(a) /\ HandOK(a) /\ a.op \notin Kills
         /\ a.w = w /\ a.op \in {k.remove, k.push, k.flag}
<1>1. a.op \in {k.remove, k.push, k.flag} /\ a.w = w /\ (a.on => a.op = k.flag)
  BY DEF Stmt, Set
<1>2. a \in Stmts
  <2>1. k.remove \in Statements /\ k.push \in Statements /\ k.flag \in Statements
    BY KindOps
  <2>2. Stmt(k.remove, w) \in Stmts /\ Stmt(k.push, w) \in Stmts BY <2>1, StmtIs
  <2>3. Set(k.flag, w, on) \in Stmts BY <2>1, SetIs
  <2>4. QED BY <2>2, <2>3
<1>3. StmtOK(a) BY <1>1, KindOps DEF StmtOK
<1>4. HandOK(a) BY <1>1, KindOps DEF HandOK
<1>5. QED BY <1>1, <1>2, <1>3, <1>4, KindOps

\* Each statement of s may follow those before it.
Ordered(s) == \A i, j \in DOMAIN s : i < j => MayFollow(s[i], s[j])

LEMMA OrderedOne ==
  ASSUME NEW a
  PROVE  Ordered(<<a>>) /\ Ordered(<<>>)
BY DEF Ordered

LEMMA OrderedJoined ==
  ASSUME NEW s \in Seq(Stmts), NEW t \in Seq(Stmts), Ordered(s), Ordered(t),
         \A a \in Range(s), b \in Range(t) : MayFollow(a, b)
  PROVE  Ordered(s \o t)
<1>1. PICK m \in Nat : m = Len(s) /\ DOMAIN s = 1 .. m BY LenProperties
<1>2. PICK n \in Nat : n = Len(t) /\ DOMAIN t = 1 .. n BY LenProperties
<1> DEFINE r == s \o t
<1>3. /\ r \in Seq(Stmts) /\ Len(r) = m + n
      /\ \A i \in 1 .. m + n : r[i] = IF i <= m THEN s[i] ELSE t[i - m]
  BY <1>1, <1>2, ConcatProperties
<1> HIDE DEF r
<1>4. DOMAIN r = 1 .. m + n BY <1>3, LenProperties
<1>5. ASSUME NEW i \in 1 .. m + n, NEW j \in 1 .. m + n, i < j
      PROVE  MayFollow(r[i], r[j])
  <2>1. CASE j <= m
    <3>1. i \in 1 .. m /\ j \in 1 .. m /\ i <= m BY <1>5, <2>1
    <3>2. r[i] = s[i] /\ r[j] = s[j] BY <1>3, <2>1, <3>1
    <3>3. QED BY <1>1, <1>5, <3>1, <3>2 DEF Ordered
  <2>2. CASE i <= m /\ m < j
    <3>1. i \in 1 .. m /\ j - m \in 1 .. n /\ ~(j <= m) BY <1>5, <2>2
    <3>2. r[i] = s[i] /\ r[j] = t[j - m] BY <1>3, <2>2, <3>1
    <3>3. s[i] \in Range(s) /\ t[j - m] \in Range(t) BY <1>1, <1>2, <3>1 DEF Range
    <3>4. QED BY <3>2, <3>3
  <2>3. CASE m < i
    <3>1. /\ i - m \in 1 .. n /\ j - m \in 1 .. n /\ i - m < j - m
          /\ ~(i <= m) /\ ~(j <= m)
      BY <1>5, <2>3
    <3>2. r[i] = t[i - m] /\ r[j] = t[j - m] BY <1>3, <3>1
    <3>3. QED BY <1>2, <3>1, <3>2 DEF Ordered
  <2>4. QED BY <1>5, <2>1, <2>2, <2>3
<1>6. Ordered(r) BY <1>4, <1>5 DEF Ordered
<1>7. QED BY <1>6 DEF r

\* SetCapture and SetExclusive.
LEMMA GiveStep ==
  ASSUME IInv, NEW k \in Kinds, NEW w \in Widget, NEW on \in BOOLEAN, AtSet(k.set, w, on),
         Then(<<Stmt(k.remove, w)>> \o When(on, <<Stmt(k.push, w)>>)
              \o <<Set(k.flag, w, on)>>),
         on => w \in shown,
         k = Exclusivity => (on <=> w \notin exclusives),
         k = Capturing => (on <=> w \notin captures),
         UNCHANGED <<widgetVars, focusVars, stackVars, crashed>>
  PROVE  IInv'
<1> DEFINE h == Set(k.set, w, on)
           a == Stmt(k.remove, w)
           b == Stmt(k.push, w)
           c == Set(k.flag, w, on)
           s == <<a>> \o When(on, <<b>>) \o <<c>>
<1>1. /\ \A x \in {a, b, c} : /\ x \in Stmts /\ StmtOK(x) /\ HandOK(x) /\ x.op \notin Kills
                              /\ x.w = w /\ x.op \in {k.remove, k.push, k.flag}
  BY FitKind
<1>2. /\ h.op = k.set /\ h.w = w /\ h.on = on /\ a.op = k.remove /\ ~a.on
      /\ b.op = k.push /\ ~b.on /\ c.op = k.flag /\ c.on = on
  BY DEF Stmt, Set
<1>3. a \in Stmts /\ b \in Stmts /\ c \in Stmts /\ Then(s) BY <1>1
<1> DEFINE s1 == <<a>>
           s2 == When(on, <<b>>)
           s3 == <<c>>
<1> HIDE DEF a, b, c, h
<1>4. /\ s1 \in Seq(Stmts) /\ Range(s1) = {a} /\ s3 \in Seq(Stmts) /\ Range(s3) = {c}
      /\ Ordered(s1) /\ Ordered(s3)
  BY <1>3, OneIs, OrderedOne
<1>5. /\ s2 \in Seq(Stmts) /\ Range(s2) = (IF on THEN {b} ELSE {}) /\ Ordered(s2)
  BY <1>3, OneIs, OrderedOne, NoneAre DEF When
<1> HIDE DEF s1, s2, s3
<1>6. /\ s1 \o s2 \in Seq(Stmts) /\ Range(s1 \o s2) = Range(s1) \cup Range(s2)
  BY <1>4, <1>5, Joined
<1>7. s = s1 \o s2 \o s3 BY DEF s1, s2, s3
<1>8. s \in Seq(Stmts) /\ Range(s) = {a, c} \cup (IF on THEN {b} ELSE {})
  <2>1. /\ (s1 \o s2) \o s3 \in Seq(Stmts)
        /\ Range((s1 \o s2) \o s3) = Range(s1 \o s2) \cup Range(s3)
    BY <1>4, <1>6, Joined
  <2>2. QED BY <1>4, <1>5, <1>6, <1>7, <2>1
<1> HIDE DEF s
<1>9. /\ Does(h, s) /\ todo \in Seq(Stmts)
      /\ Pending = {h} \cup Rest /\ Pending' = Range(s) \cup Rest
  BY <1>3, <1>8, SwitchIs DEF h
<1>10. /\ TypeOK /\ InOrder /\ FlagsOK /\ StackInv BY Known
<1>11. /\ on => Valid(w) /\ OnlyWaits(Rest, w, {})
       /\ on => ~Leaving(w, Pending)
  <2>1. on => Alone(h) BY <1>2 DEF Alone
  <2>2. h.op \notin {"PushCapture", "PushExclusive"} BY <1>2, KindOps
  <2>3. on => Valid(w) BY KnownOf
  <2>4. on => OnlyWaits(Rest, w, {}) BY <1>2, <1>9, <1>10, <2>1, <2>2, <2>3, AloneWaits
  <2>5. on => ~Leaving(w, Pending) BY <2>3, KnownOf DEF Leaving, WidgetOK, P
  <2>6. QED BY <2>3, <2>4, <2>5
<1>12. InOrder'
  <2>1. \A x : After(a, x)
    BY <1>1, <1>2, KindOps DEF After, Alone
  <2>2. ~on => \A x : After(c, x)
    BY <1>1, <1>2, KindOps DEF After, Alone
  <2>3. on => After(b, c)
    BY <1>1, <1>2, KindOps DEF After
  <2>4. on => \A x \in Rest : After(b, x) /\ After(c, x)
    BY <1>1, <1>11 DEF After, OnlyWaits
  <2>5. Late(b) /\ Late(c) BY <1>1, <1>2, KindOps DEF Late, Kills
  <2>6. Ordered(s)
    <3>1. Ordered(s1 \o s2) BY <1>4, <1>5, <2>1, <2>5, OrderedJoined DEF MayFollow
    <3>2. \A x \in Range(s1 \o s2) : MayFollow(x, c)
      BY <1>4, <1>5, <1>6, <2>1, <2>3, <2>5 DEF MayFollow
    <3>3. QED BY <1>4, <1>6, <1>7, <3>1, <3>2, OrderedJoined
  <2>7. \A y \in Rest : Late(y) BY <1>9, <1>10, RestFollows DEF MayFollow
  <2>8. \A x \in Range(s), y \in Rest : MayFollow(x, y)
    BY <1>8, <2>1, <2>2, <2>4, <2>7 DEF MayFollow
  <2>9. /\ UNCHANGED parent
        /\ TreeOK /\ \A v \in Widget : Valid(v)' => Valid(v)
    BY Known DEF widgetVars, Valid
  <2>10. QED BY <1>9, <1>10, <2>6, <2>8, <2>9, OrderStays DEF Ordered
<1>13. FlagsOK'
  <2>1. SameStatus BY StatusSame DEF widgetVars
  <2>2. QED BY <1>10, <2>1, FlagsStay DEF widgetVars
<1>14. ASSUME NEW stack, NEW flags, on <=> w \notin flags,
              Kept(k, stack, flags, shown, Pending)
       PROVE  Kept(k, stack, flags, shown, Pending')
  <2>1. Range(s) = {Stmt(k.remove, w), Set(k.flag, w, on)}
                   \cup (IF on THEN {Stmt(k.push, w)} ELSE {})
    BY <1>8 DEF a, b, c
  <2>2. h = Set(k.set, w, on) BY DEF h
  <2>3. Kept(k, stack, flags, shown, {h} \cup Rest) BY <1>9, <1>14
  <2>4. Kept(k, stack, flags, shown, Range(s) \cup Rest)
    BY <1>9, <1>11, <1>14, <2>1, <2>2, <2>3, SetKept
  <2>5. QED BY <1>9, <2>4
<1>15. ASSUME NEW k2 \in Kinds, k # k2, NEW stack, NEW flags,
              Kept(k2, stack, flags, shown, Pending)
       PROVE  Kept(k2, stack, flags, shown, Pending')
  <2>1. Kept(k2, stack, flags, shown, {h} \cup Rest) BY <1>9, <1>15
  <2>2. h.op \notin {k2.set, k2.remove, k2.push, k2.flag, "CheckCapture", "InvalidateTarget"}
    BY <1>2, <1>15, KindsDiffer
  <2>3. \A x \in Range(s) : x.op \notin {k2.remove, k2.push, k2.flag, "MarkInvalid"}
    <3>1. \A x \in Range(s) : x.op \in {k.remove, k.push, k.flag} /\ x.op # "MarkInvalid"
      BY <1>1, <1>8 DEF Kills
    <3>2. {k.remove, k.push, k.flag} \cap {k2.remove, k2.push, k2.flag} = {}
      BY <1>15, KindsDiffer
    <3>3. QED BY <3>1, <3>2
  <2>4. \A v \in Widget : SameAbout(k2, v, {h} \cup Rest, Range(s) \cup Rest)
    BY <2>2, <2>3, AboutOtherKind
  <2>5. Kept(k2, stack, flags, shown, Range(s) \cup Rest) BY <2>1, <2>4, KeptBeside
  <2>6. QED BY <1>9, <2>5
<1>16. StackInv'
  <2>1. Exclusivity \in Kinds /\ Capturing \in Kinds BY DEF Kinds
  <2>2. Kept(Exclusivity, exclusiveStack, exclusives, shown, Pending')
    BY <1>10, <1>14, <1>15, <2>1 DEF StackInv, ExclusiveOK
  <2>3. Kept(Capturing, captureStack, captures, shown, Pending')
    BY <1>10, <1>14, <1>15, <2>1 DEF StackInv, CaptureOK
  <2>4. TopOK' /\ CaptorOK' BY <1>10 DEF StackInv, TopOK, CaptorOK, stackVars
  <2>5. QED BY <2>2, <2>3, <2>4 DEF StackInv, ExclusiveOK, CaptureOK, widgetVars, stackVars
<1>17. h.op \notin Kills BY <1>2, KindOps
<1>18. \A x \in Range(s) : StmtOK(x) /\ HandOK(x) /\ x.op \notin Kills BY <1>1, <1>8
<1>19. /\ captures' \subseteq Widget /\ exclusives' \subseteq Widget
       /\ top' \in Widget /\ captureAll' \in OrNone
       /\ exclusiveStack' \in Seq(Widget) /\ captureStack' \in Seq(Widget)
  BY <1>10 DEF TypeOK, widgetVars, stackVars
<1>20. UNCHANGED <<status, parent, shown, focusVars, calls, crashed>>
  BY DEF widgetVars, Then
<1>21. QED
  BY <1>9, <1>12, <1>13, <1>16, <1>17, <1>18, <1>19, <1>20, StackStep

LEMMA KindIs ==
  /\ Exclusivity \in Kinds /\ Capturing \in Kinds /\ Exclusivity # Capturing
  /\ Exclusivity.set = "SetExclusive" /\ Exclusivity.remove = "RemoveExclusive"
  /\ Exclusivity.push = "PushExclusive" /\ Exclusivity.flag = "FlagExclusive"
  /\ Capturing.set = "SetCapture" /\ Capturing.remove = "RemoveCapture"
  /\ Capturing.push = "PushCapture" /\ Capturing.flag = "FlagCapture"
BY DEF Kinds, Exclusivity, Capturing

LEMMA SetCaptureStep ==
  ASSUME IInv, NEW w, NEW on \in BOOLEAN, SetCapture(w, on)
  PROVE  IInv'
<1> DEFINE c == Valid(w) /\ (w \in captures) # on /\ (on => w \in shown)
           s == <<Stmt("RemoveCapture", w)>> \o When(on, <<Stmt("PushCapture", w)>>)
                \o <<Set("FlagCapture", w, on)>>
<1>1. /\ AtSet("SetCapture", w, on) /\ Then(When(c, s))
      /\ UNCHANGED <<widgetVars, focusVars, stackVars, crashed>>
  BY DEF SetCapture
<1>2. w \in Widget BY <1>1, HeadIs DEF AtSet
<1>3. CASE c
  <2>1. Then(s) BY <1>1, <1>3 DEF When
  <2>2. on <=> w \notin captures BY <1>3
  <2>3. on => w \in shown BY <1>3
  <2>4. AtSet(Capturing.set, w, on) BY <1>1, KindIs
  <2>5. Then(<<Stmt(Capturing.remove, w)>> \o When(on, <<Stmt(Capturing.push, w)>>)
             \o <<Set(Capturing.flag, w, on)>>)
    BY <2>1, KindIs
  <2>6. Capturing \in Kinds /\ Capturing # Exclusivity BY KindIs
  <2> HIDE DEF s, c
  <2>7. QED BY <1>1, <1>2, <2>2, <2>3, <2>4, <2>5, <2>6, GiveStep
<1>4. CASE ~c
  <2>1. Skip BY <1>1, <1>4 DEF When, Skip
  <2>2. ~on => w \notin captures BY <1>2, <1>4, KnownOf
  <2>3. QED BY <1>1, <2>1, <2>2, NoCallStep
<1>5. QED BY <1>3, <1>4

LEMMA SetExclusiveStep ==
  ASSUME IInv, NEW w, NEW on \in BOOLEAN, SetExclusive(w, on)
  PROVE  IInv'
<1> DEFINE c == Valid(w) /\ (w \in exclusives) # on /\ (on => w \in shown)
           s == <<Stmt("RemoveExclusive", w)>> \o When(on, <<Stmt("PushExclusive", w)>>)
                \o <<Set("FlagExclusive", w, on)>>
<1>1. /\ AtSet("SetExclusive", w, on) /\ Then(When(c, s))
      /\ UNCHANGED <<widgetVars, focusVars, stackVars, crashed>>
  BY DEF SetExclusive
<1>2. w \in Widget BY <1>1, HeadIs DEF AtSet
<1>3. CASE c
  <2>1. Then(s) BY <1>1, <1>3 DEF When
  <2>2. on <=> w \notin exclusives BY <1>3
  <2>3. on => w \in shown BY <1>3
  <2>4. AtSet(Exclusivity.set, w, on) BY <1>1, KindIs
  <2>5. Then(<<Stmt(Exclusivity.remove, w)>> \o When(on, <<Stmt(Exclusivity.push, w)>>)
             \o <<Set(Exclusivity.flag, w, on)>>)
    BY <2>1, KindIs
  <2>6. Exclusivity \in Kinds /\ Capturing # Exclusivity BY KindIs
  <2> HIDE DEF s, c
  <2>7. QED BY <1>1, <1>2, <2>2, <2>3, <2>4, <2>5, <2>6, GiveStep
<1>4. CASE ~c
  <2>1. Skip BY <1>1, <1>4 DEF When, Skip
  <2>2. ~on => w \notin exclusives BY <1>2, <1>4, KnownOf
  <2>3. QED BY <1>1, <2>1, <2>2, NoCallStep
<1>5. QED BY <1>3, <1>4

\* Quiet statements are no concern of a kind, if the head is none of its own.
LEMMA OtherKept ==
  ASSUME NEW k \in Kinds, NEW stack, NEW flags, NEW vis, NEW h, NEW R, NEW S,
         Kept(k, stack, flags, vis, {h} \cup R),
         h.op \notin {k.set, k.remove, k.push, k.flag, "CheckCapture", "InvalidateTarget"},
         \A a \in S : a.op \in QuietOps
  PROVE  Kept(k, stack, flags, vis, S \cup R)
<1>1. {k.remove, k.push, k.flag, "MarkInvalid"} \cap QuietOps = {}
  BY KindOps DEF QuietOps
<1>2. \A v \in Widget : SameAbout(k, v, {h} \cup R, S \cup R)
  BY <1>1, AboutOtherKind
<1>3. QED BY <1>2, KeptBeside

\* The last one, if there is one.
LEMMA LastIs ==
  ASSUME NEW s \in Seq(Widget), s # <<>>
  PROVE  Last(s) \in Widget /\ Last(s) \in Range(s)
<1>1. Len(s) \in 1 .. Len(s) /\ DOMAIN s = 1 .. Len(s) BY LenProperties, EmptySeq
<1>2. Last(s) = s[Len(s)] BY DEF Last
<1>3. QED BY <1>1, <1>2, ElementOfSeq DEF Range

\* A step of a kind that only asks for quiet statements.
LEMMA QuietStackStep ==
  ASSUME IInv, NEW op \in Statements \ (Kills \cup Switches), NEW w, At(op, w),
         NEW s, AllFit(s), Then(s), UNCHANGED <<widgetVars, focusVars, crashed>>,
         top' \in Widget, captureAll' \in OrNone,
         exclusiveStack' \in Seq(Widget), captureStack' \in Seq(Widget), StackInv'
  PROVE  IInv'
<1>1. /\ Does(Stmt(op, w), s) /\ todo \in Seq(Stmts) BY StepIs DEF AllFit
<1>2. /\ TypeOK /\ InOrder /\ FlagsOK /\ SameStatus
  BY Known, StatusSame DEF widgetVars
<1>3. InOrder'
  <2>1. \A v \in Widget : Valid(v)' => Valid(v) BY <1>2, SameValid
  <2>2. TreeOK /\ \A a \in Range(s) : Quiet(a) BY Known DEF AllFit, Fit
  <2>3. UNCHANGED parent BY DEF widgetVars
  <2>4. QED BY <1>1, <1>2, <2>1, <2>2, <2>3, QuietOrder
<1>4. FlagsOK' BY <1>2, FlagsStay DEF widgetVars
<1>5. Stmt(op, w).op \notin Kills BY DEF Stmt
<1>6. \A a \in Range(s) : StmtOK(a) /\ HandOK(a) /\ a.op \notin Kills
  BY DEF AllFit, Fit, Quiet, QuietOps, Kills
<1>7. captures' \subseteq Widget /\ exclusives' \subseteq Widget
  BY <1>2 DEF TypeOK, widgetVars
<1>8. UNCHANGED <<status, parent, shown, focusVars, calls, crashed>> BY DEF widgetVars, Then
<1>9. QED BY <1>1, <1>3, <1>4, <1>5, <1>6, <1>7, <1>8, StackStep

LEMMA RemoveExclusiveStep ==
  ASSUME IInv, NEW w, RemoveExclusive(w)
  PROVE  IInv'
<1> DEFINE h == Stmt("RemoveExclusive", w)
           left == FindErase(exclusiveStack, w)
<1>1. /\ At("RemoveExclusive", w) /\ exclusiveStack' = left
      /\ UNCHANGED <<widgetVars, focusVars, captureStack, captureAll, crashed>>
      /\ IF w \in Range(exclusiveStack) /\ top = w
         THEN /\ top' = IF left # <<>> /\ Valid(Last(left)) THEN Last(left) ELSE Root
              /\ Then(<<Stmt("ApplyTop", Root)>>)
         ELSE Then(<<>>) /\ UNCHANGED top
  BY DEF RemoveExclusive
<1>2. w \in Widget BY <1>1, HeadIs
<1>3. TypeOK /\ StackInv BY Known
<1>4. exclusiveStack \in Seq(Widget) /\ Unique(exclusiveStack)
  BY <1>3 DEF TypeOK, StackInv, ExclusiveOK, Kept
<1>5. /\ left \in Seq(Widget) /\ Unique(left) /\ Range(left) = Range(exclusiveStack) \ {w}
      /\ exclusiveStack # <<>> /\ Last(exclusiveStack) # w =>
           left # <<>> /\ Last(left) = Last(exclusiveStack)
  BY <1>2, <1>4, EraseLeaves
<1>6. PICK s : s \in {<<Stmt("ApplyTop", Root)>>, <<>>} /\ Then(s) BY <1>1
<1>7. AllFit(s) BY <1>6, FitRoot, FitOne, FitNone
<1>8. Pending = {h} \cup Rest /\ Pending' = Range(s) \cup Rest
  BY <1>1, <1>6, <1>7, StepIs DEF Switches, AllFit
<1>9. \A a \in Range(s) : a.op \in QuietOps BY <1>7 DEF AllFit, Fit, Quiet
<1>10. Kept(Exclusivity, left, exclusives, shown, Pending')
  <2>1. Exclusivity \in Kinds /\ h = Stmt(Exclusivity.remove, w) BY KindIs
  <2>2. Kept(Exclusivity, exclusiveStack, exclusives, shown, {h} \cup Rest)
    BY <1>3, <1>8 DEF StackInv, ExclusiveOK
  <2> HIDE DEF h
  <2>3. Kept(Exclusivity, left, exclusives, shown, Range(s) \cup Rest)
    BY <1>2, <1>4, <1>9, <2>1, <2>2, RemoveKept
  <2>4. QED BY <1>8, <2>3
<1>11. Kept(Capturing, captureStack, captures, shown, Pending')
  <2>1. Kept(Capturing, captureStack, captures, shown, {h} \cup Rest)
    BY <1>3, <1>8 DEF StackInv, CaptureOK
  <2>2. Capturing \in Kinds BY KindIs
  <2>3. h.op \notin {Capturing.set, Capturing.remove, Capturing.push, Capturing.flag,
                     "CheckCapture", "InvalidateTarget"}
    BY KindIs DEF Stmt
  <2> HIDE DEF h
  <2>4. QED BY <1>8, <1>9, <2>1, <2>2, <2>3, OtherKept
<1> HIDE DEF left
<1>12. TopOK' /\ top' \in Widget
  <2>1. CASE w \in Range(exclusiveStack) /\ top = w
    BY <1>1, <1>5, <2>1, LastIs, WidgetAssumption DEF TopOK
  <2>2. CASE ~(w \in Range(exclusiveStack) /\ top = w)
    <3>1. top' = top /\ top \in Widget /\ TopOK BY <1>1, <1>3, <2>2 DEF TypeOK, StackInv
    <3>2. CASE top # Root
      <4>1. exclusiveStack # <<>> /\ top = Last(exclusiveStack) BY <3>1, <3>2 DEF TopOK
      <4>2. top # w BY <1>4, <2>2, <4>1, LastIs
      <4>3. QED BY <1>1, <1>5, <3>1, <4>1, <4>2 DEF TopOK
    <3>3. QED BY <3>1, <3>2 DEF TopOK
  <2>3. QED BY <2>1, <2>2
<1>13. StackInv'
  <2>1. ExclusiveOK' /\ CaptureOK'
    BY <1>1, <1>10, <1>11 DEF ExclusiveOK, CaptureOK, widgetVars
  <2>2. CaptorOK' BY <1>1, <1>3 DEF StackInv, CaptorOK
  <2>3. QED BY <1>12, <2>1, <2>2 DEF StackInv
<1>14. /\ captureAll' \in OrNone /\ exclusiveStack' \in Seq(Widget)
       /\ captureStack' \in Seq(Widget)
  BY <1>1, <1>3, <1>5 DEF TypeOK
<1>15. "RemoveExclusive" \in Statements \ (Kills \cup Switches)
  BY DEF Statements, Kills, Switches
<1>16. QED
  BY <1>1, <1>6, <1>7, <1>12, <1>13, <1>14, <1>15, QuietStackStep

LEMMA RemoveCaptureStep ==
  ASSUME IInv, NEW w, RemoveCapture(w)
  PROVE  IInv'
<1> DEFINE h == Stmt("RemoveCapture", w)
           left == FindErase(captureStack, w)
<1>1. /\ At("RemoveCapture", w) BY DEF RemoveCapture
<1>2. w \in Widget BY <1>1, HeadIs
<1>3. TypeOK /\ StackInv BY Known
<1>4. captureStack \in Seq(Widget) /\ Unique(captureStack)
  BY <1>3 DEF TypeOK, StackInv, CaptureOK, Kept
<1>5. /\ left \in Seq(Widget) /\ Unique(left) /\ Range(left) = Range(captureStack) \ {w}
      /\ captureStack # <<>> /\ Last(captureStack) # w =>
           left # <<>> /\ Last(left) = Last(captureStack)
  BY <1>2, <1>4, EraseLeaves
<1>6. PICK s, all :
        /\ AllFit(s) /\ Then(s) /\ captureStack' = left /\ captureAll' = all
        /\ all \in OrNone /\ all = IF left = <<>> THEN None ELSE Last(left)
        /\ UNCHANGED <<widgetVars, focusVars, top, exclusiveStack, crashed>>
  <2>1. CASE captureStack = <<>>
    <3>1. left = captureStack BY <2>1 DEF FindErase, Range
    <3>2. captureAll = None BY <1>3, <2>1 DEF StackInv, CaptorOK
    <3>3. Skip BY <2>1 DEF RemoveCapture
    <3>4. QED BY <2>1, <3>1, <3>2, <3>3, FitNone DEF Skip, stackVars, OrNone
  <2>2. CASE captureStack # <<>>
    <3> DEFINE a == CASE captureAll # w -> captureAll
                      [] left = <<>>    -> None
                      [] OTHER          -> Last(left)
               q == When(OK(a), <<Stmt("CheckCapture", a)>>)
    <3>1. /\ captureStack' = left /\ captureAll' = a /\ Then(q)
          /\ UNCHANGED <<widgetVars, focusVars, top, exclusiveStack, crashed>>
      BY <2>2 DEF RemoveCapture
    <3>2. captureAll = Last(captureStack) /\ captureAll \in Widget
      BY <1>3, <1>4, <2>2, LastIs DEF StackInv, CaptorOK
    <3>3. a = IF left = <<>> THEN None ELSE Last(left)
      <4>1. CASE captureAll # w BY <1>5, <2>2, <3>2, <4>1
      <4>2. CASE captureAll = w BY <4>2
      <4>3. QED BY <4>1, <4>2
    <3> HIDE DEF left
    <3>4. a \in OrNone BY <1>5, <3>3, LastIs DEF OrNone
    <3> HIDE DEF a
    <3>5. OK(a) => Fit(Stmt("CheckCapture", a)) BY <3>4, FitStmt DEF OK, OrNone
    <3>6. AllFit(q) BY <3>5, FitOne, FitWhen
    <3> HIDE DEF q
    <3>7. QED BY <3>1, <3>3, <3>4, <3>6
  <2>3. QED BY <2>1, <2>2
<1>7. Pending = {h} \cup Rest /\ Pending' = Range(s) \cup Rest
  BY <1>1, <1>6, StepIs DEF Switches, AllFit
<1>8. \A a \in Range(s) : a.op \in QuietOps BY <1>6 DEF AllFit, Fit, Quiet
<1>9. Kept(Capturing, left, captures, shown, Pending')
  <2>1. Capturing \in Kinds /\ h = Stmt(Capturing.remove, w) BY KindIs
  <2>2. Kept(Capturing, captureStack, captures, shown, {h} \cup Rest)
    BY <1>3, <1>7 DEF StackInv, CaptureOK
  <2> HIDE DEF h
  <2>3. Kept(Capturing, left, captures, shown, Range(s) \cup Rest)
    BY <1>2, <1>4, <1>8, <2>1, <2>2, RemoveKept
  <2>4. QED BY <1>7, <2>3
<1>10. Kept(Exclusivity, exclusiveStack, exclusives, shown, Pending')
  <2>1. Kept(Exclusivity, exclusiveStack, exclusives, shown, {h} \cup Rest)
    BY <1>3, <1>7 DEF StackInv, ExclusiveOK
  <2>2. Exclusivity \in Kinds BY KindIs
  <2>3. h.op \notin {Exclusivity.set, Exclusivity.remove, Exclusivity.push, Exclusivity.flag,
                     "CheckCapture", "InvalidateTarget"}
    BY KindIs DEF Stmt
  <2> HIDE DEF h
  <2>4. QED BY <1>7, <1>8, <2>1, <2>2, <2>3, OtherKept
<1> HIDE DEF left
<1>11. StackInv'
  <2>1. ExclusiveOK' /\ CaptureOK'
    BY <1>6, <1>9, <1>10 DEF ExclusiveOK, CaptureOK, widgetVars
  <2>2. TopOK' /\ CaptorOK' BY <1>3, <1>6 DEF StackInv, TopOK, CaptorOK
  <2>3. QED BY <2>1, <2>2 DEF StackInv
<1>12. /\ top' \in Widget /\ captureAll' \in OrNone /\ exclusiveStack' \in Seq(Widget)
       /\ captureStack' \in Seq(Widget)
  BY <1>3, <1>5, <1>6 DEF TypeOK
<1>13. "RemoveCapture" \in Statements \ (Kills \cup Switches)
  BY DEF Statements, Kills, Switches
<1>14. QED BY <1>1, <1>6, <1>11, <1>12, <1>13, QuietStackStep

LEMMA PushWaits ==
  ASSUME todo \in Seq(Stmts), InOrder, NEW k \in Kinds, NEW w, Valid(w), NEW s,
         Does(Stmt(k.push, w), s)
  PROVE  OnlyWaits(Rest, w, {Set(k.flag, w, TRUE)})
<1>1. SUFFICES ASSUME NEW b \in Rest, b.w = w, b.op \in Switching \cup Removes
               PROVE  b = Set(k.flag, w, TRUE)
  BY DEF OnlyWaits
<1>2. MayFollow(Stmt(k.push, w), b) BY RestFollows
<1>3. Alone(Stmt(k.push, w)) BY KindOps DEF Alone, Stmt
<1>4. b.on /\ <<k.push, b.op>> \in SameCall
  BY <1>1, <1>2, <1>3 DEF MayFollow, After, Late, Stmt
<1>5. b.op = k.flag BY <1>4, KindOps
<1>6. b \in Stmts BY DoesIs
<1>7. b = [op |-> b.op, w |-> b.w, on |-> b.on] /\ b.on = TRUE BY <1>4, <1>6 DEF Stmts
<1>8. QED BY <1>1, <1>5, <1>7 DEF Set

LEMMA PushExclusiveStep ==
  ASSUME IInv, NEW w, PushExclusive(w)
  PROVE  IInv'
<1> DEFINE h == Stmt("PushExclusive", w)
           more == Append(exclusiveStack, w)
           s == <<Stmt("ApplyTop", Root)>>
<1>1. /\ At("PushExclusive", w) /\ exclusiveStack' = more
      /\ top' = (IF Valid(w) THEN w ELSE Root) /\ Then(s)
      /\ UNCHANGED <<widgetVars, focusVars, captureStack, captureAll, crashed>>
  BY DEF PushExclusive
<1>2. w \in Widget BY <1>1, HeadIs
<1>3. TypeOK /\ InOrder /\ StackInv BY Known
<1>4. exclusiveStack \in Seq(Widget) BY <1>3 DEF TypeOK
<1>5. AllFit(s) BY FitRoot, FitOne
<1> HIDE DEF s
<1>6. /\ Pending = {h} \cup Rest /\ Pending' = Range(s) \cup Rest
      /\ Does(h, s) /\ todo \in Seq(Stmts)
  BY <1>1, <1>5, StepIs DEF Switches, AllFit
<1>7. \A a \in Range(s) : a.op \in QuietOps BY <1>5 DEF AllFit, Fit, Quiet
<1>8. /\ more \in Seq(Widget) /\ more # <<>> /\ Last(more) = w
      /\ Range(more) = Range(exclusiveStack) \cup {w}
      /\ Unique(exclusiveStack) /\ w \notin Range(exclusiveStack) => Unique(more)
  BY <1>2, <1>4, PushedLast
<1> HIDE DEF more
<1>9. Kept(Exclusivity, more, exclusives, shown, Pending')
  <2>1. Exclusivity \in Kinds /\ h = Stmt(Exclusivity.push, w) BY KindIs
  <2>2. Kept(Exclusivity, exclusiveStack, exclusives, shown, {h} \cup Rest)
    BY <1>3, <1>6 DEF StackInv, ExclusiveOK
  <2>3. w \notin Range(exclusiveStack) => Unique(more) BY <1>8, <2>2 DEF Kept
  <2> HIDE DEF h
  <2>4. OnlyWaits(Rest, w, {Set(Exclusivity.flag, w, TRUE)})
    <3>1. Agrees(Exclusivity, w, w \in Range(exclusiveStack), w \in exclusives, w \in shown,
                 {h} \cup Rest)
      BY <1>2, <2>2 DEF Kept
    <3>2. w \in shown BY <2>1, <3>1 DEF Agrees
    <3>3. Valid(w) BY <1>2, <3>2, KnownOf
    <3>4. QED BY <1>3, <1>6, <2>1, <3>3, PushWaits
  <2>5. Kept(Exclusivity, more, exclusives, shown, Range(s) \cup Rest)
    BY <1>2, <1>7, <1>8, <2>1, <2>2, <2>3, <2>4, PushKept
  <2>6. QED BY <1>6, <2>5
<1>10. Kept(Capturing, captureStack, captures, shown, Pending')
  <2>1. Kept(Capturing, captureStack, captures, shown, {h} \cup Rest)
    BY <1>3, <1>6 DEF StackInv, CaptureOK
  <2>2. Capturing \in Kinds BY KindIs
  <2>3. h.op \notin {Capturing.set, Capturing.remove, Capturing.push, Capturing.flag,
                     "CheckCapture", "InvalidateTarget"}
    BY KindIs DEF Stmt
  <2> HIDE DEF h
  <2>4. QED BY <1>6, <1>7, <2>1, <2>2, <2>3, OtherKept
<1>11. TopOK' /\ top' \in Widget BY <1>1, <1>2, <1>8, WidgetAssumption DEF TopOK
<1>12. StackInv'
  <2>1. ExclusiveOK' /\ CaptureOK'
    BY <1>1, <1>9, <1>10 DEF ExclusiveOK, CaptureOK, widgetVars
  <2>2. CaptorOK' BY <1>1, <1>3 DEF StackInv, CaptorOK
  <2>3. QED BY <1>11, <2>1, <2>2 DEF StackInv
<1>13. /\ captureAll' \in OrNone /\ exclusiveStack' \in Seq(Widget)
       /\ captureStack' \in Seq(Widget)
  BY <1>1, <1>3, <1>8 DEF TypeOK
<1>14. "PushExclusive" \in Statements \ (Kills \cup Switches)
  BY DEF Statements, Kills, Switches
<1>15. QED BY <1>1, <1>5, <1>11, <1>12, <1>13, <1>14, QuietStackStep

LEMMA PushCaptureStep ==
  ASSUME IInv, NEW w, PushCapture(w)
  PROVE  IInv'
<1> DEFINE h == Stmt("PushCapture", w)
           more == Append(captureStack, w)
           s == <<Stmt("SetFocus", w)>>
<1>1. /\ At("PushCapture", w) /\ captureStack' = more /\ captureAll' = w /\ Then(s)
      /\ UNCHANGED <<widgetVars, focusVars, top, exclusiveStack, crashed>>
  BY DEF PushCapture
<1>2. w \in Widget BY <1>1, HeadIs
<1>3. TypeOK /\ InOrder /\ StackInv BY Known
<1>4. captureStack \in Seq(Widget) BY <1>3 DEF TypeOK
<1>5. AllFit(s) BY <1>2, FitStmt, FitOne
<1> HIDE DEF s
<1>6. /\ Pending = {h} \cup Rest /\ Pending' = Range(s) \cup Rest
      /\ Does(h, s) /\ todo \in Seq(Stmts)
  BY <1>1, <1>5, StepIs DEF Switches, AllFit
<1>7. \A a \in Range(s) : a.op \in QuietOps BY <1>5 DEF AllFit, Fit, Quiet
<1>8. /\ more \in Seq(Widget) /\ more # <<>> /\ Last(more) = w
      /\ Range(more) = Range(captureStack) \cup {w}
      /\ Unique(captureStack) /\ w \notin Range(captureStack) => Unique(more)
  BY <1>2, <1>4, PushedLast
<1> HIDE DEF more
<1>9. Kept(Capturing, more, captures, shown, Pending')
  <2>1. Capturing \in Kinds /\ h = Stmt(Capturing.push, w) BY KindIs
  <2>2. Kept(Capturing, captureStack, captures, shown, {h} \cup Rest)
    BY <1>3, <1>6 DEF StackInv, CaptureOK
  <2>3. w \notin Range(captureStack) => Unique(more) BY <1>8, <2>2 DEF Kept
  <2> HIDE DEF h
  <2>4. OnlyWaits(Rest, w, {Set(Capturing.flag, w, TRUE)})
    <3>1. Agrees(Capturing, w, w \in Range(captureStack), w \in captures, w \in shown,
                 {h} \cup Rest)
      BY <1>2, <2>2 DEF Kept
    <3>2. w \in shown BY <2>1, <3>1 DEF Agrees
    <3>3. Valid(w) BY <1>2, <3>2, KnownOf
    <3>4. QED BY <1>3, <1>6, <2>1, <3>3, PushWaits
  <2>5. Kept(Capturing, more, captures, shown, Range(s) \cup Rest)
    BY <1>2, <1>7, <1>8, <2>1, <2>2, <2>3, <2>4, PushKept
  <2>6. QED BY <1>6, <2>5
<1>10. Kept(Exclusivity, exclusiveStack, exclusives, shown, Pending')
  <2>1. Kept(Exclusivity, exclusiveStack, exclusives, shown, {h} \cup Rest)
    BY <1>3, <1>6 DEF StackInv, ExclusiveOK
  <2>2. Exclusivity \in Kinds BY KindIs
  <2>3. h.op \notin {Exclusivity.set, Exclusivity.remove, Exclusivity.push, Exclusivity.flag,
                     "CheckCapture", "InvalidateTarget"}
    BY KindIs DEF Stmt
  <2> HIDE DEF h
  <2>4. QED BY <1>6, <1>7, <2>1, <2>2, <2>3, OtherKept
<1>11. StackInv'
  <2>1. ExclusiveOK' /\ CaptureOK'
    BY <1>1, <1>9, <1>10 DEF ExclusiveOK, CaptureOK, widgetVars
  <2>2. TopOK' BY <1>1, <1>3 DEF StackInv, TopOK
  <2>3. CaptorOK' BY <1>1, <1>8 DEF CaptorOK
  <2>4. QED BY <2>1, <2>2, <2>3 DEF StackInv
<1>12. /\ top' \in Widget /\ captureAll' \in OrNone /\ exclusiveStack' \in Seq(Widget)
       /\ captureStack' \in Seq(Widget)
  BY <1>1, <1>2, <1>3, <1>8 DEF TypeOK, OrNone
<1>13. "PushCapture" \in Statements \ (Kills \cup Switches)
  BY DEF Statements, Kills, Switches
<1>14. QED BY <1>1, <1>5, <1>11, <1>12, <1>13, QuietStackStep

\* FlagCapture and FlagExclusive: what does not depend on which it is.
LEMMA FlagIs ==
  ASSUME IInv, NEW k \in Kinds, NEW w, NEW on \in BOOLEAN, AtSet(k.flag, w, on), Then(<<>>),
         NEW stack, NEW flags, Kept(k, stack, flags, shown, Pending),
         NEW k2 \in Kinds, k2 # k, NEW stack2, NEW flags2,
         Kept(k2, stack2, flags2, shown, Pending), UNCHANGED <<status, parent>>
  PROVE  /\ w \in Widget /\ (on => Valid(w))
         /\ Does(Set(k.flag, w, on), <<>>) /\ Set(k.flag, w, on).op \notin Kills
         /\ Kept(k, stack, IF on THEN flags \cup {w} ELSE flags \ {w}, shown, Pending')
         /\ Kept(k2, stack2, flags2, shown, Pending')
         /\ InOrder'
<1> DEFINE h == Set(k.flag, w, on)
           S == Range(<<>>)
<1>1. /\ w \in Widget /\ h \in Pending /\ Does(h, <<>>) /\ todo \in Seq(Stmts)
      /\ Pending = {h} \cup Rest /\ Pending' = S \cup Rest
  <2> DEFINE s == <<>>
  <2>1. s \in Seq(Stmts) /\ Then(s) BY NoneAre
  <2> HIDE DEF s
  <2>2. /\ w \in Widget /\ Set(k.flag, w, on) \in Pending /\ todo \in Seq(Stmts)
        /\ Does(Set(k.flag, w, on), s)
        /\ Pending = {Set(k.flag, w, on)} \cup Rest /\ Pending' = Range(s) \cup Rest
    BY <2>1, SwitchIs
  <2>3. QED BY <2>2 DEF s
<1>2. S = {} BY NoneAre
<1>3. TypeOK /\ InOrder BY Known
<1>4. h.op = k.flag /\ h.w = w /\ h.on = on BY DEF Set
<1> HIDE DEF S
<1>5. h.op \notin Kills BY <1>4, KindOps
<1>6. on => Valid(w)
  <2>1. Agrees(k, w, w \in Range(stack), w \in flags, w \in shown, Pending)
    BY <1>1 DEF Kept
  <2>2. on => Set(k.flag, w, TRUE) \in Pending BY <1>1
  <2>3. on => w \in shown BY <2>1, <2>2 DEF Agrees
  <2>4. QED BY <1>1, <2>3, KnownOf
<1>7. on => OnlyWaits(Rest, w, {})
  <2>1. h.op \notin {"PushCapture", "PushExclusive"} BY <1>4, KindOps
  <2>2. on => Alone(h) BY <1>4 DEF Alone
  <2>3. QED BY <1>1, <1>3, <1>4, <1>6, <2>1, <2>2, AloneWaits
<1>8. InOrder'
  <2>1. TreeOK /\ \A v \in Widget : Valid(v)' => Valid(v) BY Known DEF Valid
  <2> HIDE DEF h
  <2>2. QED BY <1>1, <1>3, <2>1, QuietOrder, NoneAre
<1> DEFINE now == IF on THEN flags \cup {w} ELSE flags \ {w}
<1>9. Kept(k, stack, now, shown, S \cup Rest)
  <2>1. Kept(k, stack, flags, shown, {h} \cup Rest) BY <1>1
  <2>2. h = Set(k.flag, w, on) OBVIOUS
  <2>3. now = IF on THEN flags \cup {w} ELSE flags \ {w} OBVIOUS
  <2> HIDE DEF h, now
  <2>4. QED BY <1>1, <1>2, <1>7, <2>1, <2>2, <2>3, FlagKept
<1>10. Kept(k2, stack2, flags2, shown, S \cup Rest)
  <2>1. Kept(k2, stack2, flags2, shown, {h} \cup Rest) BY <1>1
  <2>2. h.op \notin {k2.set, k2.remove, k2.push, k2.flag, "CheckCapture", "InvalidateTarget"}
    BY <1>4, KindsDiffer
  <2>3. \A a \in S : a.op \in QuietOps BY <1>2
  <2> HIDE DEF h
  <2>4. QED BY <2>1, <2>2, <2>3, OtherKept
<1>11. QED BY <1>1, <1>5, <1>6, <1>8, <1>9, <1>10

LEMMA FlagCaptureStep ==
  ASSUME IInv, NEW w, NEW on \in BOOLEAN, FlagCapture(w, on)
  PROVE  IInv'
<1> DEFINE h == Set("FlagCapture", w, on)
<1>1. /\ AtSet("FlagCapture", w, on) /\ Then(<<>>)
      /\ captures' = (IF on THEN captures \cup {w} ELSE captures \ {w})
      /\ UNCHANGED <<status, parent, shown, exclusives, focusVars, stackVars, crashed>>
  BY DEF FlagCapture
<1>2. TypeOK /\ FlagsOK /\ StackInv BY Known
<1>3. /\ w \in Widget /\ (on => Valid(w))
      /\ Does(h, <<>>) /\ h.op \notin Kills
      /\ Kept(Capturing, captureStack, captures', shown, Pending')
      /\ Kept(Exclusivity, exclusiveStack, exclusives, shown, Pending')
      /\ InOrder'
  <2>1. /\ Kept(Capturing, captureStack, captures, shown, Pending)
        /\ Kept(Exclusivity, exclusiveStack, exclusives, shown, Pending)
    BY <1>2 DEF StackInv, CaptureOK, ExclusiveOK
  <2>2. AtSet(Capturing.flag, w, on) /\ h = Set(Capturing.flag, w, on) BY <1>1, KindIs
  <2> HIDE DEF h
  <2>3. QED BY <1>1, <2>1, <2>2, KindIs, FlagIs
<1>4. StackInv'
  <2>1. ExclusiveOK' /\ CaptureOK' BY <1>1, <1>3 DEF ExclusiveOK, CaptureOK, stackVars
  <2>2. TopOK' /\ CaptorOK' BY <1>1, <1>2 DEF StackInv, TopOK, CaptorOK, stackVars
  <2>3. QED BY <2>1, <2>2 DEF StackInv
<1>5. FlagsOK' BY <1>1, <1>2, <1>3 DEF FlagsOK, Valid
<1>6. \A a \in Range(<<>>) : StmtOK(a) /\ HandOK(a) /\ a.op \notin Kills BY NoneAre
<1>7. /\ captures' \subseteq Widget /\ exclusives' \subseteq Widget
      /\ top' \in Widget /\ captureAll' \in OrNone
      /\ exclusiveStack' \in Seq(Widget) /\ captureStack' \in Seq(Widget)
  BY <1>1, <1>2, <1>3 DEF TypeOK, stackVars
<1>8. UNCHANGED <<status, parent, shown, focusVars, calls, crashed>> BY <1>1 DEF Then
<1> HIDE DEF h
<1>9. QED BY <1>3, <1>4, <1>5, <1>6, <1>7, <1>8, StackStep

LEMMA FlagExclusiveStep ==
  ASSUME IInv, NEW w, NEW on \in BOOLEAN, FlagExclusive(w, on)
  PROVE  IInv'
<1> DEFINE h == Set("FlagExclusive", w, on)
<1>1. /\ AtSet("FlagExclusive", w, on) /\ Then(<<>>)
      /\ exclusives' = (IF on THEN exclusives \cup {w} ELSE exclusives \ {w})
      /\ UNCHANGED <<status, parent, shown, captures, focusVars, stackVars, crashed>>
  BY DEF FlagExclusive
<1>2. TypeOK /\ FlagsOK /\ StackInv BY Known
<1>3. /\ w \in Widget /\ (on => Valid(w))
      /\ Does(h, <<>>) /\ h.op \notin Kills
      /\ Kept(Exclusivity, exclusiveStack, exclusives', shown, Pending')
      /\ Kept(Capturing, captureStack, captures, shown, Pending')
      /\ InOrder'
  <2>1. /\ Kept(Capturing, captureStack, captures, shown, Pending)
        /\ Kept(Exclusivity, exclusiveStack, exclusives, shown, Pending)
    BY <1>2 DEF StackInv, CaptureOK, ExclusiveOK
  <2>2. AtSet(Exclusivity.flag, w, on) /\ h = Set(Exclusivity.flag, w, on) BY <1>1, KindIs
  <2> HIDE DEF h
  <2>3. QED BY <1>1, <2>1, <2>2, KindIs, FlagIs
<1>4. StackInv'
  <2>1. ExclusiveOK' /\ CaptureOK' BY <1>1, <1>3 DEF ExclusiveOK, CaptureOK, stackVars
  <2>2. TopOK' /\ CaptorOK' BY <1>1, <1>2 DEF StackInv, TopOK, CaptorOK, stackVars
  <2>3. QED BY <2>1, <2>2 DEF StackInv
<1>5. FlagsOK' BY <1>1, <1>2, <1>3 DEF FlagsOK, Valid
<1>6. \A a \in Range(<<>>) : StmtOK(a) /\ HandOK(a) /\ a.op \notin Kills BY NoneAre
<1>7. /\ captures' \subseteq Widget /\ exclusives' \subseteq Widget
      /\ top' \in Widget /\ captureAll' \in OrNone
      /\ exclusiveStack' \in Seq(Widget) /\ captureStack' \in Seq(Widget)
  BY <1>1, <1>2, <1>3 DEF TypeOK, stackVars
<1>8. UNCHANGED <<status, parent, shown, focusVars, calls, crashed>> BY <1>1 DEF Then
<1> HIDE DEF h
<1>9. QED BY <1>3, <1>4, <1>5, <1>6, <1>7, <1>8, StackStep

(***************************************************************************)
(* Destruction.                                                            *)
(***************************************************************************)

\* What is done to a widget that is destroyed, and what may be waiting meanwhile.
LEMMA KillIs ==
  ASSUME IInv, NEW op \in Kills, NEW w, At(op, w), NEW s \in Seq(Stmts), Then(s)
  PROVE  /\ w \in Widget /\ w # Root /\ op \in Statements
         /\ Does(Stmt(op, w), s) /\ Stmt(op, w) \in Pending
         /\ todo \in Seq(Stmts) /\ todo' \in Seq(Stmts) /\ calls' \in 0 .. MaxCalls
         /\ Rest \subseteq Stmts /\ Range(s) \subseteq Stmts
         /\ Pending = {Stmt(op, w)} \cup Rest /\ Pending' = Range(s) \cup Rest
         /\ \A b \in Rest :
              /\ b.op \in Firm => \/ b.w = w /\ <<op, b.op>> \in BlockOrder
                                  \/ b.w # w /\ w \notin Path(b.w)
              /\ b.op = "Destroy" => b.w = w \/ w \notin Path(b.w)
<1>1. op \notin Switches BY DEF Kills, Switches
<1>2. /\ w \in Widget /\ op \in Statements
      /\ Does(Stmt(op, w), s) /\ Stmt(op, w) \in Pending /\ StmtOK(Stmt(op, w))
      /\ todo \in Seq(Stmts) /\ todo' \in Seq(Stmts) /\ calls' \in 0 .. MaxCalls
      /\ Rest \subseteq Stmts /\ Range(s) \subseteq Stmts
      /\ Pending = {Stmt(op, w)} \cup Rest /\ Pending' = Range(s) \cup Rest
  BY <1>1, StepIs
<1>3. Stmt(op, w).op = op /\ Stmt(op, w).w = w BY <1>2, StmtIs
<1>4. w # Root BY <1>2, <1>3 DEF StmtOK
<1>5. ASSUME NEW b \in Rest
      PROVE  /\ b.op \in Firm => \/ b.w = w /\ <<op, b.op>> \in BlockOrder
                                 \/ b.w # w /\ w \notin Path(b.w)
             /\ b.op = "Destroy" => b.w = w \/ w \notin Path(b.w)
  <2>1. MayFollow(Stmt(op, w), b) BY <1>2, Known, RestFollows
  <2>2. QED BY <1>3, <2>1 DEF MayFollow, After
<1>6. QED BY <1>2, <1>4, <1>5

\* What comes after what, for the statement op of the same widget.
LEMMA BlockIs ==
  ASSUME NEW op, NEW op2, <<op, op2>> \in BlockOrder
  PROVE  /\ op2 \in {"Unparent", "InvalidateTarget", "Forget"}
         /\ op \in {"MarkInvalid", "Unparent", "InvalidateTarget"}
         /\ op = "Unparent" => op2 # "Unparent"
         /\ op = "InvalidateTarget" => op2 = "Forget"
BY DEF BlockOrder

\* What waits is in Range(s) or in what waited.
LEMMA WaitsIs ==
  ASSUME IInv, NEW op \in Kills, NEW w, At(op, w), NEW s \in Seq(Stmts), Then(s)
  PROVE  /\ \A o \in Kills, v \in Widget :
              P(o, v) <=> (o = op /\ v = w) \/ Stmt(o, v) \in Rest
         /\ \A o \in Kills, v \in Widget :
              P(o, v)' <=> Stmt(o, v) \in Range(s) \/ Stmt(o, v) \in Rest
         /\ \A o \in Destroying : Stmt(o, w) \in Rest => <<op, o>> \in BlockOrder
         /\ \A o \in Kills, v \in Widget :
              v # w /\ Stmt(o, v) \in Rest => w \notin Path(v)
<1>1. /\ Pending = {Stmt(op, w)} \cup Rest /\ Pending' = Range(s) \cup Rest /\ w \in Widget
      /\ \A b \in Rest :
           /\ b.op \in Firm => \/ b.w = w /\ <<op, b.op>> \in BlockOrder
                               \/ b.w # w /\ w \notin Path(b.w)
           /\ b.op = "Destroy" => b.w = w \/ w \notin Path(b.w)
  BY KillIs
<1>2. /\ \A o \in Kills, v \in Widget : Stmt(o, v).op = o /\ Stmt(o, v).w = v
      /\ Kills = Destroying \cup {"Destroy"} /\ Destroying \subseteq Firm
  BY DEF Stmt, Kills, Destroying, Firm
<1>3. \A o \in Kills, v \in Widget : Stmt(o, v) = Stmt(op, w) <=> o = op /\ v = w
  BY DEF Stmt
<1>4. \A o \in Kills, v \in Widget :
        P(o, v) <=> (o = op /\ v = w) \/ Stmt(o, v) \in Rest
  BY <1>1, <1>3 DEF P
<1>5. \A o \in Kills, v \in Widget :
        P(o, v)' <=> Stmt(o, v) \in Range(s) \/ Stmt(o, v) \in Rest
  BY <1>1 DEF P
<1>6. ASSUME NEW o \in Kills, NEW v \in Widget, Stmt(o, v) \in Rest
      PROVE  /\ v = w /\ o \in Destroying => <<op, o>> \in BlockOrder
             /\ v # w => w \notin Path(v)
  BY <1>1, <1>2, <1>6
<1>7. QED BY <1>1, <1>2, <1>4, <1>5, <1>6

\* The four statements that destroy a widget.
Block(w) == <<Stmt("MarkInvalid", w), Stmt("Unparent", w),
              Stmt("InvalidateTarget", w), Stmt("Forget", w)>>
LEMMA BlockIsOrdered ==
  ASSUME NEW w \in Widget
  PROVE  /\ Block(w) \in Seq(Stmts) /\ Ordered(Block(w))
         /\ Range(Block(w)) = {Stmt("MarkInvalid", w), Stmt("Unparent", w),
                               Stmt("InvalidateTarget", w), Stmt("Forget", w)}
<1> DEFINE a == Stmt("MarkInvalid", w)
           b == Stmt("Unparent", w)
           c == Stmt("InvalidateTarget", w)
           d == Stmt("Forget", w)
<1>1. /\ {"MarkInvalid", "Unparent", "InvalidateTarget", "Forget"} \subseteq Statements
      /\ {"MarkInvalid", "Unparent", "InvalidateTarget", "Forget"} \subseteq Kills
  BY DEF Statements, Kills
<1>2. a \in Stmts /\ b \in Stmts /\ c \in Stmts /\ d \in Stmts BY <1>1, StmtIs
<1>3. /\ MayFollow(a, b) /\ MayFollow(a, c) /\ MayFollow(a, d)
      /\ MayFollow(b, c) /\ MayFollow(b, d) /\ MayFollow(c, d)
  BY DEF MayFollow, After, Late, Alone, BlockOrder, Removes, Stmt
<1> HIDE DEF a, b, c, d
<1>4. Block(w) = <<a, b, c, d>> BY DEF Block, a, b, c, d
<1>5. Block(w) \in Seq(Stmts) /\ Range(Block(w)) = {a, b, c, d} BY <1>2, <1>4 DEF Range
<1>6. Ordered(Block(w))
  <2>1. /\ DOMAIN Block(w) = 1 .. 4 /\ Block(w)[1] = a /\ Block(w)[2] = b
        /\ Block(w)[3] = c /\ Block(w)[4] = d
    BY <1>4
  <2>2. \A i, j \in 1 .. 4 : i < j =>
          \/ i = 1 /\ (j = 2 \/ j = 3 \/ j = 4)
          \/ i = 2 /\ (j = 3 \/ j = 4)
          \/ i = 3 /\ j = 4
    OBVIOUS
  <2>3. QED BY <1>3, <2>1, <2>2 DEF Ordered
<1>7. QED BY <1>5, <1>6 DEF a, b, c, d

\* A destroyed widget: what the step has to show.
LEMMA KillStep ==
  ASSUME IInv, NEW op \in Kills, NEW w, At(op, w), NEW s \in Seq(Stmts), Then(s),
         \A a \in Range(s) : StmtOK(a),
         status' \in [Widget -> {"alive", "destroyed", "invalid", "gone"}],
         parent' \in [Widget -> OrNone],
         shown' \subseteq shown, captures' \subseteq captures, exclusives' \subseteq exclusives,
         focus' \in {focus, None}, active' \in {active, None},
         UNCHANGED stackVars, crashed' = FALSE,
         InOrder', TreeInv', FlagsOK', FocusInv',
         Kept(Exclusivity, exclusiveStack, exclusives', shown', Pending'),
         Kept(Capturing, captureStack, captures', shown', Pending')
  PROVE  IInv'
<1>1. /\ todo' \in Seq(Stmts) /\ Pending = {Stmt(op, w)} \cup Rest
      /\ Pending' = Range(s) \cup Rest /\ calls' \in 0 .. MaxCalls
  BY KillIs
<1>2. TypeOK /\ StackInv BY Known
<1>3. TypeOK' BY <1>1, <1>2 DEF TypeOK, Stmts, OrNone, stackVars
<1>4. \A a \in Pending' : StmtOK(a) BY <1>1 DEF IInv, Forms
<1>5. StackInv'
  <2>1. ExclusiveOK' /\ CaptureOK' BY DEF ExclusiveOK, CaptureOK, stackVars
  <2>2. TopOK' /\ CaptorOK' BY <1>2 DEF StackInv, TopOK, CaptorOK, stackVars
  <2>3. QED BY <2>1, <2>2 DEF StackInv
<1>6. QED BY <1>3, <1>4, <1>5 DEF IInv, Forms, StmtOK, NoNullContext

\* Destroy and Unparent and Forget touch nothing of a stack.
LEMMA NotOfKind ==
  ASSUME IInv, NEW op \in Kills \ {"MarkInvalid", "InvalidateTarget"}, NEW w, At(op, w),
         NEW s \in Seq(Stmts), Then(s), \A a \in Range(s) : a.op \in QuietOps \cup Kills,
         \A a \in Range(s) : a.op = "MarkInvalid" => op = "Destroy" /\ a.w = w
  PROVE  /\ Kept(Exclusivity, exclusiveStack, exclusives, shown, Pending')
         /\ Kept(Capturing, captureStack, captures, shown, Pending')
<1> DEFINE h == Stmt(op, w)
<1>1. /\ Pending = {h} \cup Rest /\ Pending' = Range(s) \cup Rest BY KillIs
<1>2. /\ Kept(Exclusivity, exclusiveStack, exclusives, shown, {h} \cup Rest)
      /\ Kept(Capturing, captureStack, captures, shown, {h} \cup Rest)
  BY <1>1, Known DEF StackInv, ExclusiveOK, CaptureOK
<1>3. ASSUME NEW k \in Kinds, NEW v \in Widget
      PROVE  SameAbout(k, v, {h} \cup Rest, Range(s) \cup Rest)
  <2>1. h.op = op /\ op \in Kills /\ op # "InvalidateTarget" BY DEF Stmt
  <2>2. h.op \notin {k.set, k.remove, k.push, k.flag, "CheckCapture", "InvalidateTarget"}
    BY <2>1, KindOps DEF Kills
  <2>3. \A a \in Range(s) : a.op \notin {k.remove, k.push, k.flag} BY KindOps
  <2>4. ASSUME Stmt("InvalidateTarget", v) \in {h} \cup Rest
        PROVE  Stmt("MarkInvalid", v) \notin Range(s)
    <3>1. SUFFICES ASSUME Stmt("MarkInvalid", v) \in Range(s) PROVE FALSE OBVIOUS
    <3>2. op = "Destroy" /\ v = w BY <3>1 DEF Stmt
    <3>3. Stmt("InvalidateTarget", w) \in Rest BY <2>1, <2>4, <3>2 DEF Stmt
    <3>4. <<op, "InvalidateTarget">> \in BlockOrder BY <3>3, WaitsIs DEF Destroying
    <3>5. QED BY <3>2, <3>4 DEF BlockOrder
  <2> HIDE DEF h
  <2>5. QED BY <2>2, <2>3, <2>4 DEF SameAbout, Leaving, Set, Stmt
<1> HIDE DEF h
<1>4. /\ Kept(Exclusivity, exclusiveStack, exclusives, shown, Range(s) \cup Rest)
      /\ Kept(Capturing, captureStack, captures, shown, Range(s) \cup Rest)
  BY <1>2, <1>3, KindIs, KeptBeside
<1>5. QED BY <1>1, <1>4

LEMMA DestroyStep ==
  ASSUME IInv, NEW w, Destroy(w)
  PROVE  IInv'
<1> DEFINE B == {v \in Widget : w \in Path(v)}
           tell == [i \in DOMAIN SetToSeq(B) |-> Stmt("Send", SetToSeq(B)[i])]
           t == When(status[w] = "alive", tell \o <<Stmt("SendDestroy", w)>>)
           s == t \o Block(w)
           h == Stmt("Destroy", w)
<1>1. /\ At("Destroy", w) /\ Then(When(Valid(w), s))
      /\ UNCHANGED <<widgetVars, focusVars, stackVars, crashed>>
  BY DEF Destroy, Block
<1>2. w \in Widget BY <1>1, HeadIs
<1>3. AllFit(t) /\ t \in Seq(Stmts)
  <2>1. AllFit(tell)
    <3>1. B \in SUBSET Widget OBVIOUS
    <3> HIDE DEF B
    <3>2. QED BY <3>1, FitForAll
  <2>2. AllFit(<<Stmt("SendDestroy", w)>>) BY <1>2, FitStmt, FitOne
  <2> HIDE DEF tell
  <2>3. AllFit(t) BY <2>1, <2>2, FitJoined, FitWhen
  <2>4. QED BY <2>3 DEF AllFit
<1>4. /\ Block(w) \in Seq(Stmts) /\ Ordered(Block(w))
      /\ Range(Block(w)) = {Stmt("MarkInvalid", w), Stmt("Unparent", w),
                            Stmt("InvalidateTarget", w), Stmt("Forget", w)}
  BY <1>2, BlockIsOrdered
<1> HIDE DEF t
<1>5. s \in Seq(Stmts) /\ Range(s) = Range(t) \cup Range(Block(w)) BY <1>3, <1>4, Joined
<1> HIDE DEF s
<1>6. /\ TypeOK /\ InOrder /\ TreeInv /\ TreeOK /\ FlagsOK /\ FocusInv /\ StackInv
      /\ crashed = FALSE
  BY Known
<1>7. CASE ~Valid(w)
  <2>1. Then(<<>>) BY <1>1, <1>7 DEF When
  <2>2. Does(h, <<>>) /\ calls' \in 0 .. MaxCalls
    <3> DEFINE e == <<>>
    <3>1. e \in Seq(Stmts) /\ Then(e) BY <2>1, NoneAre
    <3>2. "Destroy" \in Kills BY DEF Kills
    <3> HIDE DEF e
    <3>3. Does(h, e) /\ calls' \in 0 .. MaxCalls BY <1>1, <3>1, <3>2, KillIs
    <3>4. QED BY <3>3 DEF e
  <2>3. h.op = "Destroy" /\ h.w = w /\ "Destroy" \in QuietOps BY DEF Stmt, QuietOps
  <2>4. /\ GivesUp(h, Range(<<>>) \cup Rest, Exclusivity, exclusives)
        /\ GivesUp(h, Range(<<>>) \cup Rest, Capturing, captures)
    BY <2>3, NothingToGive, KindIs
  <2> HIDE DEF h
  <2>5. QED BY <1>1, <1>2, <1>6, <1>7, <2>2, <2>3, <2>4, FitNone, QuietDoes DEF focusVars
<1>8. CASE Valid(w)
  <2>1. Then(s) /\ "Destroy" \in Kills BY <1>1, <1>8 DEF When, Kills
  <2>2. /\ w # Root /\ Does(h, s) /\ todo \in Seq(Stmts)
        /\ Rest \subseteq Stmts /\ Range(s) \subseteq Stmts
        /\ Pending = {h} \cup Rest /\ Pending' = Range(s) \cup Rest
        /\ \A b \in Rest :
             /\ b.op \in Firm => b.w # w /\ w \notin Path(b.w)
             /\ b.op = "Destroy" => b.w = w \/ w \notin Path(b.w)
    <3>1. /\ w # Root /\ Does(h, s) /\ todo \in Seq(Stmts)
          /\ Rest \subseteq Stmts /\ Range(s) \subseteq Stmts
          /\ Pending = {h} \cup Rest /\ Pending' = Range(s) \cup Rest
          /\ \A b \in Rest :
               /\ b.op \in Firm => \/ b.w = w /\ <<"Destroy", b.op>> \in BlockOrder
                                   \/ b.w # w /\ w \notin Path(b.w)
               /\ b.op = "Destroy" => b.w = w \/ w \notin Path(b.w)
      BY <1>1, <1>5, <2>1, KillIs
    <3>2. \A op : <<"Destroy", op>> \notin BlockOrder BY DEF BlockOrder
    <3>3. QED BY <3>1, <3>2
  <2>3. \A a \in Range(t) : Quiet(a) /\ StmtOK(a) /\ HandOK(a) BY <1>3 DEF AllFit, Fit
  <2>4. \A a \in Range(Block(w)) : /\ a.op \in Kills \ {"Destroy"} /\ a.w = w /\ ~a.on
                                   /\ StmtOK(a) /\ HandOK(a)
    <3>1. \A a \in Range(Block(w)) : /\ a.op \in Kills \ {"Destroy"} /\ a.w = w /\ ~a.on
                                     /\ a.op \notin {"ApplyTop", "Refocus", "SetFocusInput",
                                          "FocusParent", "SetActive", "PutActive"}
      BY <1>4 DEF Stmt, Kills
    <3>2. QED BY <2>2, <3>1 DEF StmtOK, HandOK
  <2>5. InOrder'
    <3>1. \A a \in Range(t) : Late(a) /\ \A b : After(a, b) BY <2>3, QuietFirst
    <3>2. Ordered(t)
      <4>1. \A i \in DOMAIN t : t[i] \in Range(t) BY DEF Range
      <4>2. QED BY <3>1, <4>1 DEF Ordered, MayFollow
    <3>3. \A a \in Range(Block(w)) : Late(a) BY <2>4 DEF Late, Kills, Removes
    <3>4. Ordered(s)
      <4>1. \A a \in Range(t), b \in Range(Block(w)) : MayFollow(a, b)
        BY <3>1, <3>3 DEF MayFollow
      <4>2. QED BY <1>3, <1>4, <3>2, <4>1, OrderedJoined DEF s
    <3>5. ASSUME NEW a \in Range(Block(w)), NEW b \in Rest PROVE After(a, b)
      <4>1. a.w = w /\ ~a.on /\ a.op \notin {"SetVisible", "PushCapture", "PushExclusive"}
        BY <2>4 DEF Kills
      <4>2. ~Alone(a) BY <4>1 DEF Alone
      <4>3. QED BY <2>2, <4>1, <4>2 DEF After
    <3>6. \A b \in Rest : Late(b) BY <1>6, <2>2, RestFollows DEF MayFollow
    <3>7. \A a \in Range(s), b \in Rest : MayFollow(a, b)
      BY <1>5, <3>1, <3>5, <3>6 DEF MayFollow
    <3>8. /\ UNCHANGED parent
          /\ \A v \in Widget : Valid(v)' => Valid(v)
      BY <1>1 DEF widgetVars, Valid
    <3>9. QED BY <1>6, <2>2, <3>4, <3>7, <3>8, OrderStays DEF Ordered
  <2>6. /\ \A op \in Kills \ {"Destroy"}, v \in Widget : P(op, v)' <=> P(op, v) \/ v = w
        /\ \A v \in Widget : P("Destroy", v) => P("Destroy", v)' \/ v = w
    <3>1. /\ \A o \in Kills, v \in Widget :
              P(o, v) <=> (o = "Destroy" /\ v = w) \/ Stmt(o, v) \in Rest
          /\ \A o \in Kills, v \in Widget :
              P(o, v)' <=> Stmt(o, v) \in Range(s) \/ Stmt(o, v) \in Rest
      BY <1>1, <1>5, <2>1, WaitsIs
    <3>2. \A o \in Kills \ {"Destroy"}, v \in Widget : Stmt(o, v) \in Range(s) <=> v = w
      <4>1. \A o \in Kills \ {"Destroy"}, v \in Widget : Stmt(o, v) \notin Range(t)
        BY <2>3 DEF Quiet, QuietOps, Kills, Stmt
      <4>2. \A o \in Kills \ {"Destroy"}, v \in Widget :
              Stmt(o, v) \in Range(Block(w)) <=> v = w
        BY <1>4 DEF Kills, Stmt
      <4>3. QED BY <1>5, <4>1, <4>2
    <3>3. ASSUME NEW o \in Kills \ {"Destroy"}, NEW v \in Widget
          PROVE  P(o, v)' <=> P(o, v) \/ v = w
      BY <3>1, <3>2
    <3>4. QED BY <3>1, <3>3 DEF Kills
  <2>7. TreeInv'
    <3>1. ASSUME NEW v \in Widget PROVE WidgetOK(v)'
      <4>1. WidgetOK(v) /\ (parent[v] # None => parent[v] \in Widget) BY KnownOf
      <4>2. /\ UNCHANGED <<status, parent>>
            /\ (Valid(v)' <=> Valid(v)) /\ (Valid(parent[v])' <=> Valid(parent[v]))
        BY <1>1 DEF widgetVars, Valid
      <4>3. v = w => status[v] # "gone" BY <1>8 DEF Valid
      <4>4. \A op \in {"MarkInvalid", "Unparent", "InvalidateTarget", "Forget"}, x \in Widget :
              P(op, x)' <=> P(op, x) \/ x = w
        BY <2>6 DEF Kills
      <4>5. parent[v] # None => (P("InvalidateTarget", parent[v])' <=>
                                 P("InvalidateTarget", parent[v]) \/ parent[v] = w)
        BY <4>1, <4>2, <4>4
      <4>6. P("Destroy", v) => P("Destroy", v)' \/ v = w BY <2>6
      <4>7. QED BY <1>8, <4>1, <4>2, <4>3, <4>4, <4>5, <4>6 DEF WidgetOK
    <3>2. TreeOK' /\ Valid(Root)' /\ Root \in shown'
      BY <1>1, <1>6 DEF TreeInv, TreeOK, widgetVars, Valid
    <3>3. QED BY <3>1, <3>2 DEF TreeInv
  <2>8. FlagsOK' BY <1>1, <1>6 DEF FlagsOK, Valid, widgetVars
  <2>9. FocusInv'
    <3>1. \A v \in Widget : Held(v) => Held(v)'
      BY <1>1, <2>6 DEF Held, Valid, widgetVars, Kills
    <3>2. ASSUME NEW a \in Pending' PROVE HandOK(a)'
      <4>1. HandOK(a) BY <1>5, <1>6, <2>2, <2>3, <2>4 DEF FocusInv
      <4>2. a.w \in Widget BY <1>5, <2>2 DEF Stmts
      <4>3. QED BY <1>1, <3>1, <4>1, <4>2 DEF HandOK, Valid, widgetVars
    <3>3. focus \in OrNone /\ active \in OrNone /\ focus' = focus /\ active' = active
      BY <1>1, <1>6 DEF TypeOK, focusVars
    <3>4. QED BY <1>6, <3>1, <3>2, <3>3, FocusStays
  <2>10. /\ Kept(Exclusivity, exclusiveStack, exclusives, shown, Pending')
         /\ Kept(Capturing, captureStack, captures, shown, Pending')
    <3>1. "Destroy" \in Kills \ {"MarkInvalid", "InvalidateTarget"} BY DEF Kills
    <3>2. \A a \in Range(s) : a.op \in QuietOps \cup Kills
      BY <1>5, <2>3, <2>4 DEF Quiet
    <3>3. \A a \in Range(s) : a.op = "MarkInvalid" => a.w = w
      BY <1>5, <2>3, <2>4 DEF Quiet, QuietOps
    <3>4. QED BY <1>1, <1>5, <2>1, <3>1, <3>2, <3>3, NotOfKind
  <2>11. \A a \in Range(s) : StmtOK(a) BY <1>5, <2>3, <2>4
  <2>12. /\ status' \in [Widget -> {"alive", "destroyed", "invalid", "gone"}]
         /\ parent' \in [Widget -> OrNone]
         /\ shown' = shown /\ captures' = captures /\ exclusives' = exclusives
         /\ focus' = focus /\ active' = active /\ UNCHANGED stackVars /\ crashed' = FALSE
    BY <1>1, <1>6 DEF TypeOK, widgetVars, focusVars
  <2>13. QED
    BY <1>1, <1>5, <2>1, <2>5, <2>7, <2>8, <2>9, <2>10, <2>11, <2>12, KillStep
<1>9. QED BY <1>7, <1>8

\* The children of a destroyed widget, told to go, one after the other.
LEMMA ChildrenGo ==
  ASSUME TreeOK, NEW w \in Widget, NEW q,
         q = [i \in DOMAIN Children(w) |-> Stmt("Destroy", Children(w)[i])],
         \A c \in Widget : parent[c] = w => c # Root
  PROVE  /\ q \in Seq(Stmts)
         /\ \A i, j \in DOMAIN q : i < j => After(q[i], q[j])
         /\ Range(q) = {Stmt("Destroy", c) : c \in {v \in Widget : parent[v] = w}}
         /\ \A a \in Range(q) : /\ StmtOK(a) /\ HandOK(a) /\ a.op = "Destroy" /\ ~a.on
                                /\ parent[a.w] = w
         /\ \A a \in Range(q), v \in Widget :
              v = w \/ w \notin Path(v) => a.w # v /\ a.w \notin Path(v)
<1> DEFINE C == {v \in Widget : parent[v] = w}
<1>1. "Destroy" \in Statements /\ C \in SUBSET Widget /\ Children(w) = SetToSeq(C)
  BY DEF Statements, Operations, Children
<1>2. q = [i \in DOMAIN SetToSeq(C) |-> Stmt("Destroy", SetToSeq(C)[i])] BY <1>1
<1>3. \A c \in C : c \in Widget /\ c # Root /\ parent[c] = w BY DEF C
<1> HIDE DEF C
<1>4. /\ q \in Seq(Stmts) /\ Range(q) = {Stmt("Destroy", c) : c \in C}
      /\ \A i, j \in DOMAIN q : i # j => q[i].w # q[j].w
  BY <1>1, <1>2, StatementsFor
<1>5. ASSUME NEW a \in Range(q)
      PROVE  a.w \in C /\ a.op = "Destroy" /\ a.on = FALSE /\ StmtOK(a) /\ HandOK(a)
  <2>1. a.w \in C /\ a.op = "Destroy" /\ a.on = FALSE BY <1>4 DEF Stmt
  <2>2. QED BY <1>3, <2>1 DEF StmtOK, HandOK
<1>6. ASSUME NEW c \in C, NEW v \in Widget, v = w \/ w \notin Path(v)
      PROVE  c # v /\ c \notin Path(v)
  <2>1. c \in Widget /\ parent[c] = w /\ w # None BY <1>3, WidgetAssumption
  <2>2. w \in Path(c) BY <2>1, PathSelf, PathUp
  <2>3. c \notin Path(w) /\ w \in Path(w) BY <2>1, Acyclic, PathSelf
  <2>4. c \in Path(v) => w \in Path(v) BY <2>1, PathUp
  <2>5. QED BY <1>6, <2>2, <2>3, <2>4
<1>7. ASSUME NEW c \in C, NEW d \in C, c # d PROVE c \notin Path(d)
  <2>1. c \in Widget /\ d \in Widget /\ parent[d] = w /\ w # None BY <1>3, WidgetAssumption
  <2>2. Path(d) = {d} \cup Path(w) BY <2>1, PathOfChild
  <2>3. c \notin Path(w) BY <1>6
  <2>4. QED BY <1>7, <2>2, <2>3
<1>8. ASSUME NEW i \in DOMAIN q, NEW j \in DOMAIN q, i < j PROVE After(q[i], q[j])
  <2>1. q[i] \in Range(q) /\ q[j] \in Range(q) BY DEF Range
  <2>2. Len(q) \in Nat /\ DOMAIN q = 1 .. Len(q) BY <1>4, LenProperties
  <2>3. i # j BY <1>8, <2>2
  <2>4. q[i].w # q[j].w BY <1>4, <2>3
  <2>5. q[i].w \notin Path(q[j].w) BY <1>5, <1>7, <2>1, <2>4
  <2>6. ~Alone(q[i]) BY <1>5, <2>1 DEF Alone
  <2>7. QED BY <2>4, <2>5, <2>6 DEF After
<1>9. \A a \in Range(q), v \in Widget :
        v = w \/ w \notin Path(v) => a.w # v /\ a.w \notin Path(v)
  BY <1>5, <1>6
<1>10. QED BY <1>3, <1>4, <1>5, <1>8, <1>9 DEF C

LEMMA MarkInvalidStep ==
  ASSUME IInv, NEW w, MarkInvalid(w)
  PROVE  IInv'
<1> DEFINE h == Stmt("MarkInvalid", w)
<1>0. PICK s : s = [i \in DOMAIN Children(w) |-> Stmt("Destroy", Children(w)[i])] OBVIOUS
<1>1. /\ At("MarkInvalid", w) /\ Then(s)
      /\ status' = [status EXCEPT ![w] = "invalid"]
      /\ shown' = shown \ {w} /\ captures' = captures \ {w} /\ exclusives' = exclusives \ {w}
      /\ UNCHANGED <<parent, focusVars, stackVars, crashed>>
  BY <1>0 DEF MarkInvalid
<1>2. /\ TypeOK /\ InOrder /\ TreeInv /\ TreeOK /\ FlagsOK /\ FocusInv /\ StackInv
      /\ crashed = FALSE
  BY Known
<1>3. w \in Widget BY <1>1, HeadIs
<1>4. \A c \in Widget : parent[c] = w => c # Root BY <1>3, <1>2, WidgetAssumption DEF TreeOK
<1>5. /\ s \in Seq(Stmts) /\ \A i, j \in DOMAIN s : i < j => After(s[i], s[j])
      /\ Range(s) = {Stmt("Destroy", c) : c \in {v \in Widget : parent[v] = w}}
      /\ \A a \in Range(s) : /\ StmtOK(a) /\ HandOK(a) /\ a.op = "Destroy" /\ ~a.on
                             /\ parent[a.w] = w
      /\ \A a \in Range(s), v \in Widget :
           v = w \/ w \notin Path(v) => a.w # v /\ a.w \notin Path(v)
  BY <1>0, <1>2, <1>3, <1>4, ChildrenGo
<1>6. /\ w # Root /\ Does(h, s) /\ h \in Pending /\ todo \in Seq(Stmts)
      /\ Rest \subseteq Stmts /\ Range(s) \subseteq Stmts
      /\ Pending = {h} \cup Rest /\ Pending' = Range(s) \cup Rest
      /\ \A b \in Rest :
           /\ b.op \in Firm => \/ b.w = w /\ <<"MarkInvalid", b.op>> \in BlockOrder
                               \/ b.w # w /\ w \notin Path(b.w)
           /\ b.op = "Destroy" => b.w = w \/ w \notin Path(b.w)
  BY <1>1, <1>5, KillIs DEF Kills
<1>7. /\ \A o \in Kills, v \in Widget :
           P(o, v) <=> (o = "MarkInvalid" /\ v = w) \/ Stmt(o, v) \in Rest
      /\ \A o \in Kills, v \in Widget :
           P(o, v)' <=> Stmt(o, v) \in Range(s) \/ Stmt(o, v) \in Rest
      /\ Stmt("MarkInvalid", w) \notin Rest
  <2>1. "MarkInvalid" \in Kills BY DEF Kills
  <2>2. /\ \A o \in Kills, v \in Widget :
             P(o, v) <=> (o = "MarkInvalid" /\ v = w) \/ Stmt(o, v) \in Rest
        /\ \A o \in Kills, v \in Widget :
             P(o, v)' <=> Stmt(o, v) \in Range(s) \/ Stmt(o, v) \in Rest
        /\ \A o \in Destroying : Stmt(o, w) \in Rest => <<"MarkInvalid", o>> \in BlockOrder
    BY <1>1, <1>5, <2>1, WaitsIs
  <2>3. <<"MarkInvalid", "MarkInvalid">> \notin BlockOrder /\ "MarkInvalid" \in Destroying
    BY DEF BlockOrder, Destroying
  <2>4. QED BY <2>1, <2>2, <2>3
<1>8. /\ \A o \in {"Unparent", "InvalidateTarget", "Forget"}, v \in Widget :
           P(o, v)' <=> P(o, v)
      /\ \A v \in Widget : P("MarkInvalid", v)' <=> P("MarkInvalid", v) /\ v # w
      /\ \A v \in Widget : P("Destroy", v) \/ parent[v] = w => P("Destroy", v)'
  <2>1. \A o \in Kills, v \in Widget :
          Stmt(o, v) \in Range(s) <=> o = "Destroy" /\ parent[v] = w
    BY <1>5 DEF Stmt
  <2>2. /\ \A o \in {"Unparent", "InvalidateTarget", "Forget"} :
             o \in Kills /\ o # "Destroy" /\ o # "MarkInvalid"
        /\ "MarkInvalid" \in Kills /\ "MarkInvalid" # "Destroy" /\ "Destroy" \in Kills
    BY DEF Kills
  <2>3. ASSUME NEW o \in {"Unparent", "InvalidateTarget", "Forget"}, NEW v \in Widget
        PROVE  P(o, v)' <=> P(o, v)
    BY <1>7, <2>1, <2>2
  <2>4. ASSUME NEW v \in Widget
        PROVE  P("MarkInvalid", v)' <=> P("MarkInvalid", v) /\ v # w
    BY <1>7, <2>1, <2>2
  <2>5. ASSUME NEW v \in Widget, P("Destroy", v) \/ parent[v] = w PROVE P("Destroy", v)'
    BY <1>7, <2>1, <2>2, <2>5
  <2>6. QED BY <2>3, <2>4, <2>5
<1>9. Valid(w) /\ P("Unparent", w) /\ P("InvalidateTarget", w) /\ P("Forget", w)
  BY <1>3, <1>6, KnownOf DEF WidgetOK, P
<1>10. \A v \in Widget : v # w => status'[v] = status[v] BY <1>1, <1>2 DEF TypeOK
<1>11. status'[w] = "invalid" BY <1>1, <1>2, <1>3 DEF TypeOK
<1>12. InOrder'
  <2>1. /\ UNCHANGED parent
        /\ \A v \in Widget : Valid(v)' => Valid(v)
    BY <1>1, <1>10, <1>11 DEF Valid
  <2>2. /\ \A a, b \in Stmts : After(a, b) => After(a, b)'
        /\ \A b \in Stmts : Late(b) => Late(b)'
        /\ \A a, b \in Stmts : MayFollow(a, b) => MayFollow(a, b)'
    BY <1>2, <2>1, OrderLasts
  <2>3. ASSUME NEW a \in Range(s), NEW b \in Rest PROVE MayFollow(a, b)'
    <3>1. a.op = "Destroy" /\ ~a.on BY <1>5
    <3>2. ~Alone(a) BY <3>1 DEF Alone
    <3>3. b \in Stmts /\ b.w \in Widget /\ a \in Stmts BY <1>6 DEF Stmts
    <3>4. b.w = w \/ w \notin Path(b.w) => a.w # b.w /\ a.w \notin Path(b.w)
      BY <1>5, <3>3
    <3>5. After(a, b) BY <1>6, <3>2, <3>4 DEF After
    <3>6. Late(b) BY <1>2, <1>6, RestFollows DEF MayFollow
    <3>7. QED BY <2>2, <3>3, <3>5, <3>6 DEF MayFollow
  <2>4. ASSUME NEW a \in Range(s) PROVE Late(a)'
    <3>1. a.op = "Destroy" /\ parent'[a.w] = w BY <1>1, <1>5
    <3>2. ~Valid(w)' BY <1>11 DEF Valid
    <3>3. QED BY <3>1, <3>2 DEF Late, Removes, Valid
  <2>5. \A i \in DOMAIN s : s[i] \in Range(s) BY DEF Range
  <2>6. ASSUME NEW i \in DOMAIN s, NEW j \in DOMAIN s, i < j PROVE MayFollow(s[i], s[j])'
    <3>1. s[i] \in Stmts /\ s[j] \in Stmts /\ After(s[i], s[j]) BY <1>5, <1>6, <2>5, <2>6
    <3>2. After(s[i], s[j])' BY <2>2, <3>1
    <3>3. QED BY <2>4, <2>5, <3>2 DEF MayFollow
  <2>7. QED BY <1>2, <1>6, <2>2, <2>3, <2>6, OrderNext
<1>13. TreeInv'
  <2>1. ASSUME NEW v \in Widget PROVE WidgetOK(v)'
    <3>1. WidgetOK(v) /\ (parent[v] # None => parent[v] \in Widget) BY KnownOf
    <3>2. /\ UNCHANGED parent
          /\ (Valid(v)' <=> Valid(v) /\ v # w)
          /\ status'[v] = IF v = w THEN "invalid" ELSE status[v]
      BY <1>1, <1>10, <1>11 DEF Valid
    <3>3. parent[v] # None =>
            (Valid(parent[v])' <=> Valid(parent[v]) /\ parent[v] # w)
      BY <1>1, <1>10, <1>11, <3>1 DEF Valid
    <3>4. parent[v] # None =>
            (P("InvalidateTarget", parent[v])' <=> P("InvalidateTarget", parent[v]))
      BY <1>8, <3>1, <3>2
    <3>5. \A o \in {"Unparent", "InvalidateTarget", "Forget"} : P(o, v)' <=> P(o, v)
      BY <1>8
    <3>6. /\ P("MarkInvalid", v)' <=> P("MarkInvalid", v) /\ v # w
          /\ P("Destroy", v) \/ parent[v] = w => P("Destroy", v)'
      BY <1>8
    <3>7. QED BY <1>3, <1>9, <3>1, <3>2, <3>3, <3>4, <3>5, <3>6 DEF WidgetOK
  <2>2. TreeOK' BY <1>1, <1>2 DEF TreeOK
  <2>3. Valid(Root)' /\ Root \in shown'
    BY <1>1, <1>2, <1>6, <1>10, WidgetAssumption DEF TreeInv, Valid
  <2>4. QED BY <2>1, <2>2, <2>3 DEF TreeInv
<1>14. FlagsOK'
  BY <1>1, <1>2, <1>10 DEF FlagsOK, Valid
<1>15. FocusInv'
  <2>1. \A v \in Widget : Held(v) => Held(v)' BY <1>8, <1>9, <1>10 DEF Held, Valid
  <2>2. ASSUME NEW a \in Pending' PROVE HandOK(a)'
    <3>1. CASE a \in Range(s) BY <1>5, <3>1 DEF HandOK
    <3>2. CASE a \in Rest
      <4>1. HandOK(a) /\ a.w \in Widget BY <1>2, <1>6, <3>2 DEF FocusInv, Stmts
      <4>2. a.op \in {"FocusParent", "SetActive", "PutActive"} => a.w # w
        BY <1>6, <3>2, BlockIs DEF Firm, Giving
      <4>3. a.op \in {"FocusParent", "SetActive", "PutActive"} => Valid(a.w)'
        BY <1>10, <4>1, <4>2 DEF HandOK, Valid
      <4>4. a.op = "SetFocusInput" => Held(a.w)' BY <2>1, <4>1 DEF HandOK
      <4>5. QED BY <4>3, <4>4 DEF HandOK
    <3>3. QED BY <1>6, <3>1, <3>2
  <2>3. focus \in OrNone /\ active \in OrNone /\ focus' = focus /\ active' = active
    BY <1>1, <1>2 DEF TypeOK, focusVars
  <2>4. QED BY <1>2, <2>1, <2>2, <2>3, FocusStays
<1>16. /\ Kept(Exclusivity, exclusiveStack, exclusives', shown', Pending')
       /\ Kept(Capturing, captureStack, captures', shown', Pending')
  <2>1. h.w = w /\ h.op = "MarkInvalid" BY DEF Stmt
  <2>2. \A b \in Rest : b.w = w => b.op \notin Switching
    BY <1>6, BlockIs DEF Firm, Switching
  <2>3. Leaving(w, Range(s) \cup Rest)
    <3>1. Stmt("InvalidateTarget", w) \in Rest BY <1>3, <1>7, <1>9 DEF Kills
    <3>2. Stmt("MarkInvalid", w) \notin Range(s) BY <1>5 DEF Stmt
    <3>3. QED BY <1>7, <3>1, <3>2 DEF Leaving
  <2>4. /\ Kept(Exclusivity, exclusiveStack, exclusives, shown, {h} \cup Rest)
        /\ Kept(Capturing, captureStack, captures, shown, {h} \cup Rest)
    BY <1>2, <1>6 DEF StackInv, ExclusiveOK, CaptureOK
  <2> HIDE DEF h
  <2>5. ASSUME NEW k \in Kinds, NEW stack, NEW flags,
               Kept(k, stack, flags, shown, {h} \cup Rest)
        PROVE  Kept(k, stack, flags \ {w}, shown \ {w}, Range(s) \cup Rest)
    <3>1. \A a \in Range(s) :
            a.op \notin {k.push, k.flag, "MarkInvalid"} /\ (a.op = k.remove => a.w = w)
      BY <1>5, KindOps DEF Kills
    <3>2. h.op \in {"MarkInvalid", "InvalidateTarget"} BY <2>1
    <3>3. QED BY <1>3, <2>1, <2>2, <2>3, <2>5, <3>1, <3>2, DeadKept
  <2>6. /\ Kept(Exclusivity, exclusiveStack, exclusives \ {w}, shown \ {w}, Range(s) \cup Rest)
        /\ Kept(Capturing, captureStack, captures \ {w}, shown \ {w}, Range(s) \cup Rest)
    BY <2>4, <2>5, KindIs
  <2>7. QED BY <1>1, <1>6, <2>6
<1>17. status' \in [Widget -> {"alive", "destroyed", "invalid", "gone"}]
  BY <1>1, <1>2 DEF TypeOK
<1>18. /\ parent' \in [Widget -> OrNone] /\ focus' = focus /\ active' = active
       /\ UNCHANGED stackVars /\ crashed' = FALSE
       /\ shown' \subseteq shown /\ captures' \subseteq captures
       /\ exclusives' \subseteq exclusives
  BY <1>1, <1>2 DEF TypeOK, focusVars
<1>19. "MarkInvalid" \in Kills /\ \A a \in Range(s) : StmtOK(a) BY <1>5 DEF Kills
<1>20. QED
  BY <1>1, <1>5, <1>12, <1>13, <1>14, <1>15, <1>16, <1>17, <1>18, <1>19, KillStep

\* Without a parent a widget is under less.
LEMMA PathShrinks ==
  ASSUME TreeOK, NEW w \in Widget, parent' = [parent EXCEPT ![w] = None], NEW v \in Widget
  PROVE  Path(v)' \subseteq Path(v)
<1>1. \A x \in Widget : parent'[x] = IF x = w THEN None ELSE parent[x] BY DEF TreeOK
<1>2. ASSUME NEW x \in Path(v)' PROVE x \in Path(v)
  <2>1. /\ x \in Widget
        /\ \A S \in SUBSET Widget :
             v \in S /\ (\A y \in S : parent'[y] # None => parent'[y] \in S) => x \in S
    BY <1>2 DEF Path
  <2>2. ASSUME NEW S, IsLine(v, S) PROVE x \in S
    <3>1. \A y \in S : parent'[y] # None => parent'[y] \in S
      BY <1>1, <2>2 DEF IsLine
    <3>2. QED BY <2>1, <2>2, <3>1 DEF IsLine
  <2>3. QED BY <2>1, <2>2, PathIs
<1>3. QED BY <1>2

LEMMA UnparentStep ==
  ASSUME IInv, NEW w, Unparent(w)
  PROVE  IInv'
<1> DEFINE u == When(OK(parent[w]), <<Stmt("Send", parent[w])>>)
           h == Stmt("Unparent", w)
<1>1. /\ At("Unparent", w) /\ Then(u) /\ parent' = [parent EXCEPT ![w] = None]
      /\ UNCHANGED <<status, shown, captures, exclusives, focusVars, stackVars, crashed>>
  BY DEF Unparent
<1>2. /\ TypeOK /\ InOrder /\ TreeInv /\ TreeOK /\ FlagsOK /\ FocusInv /\ StackInv
      /\ crashed = FALSE
  BY Known
<1>3. w \in Widget BY <1>1, HeadIs
<1>4. PICK s : s = u OBVIOUS
<1>5. s \in Seq(Stmts) /\ \A a \in Range(s) : a.op = "Send" /\ Quiet(a) /\ StmtOK(a) /\ HandOK(a)
  <2>1. CASE ~OK(parent[w])
    <3>1. s = <<>> BY <1>4, <2>1 DEF When
    <3>2. QED BY <3>1, NoneAre
  <2>2. CASE OK(parent[w])
    <3>1. s = <<Stmt("Send", parent[w])>> BY <1>4, <2>2 DEF When
    <3>2. parent[w] \in Widget BY <1>2, <1>3, <2>2 DEF OK, TreeOK, OrNone
    <3>3. Fit(Stmt("Send", parent[w])) /\ Stmt("Send", parent[w]).op = "Send"
      BY <3>2, FitStmt DEF Stmt
    <3>4. Range(s) = {Stmt("Send", parent[w])} /\ s \in Seq(Stmts)
      BY <3>1, <3>3, OneIs DEF Fit
    <3>5. QED BY <3>3, <3>4 DEF Fit
  <2>3. QED BY <2>1, <2>2
<1>6. Then(s) BY <1>1, <1>4
<1> HIDE DEF u
<1>7. /\ w # Root /\ Does(h, s) /\ h \in Pending /\ todo \in Seq(Stmts)
      /\ Rest \subseteq Stmts /\ Range(s) \subseteq Stmts
      /\ Pending = {h} \cup Rest /\ Pending' = Range(s) \cup Rest
  BY <1>1, <1>5, <1>6, KillIs DEF Kills
<1>8. /\ \A o \in Kills, v \in Widget :
           P(o, v) <=> (o = "Unparent" /\ v = w) \/ Stmt(o, v) \in Rest
      /\ \A o \in Kills, v \in Widget :
           P(o, v)' <=> Stmt(o, v) \in Range(s) \/ Stmt(o, v) \in Rest
      /\ Stmt("Unparent", w) \notin Rest /\ Stmt("MarkInvalid", w) \notin Rest
  <2>1. "Unparent" \in Kills BY DEF Kills
  <2>2. /\ \A o \in Kills, v \in Widget :
             P(o, v) <=> (o = "Unparent" /\ v = w) \/ Stmt(o, v) \in Rest
        /\ \A o \in Kills, v \in Widget :
             P(o, v)' <=> Stmt(o, v) \in Range(s) \/ Stmt(o, v) \in Rest
        /\ \A o \in Destroying : Stmt(o, w) \in Rest => <<"Unparent", o>> \in BlockOrder
    BY <1>1, <1>5, <1>6, <2>1, WaitsIs
  <2>3. /\ <<"Unparent", "Unparent">> \notin BlockOrder
        /\ <<"Unparent", "MarkInvalid">> \notin BlockOrder
    BY DEF BlockOrder
  <2>4. "Unparent" \in Destroying /\ "MarkInvalid" \in Destroying BY DEF Destroying
  <2>5. QED BY <2>2, <2>3, <2>4
<1>9. /\ \A o \in Kills, v \in Widget :
           P(o, v)' <=> P(o, v) /\ ~(o = "Unparent" /\ v = w)
      /\ ~P("MarkInvalid", w)
  <2>1. \A o \in Kills, v \in Widget : Stmt(o, v) \notin Range(s)
    BY <1>5 DEF Stmt, Kills
  <2>2. ASSUME NEW o \in Kills, NEW v \in Widget
        PROVE  P(o, v)' <=> P(o, v) /\ ~(o = "Unparent" /\ v = w)
    BY <1>8, <2>1
  <2>3. ~P("MarkInvalid", w) BY <1>3, <1>8 DEF Kills
  <2>4. QED BY <2>2, <2>3
<1>10. ~Valid(w) BY <1>3, <1>7, <1>9, KnownOf DEF WidgetOK, P
<1>11. \A v \in Widget : parent'[v] = IF v = w THEN None ELSE parent[v]
  BY <1>1, <1>2 DEF TreeOK
<1>12. InOrder'
  <2>1. ASSUME NEW x \in Stmts, NEW y \in Stmts, After(x, y) PROVE After(x, y)'
    <3>1. Path(y.w)' \subseteq Path(y.w) BY <1>1, <1>2, <1>3, PathShrinks DEF Stmts
    <3>2. x.w \notin Path(y.w) => x.w \notin Path(y.w)' BY <3>1
    <3>3. QED BY <2>1, <3>2 DEF After
  <2>2. ASSUME NEW y \in Stmts, Late(y) PROVE Late(y)'
    <3>1. y.w \in Widget BY DEF Stmts
    <3>2. parent'[y.w] \in {None, parent[y.w]} BY <1>11, <3>1
    <3>3. status' = status BY <1>1
    <3>4. y.op \in Removes => ~Valid(y.w)' BY <2>2, <3>3 DEF Late, Valid
    <3>5. y.op = "Destroy" => parent'[y.w] = None \/ status'[parent'[y.w]] \notin {"alive", "destroyed"}
      BY <2>2, <3>2, <3>3 DEF Late, Valid
    <3>6. QED BY <3>4, <3>5 DEF Late, Valid
  <2>3. \A x, y \in Stmts : MayFollow(x, y) => MayFollow(x, y)'
    BY <2>1, <2>2 DEF MayFollow
  <2>4. \A x \in Range(s) : Late(x)' /\ \A y : After(x, y)'
    BY <1>5 DEF Quiet, After, Kills, Alone, Late, Removes
  <2>5. \A y \in Rest : Late(y)'
    BY <1>2, <1>7, <2>2, RestFollows DEF MayFollow
  <2>6. \A i \in DOMAIN s : s[i] \in Range(s) BY DEF Range
  <2>7. \A i, j \in DOMAIN s : i < j => MayFollow(s[i], s[j])'
    BY <2>4, <2>6 DEF MayFollow
  <2>8. \A x \in Range(s), y \in Rest : MayFollow(x, y)' BY <2>4, <2>5 DEF MayFollow
  <2>9. QED BY <1>2, <1>7, <2>3, <2>7, <2>8, OrderNext
<1>13. TreeInv'
  <2>1. ASSUME NEW v \in Widget PROVE WidgetOK(v)'
    <3>1. WidgetOK(v) /\ (parent[v] # None => parent[v] \in Widget) BY KnownOf
    <3>2. (Valid(v)' <=> Valid(v)) /\ status'[v] = status[v]
      BY <1>1 DEF Valid
    <3>3. \A o \in {"MarkInvalid", "InvalidateTarget", "Forget"} : P(o, v)' <=> P(o, v)
      BY <1>9 DEF Kills
    <3>4. CASE v = w
      <4>1. parent'[v] = None /\ ~Valid(v)' /\ ~P("MarkInvalid", v)' /\ ~P("Unparent", v)'
        BY <1>9, <1>10, <1>11, <3>2, <3>4 DEF Kills
      <4>2. QED BY <3>1, <3>2, <3>3, <4>1 DEF WidgetOK
    <3>5. CASE v # w
      <4>1. parent'[v] = parent[v] BY <1>11, <3>5
      <4>2. (P("Unparent", v)' <=> P("Unparent", v)) /\ (P("Destroy", v)' <=> P("Destroy", v))
        BY <1>9, <3>5 DEF Kills
      <4>3. parent[v] # None =>
              /\ Valid(parent[v])' <=> Valid(parent[v])
              /\ P("InvalidateTarget", parent[v])' <=> P("InvalidateTarget", parent[v])
        <5>1. \A x \in Widget : P("InvalidateTarget", x)' <=> P("InvalidateTarget", x)
          BY <1>9 DEF Kills
        <5>2. \A x \in Widget : Valid(x)' <=> Valid(x) BY <1>1 DEF Valid
        <5>3. SUFFICES ASSUME NEW x \in Widget, x = parent[v]
                       PROVE  /\ Valid(parent[v])' <=> Valid(parent[v])
                              /\ P("InvalidateTarget", parent[v])' <=>
                                 P("InvalidateTarget", parent[v])
          BY <3>1
        <5>4. x = parent'[v] BY <4>1, <5>3
        <5>5. QED BY <5>1, <5>2, <5>3, <5>4 DEF P, Valid
      <4>4. QED BY <3>1, <3>2, <3>3, <4>1, <4>2, <4>3 DEF WidgetOK
    <3>6. QED BY <3>4, <3>5
  <2>2. TreeOK' BY <1>2, <1>11, <1>1 DEF TreeOK, OrNone
  <2>3. Valid(Root)' /\ Root \in shown' BY <1>1, <1>2 DEF TreeInv, Valid
  <2>4. QED BY <2>1, <2>2, <2>3 DEF TreeInv
<1>14. FlagsOK' BY <1>1, <1>2 DEF FlagsOK, Valid
<1>15. FocusInv'
  <2>1. \A v \in Widget : Held(v) => Held(v)' BY <1>1, <1>9 DEF Held, Valid, Kills
  <2>2. ASSUME NEW a \in Pending' PROVE HandOK(a)'
    <3>1. HandOK(a) /\ a.w \in Widget BY <1>2, <1>5, <1>7 DEF FocusInv, Stmts
    <3>2. QED BY <1>1, <2>1, <3>1 DEF HandOK, Valid
  <2>3. focus \in OrNone /\ active \in OrNone /\ focus' = focus /\ active' = active
    BY <1>1, <1>2 DEF TypeOK, focusVars
  <2>4. QED BY <1>2, <2>1, <2>2, <2>3, FocusStays
<1>16. /\ Kept(Exclusivity, exclusiveStack, exclusives, shown, Pending')
       /\ Kept(Capturing, captureStack, captures, shown, Pending')
  <2>1. "Unparent" \in Kills \ {"MarkInvalid", "InvalidateTarget"} BY DEF Kills
  <2>2. \A a \in Range(s) : a.op \in QuietOps \cup Kills BY <1>5 DEF Quiet
  <2>3. \A a \in Range(s) : a.op # "MarkInvalid" BY <1>5
  <2>4. QED BY <1>1, <1>5, <1>6, <2>1, <2>2, <2>3, NotOfKind
<1>17. /\ status' \in [Widget -> {"alive", "destroyed", "invalid", "gone"}]
       /\ parent' \in [Widget -> OrNone]
       /\ shown' = shown /\ captures' = captures /\ exclusives' = exclusives
       /\ focus' = focus /\ active' = active /\ UNCHANGED stackVars /\ crashed' = FALSE
  BY <1>1, <1>2 DEF TypeOK, focusVars, OrNone
<1>18. "Unparent" \in Kills BY DEF Kills
<1>19. QED
  BY <1>1, <1>5, <1>6, <1>12, <1>13, <1>14, <1>15, <1>16, <1>17, <1>18, KillStep

LEMMA ForgetStep ==
  ASSUME IInv, NEW w, Forget(w)
  PROVE  IInv'
<1> DEFINE h == Stmt("Forget", w)
           u == <<>>
<1>1. /\ At("Forget", w) /\ Then(u) /\ status' = [status EXCEPT ![w] = "gone"]
      /\ UNCHANGED <<parent, shown, captures, exclusives, focusVars, stackVars, crashed>>
  BY DEF Forget
<1>2. /\ TypeOK /\ InOrder /\ TreeInv /\ TreeOK /\ FlagsOK /\ FocusInv /\ StackInv
      /\ crashed = FALSE
  BY Known
<1>3. w \in Widget BY <1>1, HeadIs
<1>4. u \in Seq(Stmts) /\ Range(u) = {} BY NoneAre
<1>5. Ordered(u) BY DEF Ordered
<1> HIDE DEF u
<1>6. /\ w # Root /\ Does(h, u) /\ h \in Pending /\ todo \in Seq(Stmts)
      /\ Rest \subseteq Stmts /\ Pending = {h} \cup Rest /\ Pending' = Rest
  <2>1. "Forget" \in Kills BY DEF Kills
  <2>2. /\ w # Root /\ Does(h, u) /\ h \in Pending /\ todo \in Seq(Stmts)
        /\ Rest \subseteq Stmts /\ Pending = {h} \cup Rest /\ Pending' = Range(u) \cup Rest
    BY <1>1, <1>4, <2>1, KillIs
  <2>3. QED BY <1>4, <2>2
<1>7. /\ \A o \in Kills, v \in Widget :
           P(o, v) <=> (o = "Forget" /\ v = w) \/ Stmt(o, v) \in Rest
      /\ \A o \in Kills, v \in Widget : P(o, v)' <=> Stmt(o, v) \in Rest
      /\ \A o \in Destroying : Stmt(o, w) \notin Rest
  <2>1. "Forget" \in Kills BY DEF Kills
  <2>2. /\ \A o \in Kills, v \in Widget :
             P(o, v) <=> (o = "Forget" /\ v = w) \/ Stmt(o, v) \in Rest
        /\ \A o \in Kills, v \in Widget :
             P(o, v)' <=> Stmt(o, v) \in Range(u) \/ Stmt(o, v) \in Rest
        /\ \A o \in Destroying : Stmt(o, w) \in Rest => <<"Forget", o>> \in BlockOrder
    BY <1>1, <1>4, <2>1, WaitsIs
  <2>3. QED BY <1>4, <2>2, BlockIs
<1>8. /\ \A o \in Destroying, v \in Widget : P(o, v)' <=> P(o, v) /\ v # w
      /\ \A v \in Widget : P("Destroy", v)' <=> P("Destroy", v)
  <2>1. Destroying \subseteq Kills /\ "Destroy" \in Kills BY DEF Destroying, Kills
  <2>2. ASSUME NEW o \in Destroying, NEW v \in Widget PROVE P(o, v)' <=> P(o, v) /\ v # w
    BY <1>7, <2>1
  <2>3. ASSUME NEW v \in Widget PROVE P("Destroy", v)' <=> P("Destroy", v)
    BY <1>7, <2>1
  <2>4. QED BY <2>2, <2>3
<1>9. ~P("MarkInvalid", w) /\ ~P("Unparent", w) /\ ~P("InvalidateTarget", w)
  BY <1>3, <1>7 DEF Kills, Destroying
<1>10. ~Valid(w) /\ parent[w] = None BY <1>3, <1>6, <1>9, KnownOf DEF WidgetOK, P
<1>11. /\ \A v \in Widget : v # w => status'[v] = status[v]
       /\ status'[w] = "gone"
  BY <1>1, <1>2, <1>3 DEF TypeOK
<1>12. \A v \in Widget : Valid(v)' <=> Valid(v) BY <1>10, <1>11 DEF Valid
<1>13. InOrder'
  <2>1. \A a \in Range(u), b \in Rest : MayFollow(a, b) BY <1>4
  <2>2. UNCHANGED parent BY <1>1
  <2>3. \A v \in Widget : Valid(v)' => Valid(v) BY <1>12
  <2>4. QED BY <1>2, <1>5, <1>6, <2>1, <2>2, <2>3, OrderStays DEF Ordered
<1>14. TreeInv'
  <2>1. ASSUME NEW v \in Widget PROVE WidgetOK(v)'
    <3>1. WidgetOK(v) /\ (parent[v] # None => parent[v] \in Widget) BY KnownOf
    <3>2. parent' = parent /\ (Valid(v)' <=> Valid(v)) BY <1>1, <1>12
    <3>3. CASE v = w
      <4>1. /\ ~P("MarkInvalid", v)' /\ ~P("Unparent", v)'
            /\ ~P("InvalidateTarget", v)' /\ ~P("Forget", v)'
        BY <1>8, <3>3 DEF Destroying
      <4>2. QED BY <1>10, <1>11, <3>2, <3>3, <4>1 DEF WidgetOK
    <3>4. CASE v # w
      <4>1. \A o \in Kills : P(o, v)' <=> P(o, v) BY <1>8, <3>4 DEF Kills, Destroying
      <4>2. status'[v] = status[v] BY <1>11, <3>4
      <4>3. parent[v] # None /\ ~Valid(parent[v]) => parent[v] # w
        <5>1. SUFFICES ASSUME parent[v] = w PROVE FALSE OBVIOUS
        <5>2. P("InvalidateTarget", w)
          BY <1>3, <1>10, <3>1, <5>1, WidgetAssumption DEF WidgetOK
        <5>3. QED BY <1>9, <5>2
      <4>4. parent[v] # None =>
              /\ Valid(parent[v])' <=> Valid(parent[v])
              /\ P("InvalidateTarget", parent[v]) /\ parent[v] # w =>
                   P("InvalidateTarget", parent[v])'
        BY <1>8, <1>12, <3>1, <3>2 DEF Destroying
      <4>5. QED BY <3>1, <3>2, <4>1, <4>2, <4>3, <4>4 DEF WidgetOK, Kills
    <3>5. QED BY <3>3, <3>4
  <2>2. TreeOK' BY <1>1, <1>2 DEF TreeOK
  <2>3. Valid(Root)' /\ Root \in shown'
    BY <1>1, <1>2, <1>12, WidgetAssumption DEF TreeInv
  <2>4. QED BY <2>1, <2>2, <2>3 DEF TreeInv
<1>15. FlagsOK' BY <1>1, <1>2, <1>12 DEF FlagsOK
<1>16. FocusInv'
  <2>1. \A v \in Widget : Held(v) => Held(v)'
    <3>1. QED BY <1>8, <1>9, <1>12 DEF Held, Destroying
  <2>2. ASSUME NEW a \in Pending' PROVE HandOK(a)'
    <3>1. HandOK(a) /\ a.w \in Widget BY <1>2, <1>6 DEF FocusInv, Stmts
    <3>2. QED BY <1>12, <2>1, <3>1 DEF HandOK
  <2>3. focus \in OrNone /\ active \in OrNone /\ focus' = focus /\ active' = active
    BY <1>1, <1>2 DEF TypeOK, focusVars
  <2>4. QED BY <1>2, <2>1, <2>2, <2>3, FocusStays
<1>17. /\ Kept(Exclusivity, exclusiveStack, exclusives, shown, Pending')
       /\ Kept(Capturing, captureStack, captures, shown, Pending')
  <2>1. "Forget" \in Kills \ {"MarkInvalid", "InvalidateTarget"} BY DEF Kills
  <2>2. \A a \in Range(u) : a.op \in QuietOps \cup Kills /\ a.op # "MarkInvalid" BY <1>4
  <2>3. QED BY <1>1, <1>4, <2>1, <2>2, NotOfKind
<1>18. /\ status' \in [Widget -> {"alive", "destroyed", "invalid", "gone"}]
       /\ parent' \in [Widget -> OrNone]
       /\ shown' = shown /\ captures' = captures /\ exclusives' = exclusives
       /\ focus' = focus /\ active' = active /\ UNCHANGED stackVars /\ crashed' = FALSE
  BY <1>1, <1>2 DEF TypeOK, focusVars, OrNone
<1>19. "Forget" \in Kills /\ \A a \in Range(u) : StmtOK(a) BY <1>4 DEF Kills
<1>20. QED
  BY <1>1, <1>4, <1>13, <1>14, <1>15, <1>16, <1>17, <1>18, <1>19, KillStep

LEMMA InvalidateTargetStep ==
  ASSUME IInv, NEW w, InvalidateTarget(w)
  PROVE  IInv'
<1> DEFINE a == Stmt("RemoveExclusive", w)
           b == Stmt("RemoveCapture", w)
           u1 == <<a, b>>
           u2 == When(focus = w, <<Stmt("Refocus", Root)>>)
           u == u1 \o u2
           h == Stmt("InvalidateTarget", w)
<1>1. /\ At("InvalidateTarget", w) /\ Then(u)
      /\ crashed' = (crashed \/ status[w] = "gone")
      /\ active' = (IF active = w THEN None ELSE active)
      /\ focus' = (IF focus = w THEN None ELSE focus)
      /\ UNCHANGED <<widgetVars, stackVars>>
  BY DEF InvalidateTarget
<1>2. /\ TypeOK /\ InOrder /\ TreeInv /\ TreeOK /\ FlagsOK /\ FocusInv /\ StackInv
      /\ crashed = FALSE
  BY Known
<1>3. w \in Widget BY <1>1, HeadIs
<1>4. /\ a \in Stmts /\ a.op = "RemoveExclusive" /\ a.w = w /\ ~a.on
      /\ b \in Stmts /\ b.op = "RemoveCapture" /\ b.w = w /\ ~b.on
  BY <1>3, StmtIs DEF Statements
<1>5. AllFit(u2) BY FitRoot, FitOne, FitWhen
<1>6. \A x \in Range(u2) : x \in Stmts /\ x.op = "Refocus" /\ ~x.on /\ StmtOK(x) /\ HandOK(x)
  <2>1. Range(u2) \subseteq {Stmt("Refocus", Root)}
    <3>1. Fit(Stmt("Refocus", Root)) BY FitRoot
    <3>2. QED BY <3>1, OneIs, NoneAre DEF When, Fit
  <2>2. Stmt("Refocus", Root).op = "Refocus" /\ Stmt("Refocus", Root).on = FALSE
    BY DEF Stmt
  <2>3. \A x \in Range(u2) : Fit(x) BY <1>5 DEF AllFit
  <2>4. QED BY <2>1, <2>2, <2>3 DEF Fit
<1> HIDE DEF a, b
<1>7. u1 \in Seq(Stmts) /\ Range(u1) = {a, b} BY <1>4, TwoAre
<1> HIDE DEF u1, u2
<1>8. u \in Seq(Stmts) /\ Range(u) = {a, b} \cup Range(u2)
  BY <1>5, <1>7, Joined DEF AllFit
<1> HIDE DEF u
<1>9. /\ w # Root /\ Does(h, u) /\ h \in Pending /\ todo \in Seq(Stmts)
      /\ Rest \subseteq Stmts /\ Range(u) \subseteq Stmts
      /\ Pending = {h} \cup Rest /\ Pending' = Range(u) \cup Rest
      /\ \A y \in Rest :
           y.op \in Firm => \/ y.w = w /\ <<"InvalidateTarget", y.op>> \in BlockOrder
                            \/ y.w # w /\ w \notin Path(y.w)
  BY <1>1, <1>8, KillIs DEF Kills
<1>10. \A x \in Range(u) : /\ x.op \in {"RemoveExclusive", "RemoveCapture", "Refocus"} /\ ~x.on
                           /\ (x.op # "Refocus" => x.w = w)
                           /\ StmtOK(x) /\ HandOK(x)
  <2>1. \A x \in {a, b} : StmtOK(x) /\ HandOK(x) BY <1>4 DEF StmtOK, HandOK, Kills
  <2>2. QED BY <1>4, <1>6, <1>8, <2>1
<1>11. /\ \A o \in Kills, v \in Widget :
            P(o, v) <=> (o = "InvalidateTarget" /\ v = w) \/ Stmt(o, v) \in Rest
       /\ \A o \in Kills, v \in Widget :
            P(o, v)' <=> Stmt(o, v) \in Range(u) \/ Stmt(o, v) \in Rest
       /\ \A o \in Destroying : Stmt(o, w) \in Rest => o = "Forget"
       /\ \A o \in Kills, v \in Widget : v # w /\ Stmt(o, v) \in Rest => w \notin Path(v)
  <2>1. "InvalidateTarget" \in Kills BY DEF Kills
  <2>2. /\ \A o \in Kills, v \in Widget :
             P(o, v) <=> (o = "InvalidateTarget" /\ v = w) \/ Stmt(o, v) \in Rest
        /\ \A o \in Kills, v \in Widget :
             P(o, v)' <=> Stmt(o, v) \in Range(u) \/ Stmt(o, v) \in Rest
        /\ \A o \in Destroying :
             Stmt(o, w) \in Rest => <<"InvalidateTarget", o>> \in BlockOrder
        /\ \A o \in Kills, v \in Widget :
             v # w /\ Stmt(o, v) \in Rest => w \notin Path(v)
    BY <1>1, <1>8, <2>1, WaitsIs
  <2>3. \A o : <<"InvalidateTarget", o>> \in BlockOrder => o = "Forget" BY BlockIs
  <2>4. QED BY <2>2, <2>3
<1>12. \A o \in Kills, v \in Widget :
         P(o, v)' <=> P(o, v) /\ ~(o = "InvalidateTarget" /\ v = w)
  <2>1. \A o \in Kills, v \in Widget : Stmt(o, v) \notin Range(u)
    BY <1>10 DEF Stmt, Kills
  <2>2. ASSUME NEW o \in Kills, NEW v \in Widget
        PROVE  P(o, v)' <=> P(o, v) /\ ~(o = "InvalidateTarget" /\ v = w)
    BY <1>11, <2>1 DEF Destroying
  <2>3. QED BY <2>2
<1>13. ~P("MarkInvalid", w) BY <1>3, <1>11 DEF Kills, Destroying
<1>14. ~Valid(w) /\ status[w] # "gone" BY <1>3, <1>9, <1>13, KnownOf DEF WidgetOK, P
<1>15. UNCHANGED <<status, parent, shown, captures, exclusives>> /\ crashed' = FALSE
  BY <1>1, <1>2, <1>14 DEF widgetVars
<1>16. InOrder'
  <2>1. \A x \in Range(u) : Late(x) /\ \A y : After(x, y)
    BY <1>10, <1>14 DEF After, Late, Removes, Alone, Kills
  <2>2. \A y \in Rest : Late(y) BY <1>2, <1>9, RestFollows DEF MayFollow
  <2>3. Ordered(u)
    <3>1. \A i \in DOMAIN u : u[i] \in Range(u) BY DEF Range
    <3>2. QED BY <2>1, <3>1 DEF Ordered, MayFollow
  <2>4. \A x \in Range(u), y \in Rest : MayFollow(x, y) BY <2>1, <2>2 DEF MayFollow
  <2>5. \A v \in Widget : Valid(v)' => Valid(v) BY <1>15 DEF Valid
  <2>6. UNCHANGED parent BY <1>15
  <2>7. QED BY <1>2, <1>9, <2>3, <2>4, <2>5, <2>6, OrderStays DEF Ordered
<1>17. TreeInv'
  <2>1. ASSUME NEW v \in Widget PROVE WidgetOK(v)'
    <3>1. WidgetOK(v) /\ (parent[v] # None => parent[v] \in Widget) BY KnownOf
    <3>2. /\ parent' = parent /\ status' = status
          /\ (Valid(v)' <=> Valid(v)) /\ (Valid(parent[v])' <=> Valid(parent[v]))
      BY <1>15 DEF Valid
    <3>3. \A o \in Kills : P(o, v)' <=> P(o, v) /\ ~(o = "InvalidateTarget" /\ v = w)
      BY <1>12
    <3>4. parent[v] # None /\ ~Valid(parent[v]) => parent[v] # w
      <4>1. SUFFICES ASSUME parent[v] = w PROVE FALSE OBVIOUS
      <4>2. P("Destroy", v) \/ P("MarkInvalid", v) \/ P("Unparent", v)
        BY <1>3, <1>14, <3>1, <4>1, WidgetAssumption DEF WidgetOK
      <4>3. w \in Path(v) /\ w # v
        BY <1>2, <1>3, <4>1, PathSelf, PathUp, Acyclic, WidgetAssumption
      <4>4. QED BY <1>11, <4>2, <4>3 DEF Kills
    <3>5. parent[v] # None /\ parent[v] # w =>
            (P("InvalidateTarget", parent[v])' <=> P("InvalidateTarget", parent[v]))
      BY <1>12, <3>1, <3>2 DEF Kills
    <3>6. CASE v = w
      <4>1. ~P("InvalidateTarget", v)' /\ ~P("MarkInvalid", v)' /\ ~Valid(v)'
        BY <1>13, <1>14, <3>2, <3>3, <3>6 DEF Kills
      <4>2. \A o \in {"Destroy", "MarkInvalid", "Unparent", "Forget"} : P(o, v)' <=> P(o, v)
        BY <3>3 DEF Kills
      <4>3. QED BY <3>1, <3>2, <3>4, <3>5, <4>1, <4>2 DEF WidgetOK
    <3>7. CASE v # w
      <4>1. \A o \in {"Destroy", "MarkInvalid", "Unparent", "InvalidateTarget", "Forget"} :
              P(o, v)' <=> P(o, v)
        BY <3>3, <3>7 DEF Kills
      <4>2. QED BY <3>1, <3>2, <3>4, <3>5, <4>1 DEF WidgetOK
    <3>8. QED BY <3>6, <3>7
  <2>2. TreeOK' /\ Valid(Root)' /\ Root \in shown'
    BY <1>2, <1>15 DEF TreeInv, TreeOK, Valid
  <2>3. QED BY <2>1, <2>2 DEF TreeInv
<1>18. FlagsOK' BY <1>2, <1>15 DEF FlagsOK, Valid
<1>19. FocusInv'
  <2>1. \A v \in Widget \ {w} : Held(v) => Held(v)'
    BY <1>12, <1>15 DEF Held, Valid, Kills
  <2>2. ASSUME NEW x \in Pending' PROVE HandOK(x)'
    <3>1. CASE x \in Range(u) BY <1>10, <3>1 DEF HandOK
    <3>2. CASE x \in Rest
      <4>1. HandOK(x) /\ x.w \in Widget BY <1>2, <1>9, <3>2 DEF FocusInv, Stmts
      <4>2. x.op = "SetFocusInput" => x.w # w
        BY <1>9, <3>2, BlockIs DEF Firm, Giving
      <4>3. x.op = "SetFocusInput" => Held(x.w)' BY <2>1, <4>1, <4>2 DEF HandOK
      <4>4. QED BY <1>15, <4>1, <4>3 DEF HandOK, Valid
    <3>3. QED BY <1>9, <3>1, <3>2
  <2>3. ASSUME focus' # None PROVE Held(focus)'
    <3>1. focus' = focus /\ focus # w /\ focus \in Widget /\ Held(focus)
      BY <1>1, <1>2, <2>3 DEF TypeOK, FocusInv, OrNone
    <3>2. PICK v \in Widget \ {w} : v = focus' /\ Held(v) BY <3>1
    <3>3. Held(v)' BY <2>1, <3>2
    <3>4. QED BY <3>2, <3>3 DEF Held, Valid, P
  <2>4. ASSUME active' # None PROVE Held(active)'
    <3>1. active' = active /\ active # w /\ active \in Widget /\ Held(active)
      BY <1>1, <1>2, <2>4 DEF TypeOK, FocusInv, OrNone
    <3>2. PICK v \in Widget \ {w} : v = active' /\ Held(v) BY <3>1
    <3>3. Held(v)' BY <2>1, <3>2
    <3>4. QED BY <3>2, <3>3 DEF Held, Valid, P
  <2>5. QED BY <2>2, <2>3, <2>4 DEF FocusInv
<1>20. /\ Kept(Exclusivity, exclusiveStack, exclusives, shown, Pending')
       /\ Kept(Capturing, captureStack, captures, shown, Pending')
  <2>1. h.w = w /\ h.op = "InvalidateTarget" BY DEF Stmt
  <2>2. \A y \in Rest : y.w = w => y.op \notin Switching
    BY <1>9, BlockIs DEF Firm, Switching
  <2>3. /\ Kept(Exclusivity, exclusiveStack, exclusives, shown, {h} \cup Rest)
        /\ Kept(Capturing, captureStack, captures, shown, {h} \cup Rest)
    BY <1>2, <1>9 DEF StackInv, ExclusiveOK, CaptureOK
  <2>4. exclusives \ {w} = exclusives /\ captures \ {w} = captures /\ shown \ {w} = shown
    BY <1>2, <1>3, <1>14 DEF FlagsOK
  <2> HIDE DEF h
  <2>5. ASSUME NEW k \in Kinds, NEW stack, NEW flags,
               Kept(k, stack, flags, shown, {h} \cup Rest)
        PROVE  Kept(k, stack, flags \ {w}, shown \ {w}, Range(u) \cup Rest)
    <3>1. \A x \in Range(u) :
            x.op \notin {k.push, k.flag, "MarkInvalid"} /\ (x.op = k.remove => x.w = w)
      BY <1>10, KindIs DEF Kinds
    <3>2. h.op \in {"MarkInvalid", "InvalidateTarget"} BY <2>1
    <3>3. Leaving(w, Range(u) \cup Rest) \/ Stmt(k.remove, w) \in Range(u) \cup Rest
      BY <1>8, KindIs DEF Kinds, a, b
    <3>4. QED BY <1>3, <2>1, <2>2, <2>5, <3>1, <3>2, <3>3, DeadKept
  <2>6. /\ Kept(Exclusivity, exclusiveStack, exclusives \ {w}, shown \ {w}, Range(u) \cup Rest)
        /\ Kept(Capturing, captureStack, captures \ {w}, shown \ {w}, Range(u) \cup Rest)
    BY <2>3, <2>5, KindIs
  <2>7. QED BY <1>9, <2>4, <2>6
<1>21. /\ status' \in [Widget -> {"alive", "destroyed", "invalid", "gone"}]
       /\ parent' \in [Widget -> OrNone]
       /\ shown' = shown /\ captures' = captures /\ exclusives' = exclusives
       /\ focus' \in {focus, None} /\ active' \in {active, None}
       /\ UNCHANGED stackVars /\ crashed' = FALSE
  BY <1>1, <1>2, <1>15 DEF TypeOK
<1>22. "InvalidateTarget" \in Kills /\ \A x \in Range(u) : StmtOK(x) BY <1>10 DEF Kills
<1>23. QED
  BY <1>1, <1>8, <1>16, <1>17, <1>18, <1>19, <1>20, <1>21, <1>22, KillStep

(***************************************************************************)
(* The theorems.                                                           *)
(***************************************************************************)

LEMMA InitInv == Init => IInv
<1> SUFFICES ASSUME Init PROVE IInv OBVIOUS
<1>1. TypeOK
  <2>1. <<>> \in Seq(Stmts) /\ <<>> \in Seq(Widget) /\ 0 \in 0 .. MaxCalls
    BY WidgetAssumption
  <2>2. QED BY <2>1, WidgetAssumption DEF Init, TypeOK, Stmts, OrNone
<1>2. Pending = {} /\ DOMAIN todo = {} BY DEF Init, Pending, Range
<1>3. InOrder BY <1>2 DEF InOrder
<1>4. \A w \in Widget : Valid(w) /\ status[w] = "alive" /\ parent[w] = ParentOf[w]
  BY DEF Init, Valid
<1>5. TreeInv
  <2>1. TreeOK BY <1>1, <1>4 DEF TreeOK, TypeOK
  <2>2. ASSUME NEW w \in Widget PROVE WidgetOK(w)
    <3>1. parent[w] # None => parent[w] \in Widget BY <2>1 DEF TreeOK, OrNone
    <3>2. \A op, v : ~P(op, v) BY <1>2 DEF P
    <3>3. QED BY <1>4, <3>1, <3>2 DEF WidgetOK
  <2>3. Valid(Root) /\ Root \in shown BY <1>4, WidgetAssumption DEF Init
  <2>4. QED BY <2>1, <2>2, <2>3 DEF TreeInv
<1>6. FlagsOK BY <1>4 DEF FlagsOK
<1>7. FocusInv BY <1>2 DEF FocusInv, Init
<1>8. StackInv
  <2>1. Unique(<<>>) /\ Range(<<>>) = {} BY DEF Unique, Range
  <2>2. ASSUME NEW k PROVE Kept(k, <<>>, {}, Widget, {}) BY <2>1 DEF Kept, Agrees
  <2>3. QED BY <1>2, <2>2 DEF StackInv, ExclusiveOK, CaptureOK, TopOK, CaptorOK, Init
<1>9. QED
  BY <1>1, <1>2, <1>3, <1>5, <1>6, <1>7, <1>8 DEF IInv, Forms, NoNullContext, Init

LEMMA StutterInv ==
  ASSUME IInv, UNCHANGED vars
  PROVE  IInv'
<1>1. UNCHANGED <<status, parent, shown, captures, exclusives, focus, active, top,
                  exclusiveStack, captureStack, captureAll, todo, calls, crashed>>
  BY DEF vars, widgetVars, focusVars, stackVars
<1>2. Pending' = Pending BY <1>1 DEF Pending
<1>3. Forms' BY <1>1, <1>2 DEF IInv, Forms, TypeOK, StmtOK, OrNone
<1>4. InOrder' BY <1>1 DEF IInv, InOrder, MayFollow, After, Late, Valid, Path
<1>5. TreeInv' BY <1>1, <1>2 DEF IInv, TreeInv, TreeOK, WidgetOK, Valid, P
<1>6. FlagsOK' BY <1>1 DEF IInv, FlagsOK, Valid
<1>7. FocusInv' BY <1>1, <1>2 DEF IInv, FocusInv, HandOK, Held, Valid, P
<1>8. StackInv'
  BY <1>1, <1>2 DEF IInv, StackInv, ExclusiveOK, CaptureOK, TopOK, CaptorOK
<1>9. QED BY <1>1, <1>3, <1>4, <1>5, <1>6, <1>7, <1>8 DEF IInv, NoNullContext

LEMMA NextInv ==
  ASSUME Careful PROVE IInv /\ [Next]_vars => IInv'
<1> SUFFICES ASSUME IInv, [Next]_vars PROVE IInv' OBVIOUS
<1>1. CASE ApplyTop BY <1>1, ApplyTopStep
<1>2. CASE ProgramCalls BY <1>2, ProgramCallsStep
<1>3. ASSUME NEW w \in Widget, HandlerCalls(w) \/ HandlerReturns(w) PROVE IInv'
  BY <1>3, HandlerCallsStep, HandlerReturnsStep
<1>4. ASSUME NEW w \in Widget,
             \/ Send(w) \/ SetFocus(w) \/ SetFocusInput(w) \/ SetActive(w) \/ PutActive(w)
             \/ CheckCapture(w) \/ FocusParent(w)
      PROVE  IInv'
  BY <1>4, SendStep, SetFocusStep, SetFocusInputStep, SetActiveStep, PutActiveStep,
     CheckCaptureStep, FocusParentStep
<1>5. ASSUME NEW w \in Widget,
             RemoveCapture(w) \/ PushCapture(w) \/ RemoveExclusive(w) \/ PushExclusive(w)
      PROVE  IInv'
  BY <1>5, RemoveCaptureStep, PushCaptureStep, RemoveExclusiveStep, PushExclusiveStep
<1>6. ASSUME NEW w \in Widget,
             \/ Destroy(w) \/ SendDestroy(w) \/ FlagDestroyed(w) \/ MarkInvalid(w)
             \/ Unparent(w) \/ InvalidateTarget(w) \/ Refocus(w) \/ Forget(w)
      PROVE  IInv'
  BY <1>6, DestroyStep, SendDestroyStep, FlagDestroyedStep, MarkInvalidStep,
     UnparentStep, InvalidateTargetStep, RefocusStep, ForgetStep
<1>7. ASSUME NEW w \in Widget, NEW on \in BOOLEAN,
             \/ SetVisible(w, on) \/ SetCapture(w, on) \/ FlagCapture(w, on)
             \/ SetExclusive(w, on) \/ FlagExclusive(w, on)
      PROVE  IInv'
  BY <1>7, SetVisibleStep, SetCaptureStep, FlagCaptureStep, SetExclusiveStep,
     FlagExclusiveStep
<1>8. CASE UNCHANGED vars BY <1>8, StutterInv
<1>9. QED BY <1>1, <1>2, <1>3, <1>4, <1>5, <1>6, <1>7, <1>8 DEF Next

LEMMA InvHolds ==
  ASSUME Careful PROVE Spec => []IInv
<1>1. IInv /\ [Next]_vars => IInv' BY NextInv
<1>2. QED BY InitInv, <1>1, PTL DEF Spec

\* The contract of the theorems is Careful: handlers may call any operations from any
\* message, but do not hide a widget or switch its capture or exclusivity while either is
\* being switched, nor destroy a widget that, or above one that, is being switched or
\* destroyed, or is about to get the focus or become active.  The code tests none of it.

\* With careful handlers the state of the widgets and of the context has the form declared
\* for it: above all, focus, captor and top widget are widgets, whatever the handlers call
\* meanwhile (Widget.cpp, UIContext.cpp).
THEOREM WidgetsAreTyped ==
  ASSUME Careful PROVE Spec => []TypeOK
<1>1. IInv => TypeOK BY DEF IInv, Forms
<1>2. QED BY InvHolds, <1>1, PTL

\* With careful handlers no destroyed widget is left in the context between the operations
\* of the program: not as focus, active or top widget, captor, or in a stack; and the parent
\* of a valid widget is valid (cWidget::Invalidate, cUIContext::InvalidateTarget).
THEOREM DeadWidgetsAreForgotten ==
  ASSUME Careful PROVE Spec => []DeadAreForgotten
<1>1. ASSUME IInv, todo = <<>> PROVE DeadAreForgotten
  <2>1. \A op, v, on : Set(op, v, on) \notin Pending /\ Stmt(op, v) \notin Pending
    BY <1>1 DEF Pending, Range
  <2>2. /\ TypeOK /\ TreeInv /\ TreeOK /\ FlagsOK /\ FocusInv /\ StackInv BY <1>1, Known
  <2>3. \A op, v : ~P(op, v) BY <2>1 DEF P
  <2>4. \A v \in Widget : (v \in exclusives <=> v \in Range(exclusiveStack)) /\
                          (v \in captures <=> v \in Range(captureStack))
    BY <2>1, <2>2 DEF StackInv, ExclusiveOK, CaptureOK, Kept, Agrees, Leaving
  <2>5. \A v \in Range(exclusiveStack) \cup Range(captureStack) : v \in Widget /\ Valid(v)
    <3>1. Range(exclusiveStack) \subseteq Widget /\ Range(captureStack) \subseteq Widget
      BY <2>2, RangeOfSeq DEF TypeOK
    <3>2. QED BY <2>2, <2>4, <3>1 DEF FlagsOK
  <2>6. ASSUME NEW S, NEW s \in Seq(S), s # <<>> PROVE Last(s) \in Range(s)
    <3>1. Len(s) \in DOMAIN s BY <2>6, LenProperties, EmptySeq
    <3>2. QED BY <3>1 DEF Last, Range
  <2>7. Valid(top) /\ (captureAll # None => Valid(captureAll))
    BY <2>2, <2>5, <2>6 DEF TypeOK, TreeInv, StackInv, TopOK, CaptorOK
  <2>8. (focus # None => Valid(focus)) /\ (active # None => Valid(active))
    BY <2>2, <2>3 DEF FocusInv, Held
  <2>9. ASSUME NEW w \in Widget
        PROVE  IF Valid(w) THEN w = Root \/ OK(parent[w]) ELSE status[w] = "gone"
    <3>1. WidgetOK(w) BY <2>2 DEF TreeInv
    <3>2. CASE Valid(w)
      <4>1. w # Root => parent[w] # None BY <3>1, <3>2, WidgetAssumption DEF WidgetOK
      <4>2. QED BY <2>3, <3>1, <3>2, <4>1 DEF WidgetOK, OK
    <3>3. CASE ~Valid(w)
      <4>1. status[w] # "invalid" BY <2>3, <3>1 DEF WidgetOK
      <4>2. QED BY <2>2, <3>3, <4>1 DEF TypeOK, Valid
    <3>4. QED BY <3>2, <3>3
  <2>10. QED BY <2>5, <2>7, <2>8, <2>9 DEF DeadAreForgotten
<1>2. IInv => DeadAreForgotten BY <1>1 DEF DeadAreForgotten
<1>3. QED BY InvHolds, <1>2, PTL

\* With careful handlers the flags of the widgets and the stacks of the context agree
\* between the operations of the program, top widget and captor are the last of their
\* stacks, and none of the widgets there is hidden (cWidget::GetCapture, GetExclusive,
\* SetTopWidget).
THEOREM FlagsAgreeWithStacks ==
  ASSUME Careful PROVE Spec => []StacksAgree
<1>1. ASSUME IInv, todo = <<>> PROVE StacksAgree
  <2>1. \A op, v, on : Set(op, v, on) \notin Pending /\ Stmt(op, v) \notin Pending
    BY <1>1 DEF Pending, Range
  <2>2. TypeOK /\ StackInv BY <1>1, Known
  <2>3. \A v \in Widget :
          /\ (v \in exclusives <=> v \in Range(exclusiveStack))
          /\ (v \in captures <=> v \in Range(captureStack))
          /\ v \in exclusives \cup captures => v \in shown
    BY <2>1, <2>2 DEF StackInv, ExclusiveOK, CaptureOK, Kept, Agrees, Leaving
  <2>4. /\ Range(exclusiveStack) \subseteq Widget /\ Range(captureStack) \subseteq Widget
        /\ exclusives \subseteq Widget /\ captures \subseteq Widget
    BY <2>2, RangeOfSeq DEF TypeOK
  <2>5. captures = Range(captureStack) /\ exclusives = Range(exclusiveStack)
    BY <2>3, <2>4
  <2>6. captures \cup exclusives \subseteq shown BY <2>3, <2>4
  <2>7. QED BY <2>2, <2>5, <2>6 DEF StacksAgree, StackInv, TopOK, CaptorOK
<1>2. IInv => StacksAgree BY <1>1 DEF StacksAgree
<1>3. QED BY InvHolds, <1>2, PTL

\* With careful handlers no operation, at any depth of calls from handlers, uses the
\* context of a widget that has lost it, or gives the focus to the parent of a widget that
\* has none (cWidget::_CheckCaptureAndExclusive, Invalidate).
THEOREM ContextIsThere ==
  ASSUME Careful PROVE Spec => []NoNullContext
<1>1. IInv => NoNullContext BY DEF IInv
<1>2. QED BY InvHolds, <1>1, PTL
=============================================================================
