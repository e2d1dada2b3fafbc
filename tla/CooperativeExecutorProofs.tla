---------------------- MODULE CooperativeExecutorProofs ----------------------
(***************************************************************************)
(* Proofs about CooperativeExecutor, for any number of runnables and       *)
(* stoppers, any depth of nested updates and waits, and shutdowns at any   *)
(* moment.                                                                 *)
(*                                                                         *)
(* The queue is always the end of the list of what was accepted, whatever  *)
(* update takes from it; and only the innermost call can be an update that *)
(* was interrupted.  That no two updates hold one runnable, and that a     *)
(* shutdown on the stack has set the mode, makes it an Executor.           *)
(***************************************************************************)
EXTENDS CooperativeExecutor, SequenceTheorems, TLAPS

\* What an update has in its hand was accepted, and is queued no more.
FrameOK(f) ==
  f.op = "update" =>
    /\ f.pc \in {"run", "running", "skipped"} => f.of # None
    /\ f.of # None => cpc[f.of] = "accepted" /\ f.of \notin Queued

\* An update may be interrupted while its runnable runs, or has just run.
Busy(f) == f.op = "update" /\ f.pc \in {"running", "ran"}

StackOK ==
  /\ stack \in Seq(Call)
  /\ \A i \in 1 .. Len(stack) :
       /\ FrameOK(stack[i])
       /\ stack[i].cut => i = Len(stack) /\ interrupted /\ Busy(stack[i])

\* The queue is the end of the list of the accepted.
IsEnd ==
  /\ Len(queue) <= Len(order)
  /\ \A i \in 1 .. Len(queue) : queue[i] = order[Len(order) - Len(queue) + i]

OrderOK ==
  /\ \A i, j \in 1 .. Len(order) : order[i] = order[j] => i = j
  /\ \A i \in 1 .. Len(order) : cpc[order[i]] = "accepted"
  /\ IsEnd
  /\ \A r \in Runnables : cpc[r] # "accepted" \/ r \in Queued => starts[r] = 0

IInv == TypeOK /\ StackOK /\ OrderOK

LEMMA InitInv == Init => IInv
<1> SUFFICES ASSUME Init PROVE IInv OBVIOUS
<1> USE DEF Init
<1>1. /\ <<>> \in Seq(Runnables) /\ <<>> \in Seq(Call)
      /\ Len(<<>>) = 0 /\ DOMAIN <<>> = {}
  BY EmptySeq
<1>2. TypeOK
  <2>1. /\ cpc \in [Runnables -> {"new", "adding", "accepted", "refused"}]
        /\ spc \in [Stoppers -> {"out", "set", "clear"}]
        /\ starts \in [Runnables -> Nat]
    OBVIOUS
  <2>2. queue \in Seq(Runnables) /\ order \in Seq(Runnables) /\ stack \in Seq(Call)
    BY <1>1
  <2>3. mode \in 0 .. 2 OBVIOUS
  <2>4. /\ cancelled \subseteq Runnables /\ finished \subseteq Runnables
        /\ early \subseteq Runnables
    OBVIOUS
  <2>5. canAdd \in BOOLEAN /\ interrupted \in BOOLEAN /\ stopped \in BOOLEAN
    BY Zenon
  <2>6. QED BY ONLY <2>1, <2>2, <2>3, <2>4, <2>5 DEF TypeOK
<1>3. StackOK BY <1>1 DEF StackOK
<1>4. OrderOK BY <1>1 DEF OrderOK, IsEnd, Queued
<1>5. QED BY <1>2, <1>3, <1>4 DEF IInv

(***************************************************************************)
(* The owner's stack.                                                      *)
(***************************************************************************)

LEMMA TopIs ==
  ASSUME stack \in Seq(Call), stack # <<>>
  PROVE  /\ Len(stack) \in Nat \ {0}
         /\ Top \in Call /\ Top = stack[Len(stack)]
         /\ Pop \in Seq(Call) /\ Len(Pop) = Len(stack) - 1
         /\ \A i \in 1 .. Len(stack) - 1 : Pop[i] = stack[i]
<1>1. Len(stack) \in Nat \ {0} BY EmptySeq
<1>2. \A i \in 1 .. Len(stack) : stack[i] \in Call BY ElementOfSeq
<1>3. PICK n \in Nat \ {0} : n = Len(stack) BY <1>1
<1>4. Top \in Call BY <1>2, <1>3 DEF Top
<1>5. \A i \in 1 .. n - 1 : stack[i] \in Call BY <1>2, <1>3
<1>6. PICK s : s = stack OBVIOUS
<1>7. /\ SubSeq(s, 1, n - 1) \in Seq(Call)
      /\ Len(SubSeq(s, 1, n - 1)) = IF 1 <= n - 1 THEN n - 1 ELSE 0
      /\ \A i \in 1 .. n - 1 : SubSeq(s, 1, n - 1)[i] = s[i]
  <2>1. \A i \in 1 .. n - 1 : s[i] \in Call BY <1>5, <1>6
  <2>2. 1 \in Int /\ n - 1 \in Int OBVIOUS
  <2>3. /\ SubSeq(s, 1, n - 1) \in Seq(Call)
        /\ Len(SubSeq(s, 1, n - 1)) = IF 1 <= n - 1 THEN (n - 1) - 1 + 1 ELSE 0
        /\ \A i \in 1 .. (n - 1) - 1 + 1 : SubSeq(s, 1, n - 1)[i] = s[1 + i - 1]
    BY <2>1, <2>2, SubSeqProperties
  <2>4. QED BY <2>3
<1>8. Pop = SubSeq(s, 1, n - 1) BY <1>3, <1>6 DEF Pop
<1>9. QED BY <1>3, <1>4, <1>6, <1>7, <1>8 DEF Top

LEMMA Puts ==
  ASSUME NEW s \in Seq(Call), NEW x \in Call
  PROVE  /\ s \o <<x>> \in Seq(Call) /\ Len(s \o <<x>>) = Len(s) + 1
         /\ \A i \in 1 .. Len(s) : (s \o <<x>>)[i] = s[i]
         /\ (s \o <<x>>)[Len(s) + 1] = x
<1>1. <<x>> \in Seq(Call) /\ Len(<<x>>) = 1 /\ <<x>>[1] = x OBVIOUS
<1>2. Len(s) \in Nat BY LenProperties
<1>3. QED BY <1>1, <1>2, ConcatProperties

\* A step that takes nothing from the calls on the stack.
FramesKept == \A f \in Call : FrameOK(f) => FrameOK(f)'

\* The new stack is what its frames are.
LEMMA StackFrom ==
  ASSUME NEW n \in Nat, stack' \in Seq(Call), Len(stack') = n,
         \A i \in 1 .. n : \E f \in Call :
           /\ stack'[i] = f /\ FrameOK(f)'
           /\ f.cut => i = n /\ interrupted' /\ Busy(f)
  PROVE  StackOK'
BY DEF StackOK, FrameOK, Queued, Busy

LEMMA StackStays ==
  ASSUME StackOK, FramesKept, stack' = stack, interrupted => interrupted'
  PROVE  StackOK'
<1>1. stack \in Seq(Call) /\ Len(stack) \in Nat BY LenProperties DEF StackOK
<1>2. \A i \in 1 .. Len(stack) : stack[i] \in Call BY <1>1, ElementOfSeq
<1>3. PICK n \in Nat : n = Len(stack) BY <1>1
<1>4. \A i \in 1 .. n : \E f \in Call :
        /\ stack'[i] = f /\ FrameOK(f)'
        /\ f.cut => i = n /\ interrupted' /\ Busy(f)
  BY <1>2, <1>3 DEF StackOK, FramesKept
<1>5. QED BY <1>1, <1>3, <1>4, StackFrom

\* The innermost call goes on.
LEMMA TopChanges ==
  ASSUME StackOK, FramesKept, stack # <<>>,
         NEW x \in Call, FrameOK(x)', x.cut => interrupted' /\ Busy(x),
         stack' = Pop \o <<x>>
  PROVE  StackOK'
<1>1. stack \in Seq(Call) BY DEF StackOK
<1>2. PICK n \in Nat \ {0}, p \in Seq(Call) :
        /\ n = Len(stack) /\ p = Pop /\ Len(p) = n - 1
        /\ \A i \in 1 .. n - 1 : p[i] = stack[i]
  BY <1>1, TopIs
<1>3. /\ stack' \in Seq(Call) /\ Len(stack') = n
      /\ \A i \in 1 .. n - 1 : stack'[i] = stack[i]
      /\ stack'[n] = x
  BY <1>2, Puts
<1>4. ASSUME NEW i \in 1 .. n
      PROVE  \E f \in Call : /\ stack'[i] = f /\ FrameOK(f)'
                             /\ f.cut => i = n /\ interrupted' /\ Busy(f)
  <2>1. CASE i = n BY <1>3, <2>1
  <2>2. CASE i # n
    <3>1. i \in 1 .. n - 1 /\ i \in 1 .. Len(stack) BY <1>2, <2>2
    <3>2. stack[i] \in Call BY <1>1, <3>1, ElementOfSeq
    <3>3. FrameOK(stack[i]) /\ ~stack[i].cut BY <1>2, <2>2, <3>1 DEF StackOK
    <3>4. PICK f \in Call : f = stack[i] BY <3>2
    <3>5. FrameOK(f) BY <3>3, <3>4
    <3>6. FrameOK(f)' BY <3>5 DEF FramesKept
    <3>7. ~f.cut BY <3>3, <3>4
    <3>8. QED BY <1>3, <3>1, <3>4, <3>6, <3>7
  <2>3. QED BY <2>1, <2>2
<1>5. QED BY <1>3, <1>4, StackFrom

\* The innermost call, changed to x, makes another one.
LEMMA CallIsMade ==
  ASSUME StackOK, FramesKept, stack # <<>>,
         NEW x \in Call, FrameOK(x)', ~x.cut,
         NEW c \in Call, FrameOK(c)', ~c.cut,
         stack' = (Pop \o <<x>>) \o <<c>>
  PROVE  StackOK'
<1>1. stack \in Seq(Call) BY DEF StackOK
<1>2. PICK n \in Nat \ {0}, p \in Seq(Call) :
        /\ n = Len(stack) /\ p = Pop /\ Len(p) = n - 1
        /\ \A i \in 1 .. n - 1 : p[i] = stack[i]
  BY <1>1, TopIs
<1>3. PICK q \in Seq(Call) :
        /\ q = p \o <<x>> /\ Len(q) = n /\ q[n] = x
        /\ \A i \in 1 .. n - 1 : q[i] = stack[i]
  <2>1. /\ p \o <<x>> \in Seq(Call) /\ Len(p \o <<x>>) = n
        /\ (p \o <<x>>)[n] = x
        /\ \A i \in 1 .. n - 1 : (p \o <<x>>)[i] = stack[i]
    BY <1>2, Puts
  <2>2. QED BY <2>1
<1>4. /\ stack' \in Seq(Call) /\ Len(stack') = n + 1
      /\ \A i \in 1 .. n : stack'[i] = q[i]
      /\ stack'[n + 1] = c
  BY <1>2, <1>3, Puts
<1>5. ASSUME NEW i \in 1 .. n + 1
      PROVE  \E f \in Call : /\ stack'[i] = f /\ FrameOK(f)'
                             /\ f.cut => i = n + 1 /\ interrupted' /\ Busy(f)
  <2>1. CASE i = n + 1 BY <1>4, <2>1
  <2>2. CASE i = n
    <3>1. stack'[i] = x BY <1>3, <1>4, <2>2
    <3>2. QED BY <3>1
  <2>3. CASE i \in 1 .. n - 1
    <3>1. i \in 1 .. Len(stack) /\ i # Len(stack) BY <1>2, <2>3
    <3>2. stack[i] \in Call BY <1>1, <3>1, ElementOfSeq
    <3>3. FrameOK(stack[i]) /\ ~stack[i].cut BY <3>1 DEF StackOK
    <3>4. PICK f \in Call : f = stack[i] BY <3>2
    <3>5. FrameOK(f)' BY <3>3, <3>4 DEF FramesKept
    <3>6. stack'[i] = f BY <1>3, <1>4, <2>3, <3>4
    <3>7. QED BY <3>3, <3>4, <3>5, <3>6
  <2>4. QED BY <1>2, <2>1, <2>2, <2>3
<1>6. n + 1 \in Nat BY <1>2
<1>7. QED BY <1>4, <1>5, <1>6, StackFrom

\* The first call of the owner.
LEMMA FirstCall ==
  ASSUME StackOK, stack = <<>>, NEW c \in Call, FrameOK(c)', ~c.cut,
         stack' = <<>> \o <<c>>
  PROVE  StackOK'
<1>1. <<>> \in Seq(Call) /\ Len(<<>>) = 0 BY EmptySeq
<1>2. PICK e \in Seq(Call) : e = <<>> /\ Len(e) = 0 BY <1>1
<1>3. stack' \in Seq(Call) /\ Len(stack') = 1 /\ stack'[1] = c
  BY <1>2, Puts
<1>4. \A i \in 1 .. 1 : \E f \in Call :
        /\ stack'[i] = f /\ FrameOK(f)'
        /\ f.cut => i = 1 /\ interrupted' /\ Busy(f)
  BY <1>3
<1>5. QED BY <1>3, <1>4, StackFrom

\* The innermost call returns, and a Shutdown that made it goes on.
LEMMA CallReturns ==
  ASSUME StackOK, FramesKept, stack # <<>>, stack' = Returned
  PROVE  StackOK'
<1>1. stack \in Seq(Call) BY DEF StackOK
<1>2. PICK n \in Nat \ {0}, p \in Seq(Call) :
        /\ n = Len(stack) /\ p = Pop /\ Len(p) = n - 1
        /\ \A i \in 1 .. n - 1 : p[i] = stack[i]
  BY <1>1, TopIs
<1>3. \A i \in 1 .. n - 1 : /\ p[i] \in Call /\ FrameOK(p[i]) /\ ~p[i].cut
  <2>1. ASSUME NEW i \in 1 .. n - 1
        PROVE  p[i] \in Call /\ FrameOK(p[i]) /\ ~p[i].cut
    <3>1. i \in 1 .. Len(stack) /\ i # Len(stack) BY <1>2
    <3>2. stack[i] \in Call BY <1>1, <3>1, ElementOfSeq
    <3>3. FrameOK(stack[i]) /\ ~stack[i].cut BY <3>1 DEF StackOK
    <3>4. QED BY <1>2, <3>2, <3>3
  <2>2. QED BY <2>1
<1>4. ASSUME NEW i \in 1 .. n - 1
      PROVE  FrameOK(p[i])'
  <2>1. PICK f \in Call : f = p[i] BY <1>3
  <2>2. FrameOK(f) BY <1>3, <2>1
  <2>3. FrameOK(f)' BY <2>2 DEF FramesKept
  <2>4. QED BY <2>1, <2>3
<1>5. CASE p = <<>>
  <2>1. stack' = p BY <1>2, <1>5 DEF Returned
  <2>2. Len(stack') = 0 BY <1>5, <2>1, EmptySeq
  <2>3. QED BY SMTT(30), <1>2, <2>1, <2>2, StackFrom
<1>6. CASE p # <<>>
  <2>1. n - 1 \in Nat \ {0} /\ n - 1 \in 1 .. n - 1 BY <1>2, <1>6, EmptySeq
  <2>2. PICK c \in Call : c = p[n - 1] BY <1>3, <2>1
  <2>3. PICK x \in Call : x = [c EXCEPT !.pc = IF c.op = "Shutdown" THEN "clear" ELSE @]
    BY DEF Call
  <2>4. /\ c.op = x.op /\ c.of = x.of /\ c.cut = x.cut
        /\ x.op = "update" => x.pc = c.pc
    BY <2>3 DEF Call
  <2>5. FrameOK(c)' /\ ~c.cut BY <1>3, <1>4, <2>1, <2>2
  <2>6. FrameOK(x)' /\ ~x.cut BY <2>4, <2>5 DEF FrameOK, Queued
  <2>7. PICK q \in Seq(Call) :
          /\ q = SubSeq(p, 1, n - 2) /\ Len(q) = n - 2
          /\ \A i \in 1 .. n - 2 : q[i] = p[i]
    <3>1. \A i \in 1 .. n - 2 : p[i] \in Call BY <1>3, <2>1
    <3>2. 1 \in Int /\ n - 2 \in Int BY <2>1
    <3>3. /\ SubSeq(p, 1, n - 2) \in Seq(Call)
          /\ Len(SubSeq(p, 1, n - 2)) = IF 1 <= n - 2 THEN n - 2 - 1 + 1 ELSE 0
          /\ \A i \in 1 .. n - 2 - 1 + 1 : SubSeq(p, 1, n - 2)[i] = p[1 + i - 1]
      BY <3>1, <3>2, SubSeqProperties
    <3>4. Len(SubSeq(p, 1, n - 2)) = n - 2 BY <2>1, <3>3
    <3>5. \A i \in 1 .. n - 2 : SubSeq(p, 1, n - 2)[i] = p[i] BY <2>1, <3>3
    <3>6. QED BY <3>3, <3>4, <3>5
  <2>8. stack' = q \o <<x>>
    <3>1. stack' = SubSeq(p, 1, Len(p) - 1) \o
                     <<[c EXCEPT !.pc = IF c.op = "Shutdown" THEN "clear" ELSE @]>>
      BY <1>2, <1>6, <2>2 DEF Returned
    <3>2. Len(p) - 1 = n - 2 BY <1>2
    <3>3. QED BY <2>3, <2>7, <3>1, <3>2
  <2>9. /\ stack' \in Seq(Call) /\ Len(stack') = n - 1
        /\ \A i \in 1 .. n - 2 : stack'[i] = p[i]
        /\ stack'[n - 1] = x
    BY <2>1, <2>7, <2>8, Puts
  <2>10. ASSUME NEW i \in 1 .. n - 1
         PROVE  \E f \in Call : /\ stack'[i] = f /\ FrameOK(f)'
                                /\ f.cut => i = n - 1 /\ interrupted' /\ Busy(f)
    <3>1. CASE i = n - 1 BY <2>6, <2>9, <3>1
    <3>2. CASE i # n - 1
      <4>1. i \in 1 .. n - 2 BY <2>1, <3>2
      <4>2. PICK f \in Call : f = p[i] BY <1>3
      <4>3. FrameOK(f)' /\ ~f.cut BY <1>3, <1>4, <4>2
      <4>4. QED BY <2>9, <4>1, <4>2, <4>3
    <3>3. QED BY <3>1, <3>2
  <2>11. QED BY <2>1, <2>9, <2>10, StackFrom
<1>7. QED BY <1>5, <1>6

\* The innermost call goes on, to p and with r in its hand.
LEMMA MovesOn ==
  ASSUME StackOK, FramesKept, stack # <<>>,
         NEW p \in {"poll", "check", "run", "running", "skipped", "ran", "update", "clear"},
         NEW r \in Runnables \cup {None}, stack' = Moved(p, r),
         Top.op = "update" => /\ p \in {"run", "running", "skipped"} => r # None
                              /\ r # None => cpc'[r] = "accepted" /\ r \notin Queued',
         Top.cut => interrupted' /\ p \in {"running", "ran"}
  PROVE  StackOK'
<1>1. PICK t \in Call : t = Top BY TopIs DEF StackOK
<1>2. PICK x \in Call : x = [t EXCEPT !.pc = p, !.of = r] BY DEF Call
<1>3. x.op = t.op /\ x.pc = p /\ x.of = r /\ x.cut = t.cut BY <1>2 DEF Call
<1>4. FrameOK(x)' BY <1>1, <1>3 DEF FrameOK, Queued
<1>5. t.cut => t.op = "update"
  <2>1. stack[Len(stack)].cut => Busy(stack[Len(stack)])
    BY TopIs DEF StackOK
  <2>2. QED BY <1>1, <2>1 DEF Top, Busy
<1>6. x.cut => interrupted' /\ Busy(x) BY <1>1, <1>3, <1>5 DEF Busy
<1>7. stack' = Pop \o <<x>> BY <1>1, <1>2 DEF Moved
<1>8. QED BY <1>4, <1>6, <1>7, TopChanges

\* What the innermost call is.
LEMMA TopOK ==
  ASSUME StackOK, stack # <<>>
  PROVE  /\ Top \in Call /\ FrameOK(Top)
         /\ Top.cut => interrupted /\ Busy(Top)
<1>1. Top \in Call /\ Top = stack[Len(stack)] /\ Len(stack) \in 1 .. Len(stack)
  BY TopIs DEF StackOK
<1>2. QED BY <1>1 DEF StackOK

\* The owner, or a runnable of its, makes a call.
LEMMA CallsOne ==
  ASSUME StackOK, FramesKept, NEW c \in Call, FrameOK(c)', ~c.cut, Calls(c)
  PROVE  StackOK'
<1>1. CASE stack = <<>> BY <1>1, FirstCall DEF Calls
<1>2. CASE stack # <<>>
  <2>1. PICK t \in Call : t = Top BY <1>2, TopOK
  <2>2. PICK x \in Call : x = [t EXCEPT !.cut = FALSE] BY DEF Call
  <2>3. x.op = t.op /\ x.pc = t.pc /\ x.of = t.of /\ ~x.cut BY <2>2 DEF Call
  <2>4. FrameOK(t)' BY <1>2, <2>1, TopOK DEF FramesKept
  <2>5. FrameOK(x)' BY <2>3, <2>4 DEF FrameOK, Queued
  <2>6. stack' = (Pop \o <<x>>) \o <<c>> BY <1>2, <2>1, <2>2 DEF Calls
  <2>7. QED BY <1>2, <2>3, <2>5, <2>6, CallIsMade
<1>3. QED BY <1>1, <1>2

\* A new update has nothing in its hand.
LEMMA NewUpdateOK ==
  ASSUME NEW slice \in BOOLEAN
  PROVE  /\ NewUpdate(slice) \in Call /\ ~NewUpdate(slice).cut
         /\ NewUpdate(slice).op = "update" /\ NewUpdate(slice).pc = "poll"
         /\ NewUpdate(slice).of = None
BY DEF NewUpdate, Call

(***************************************************************************)
(* The queue and the order of acceptance.                                  *)
(***************************************************************************)

LEMMA OrderStays ==
  ASSUME OrderOK, UNCHANGED <<queue, order, cpc, starts>>
  PROVE  OrderOK' /\ FramesKept
<1>1. Queued' = Queued BY DEF Queued
<1>2. IsEnd' <=> IsEnd BY DEF IsEnd
<1>3. FramesKept BY <1>1 DEF FramesKept, FrameOK
<1>4. OrderOK' BY <1>1, <1>2 DEF OrderOK
<1>5. QED BY <1>3, <1>4

LEMMA OrderCleared ==
  ASSUME TypeOK, OrderOK, queue' = <<>>, UNCHANGED <<order, cpc, starts>>
  PROVE  OrderOK' /\ FramesKept
<1>1. Queued' = {} /\ Len(queue') = 0 BY DEF Queued
<1>2. Len(order) \in Nat BY LenProperties DEF TypeOK
<1>3. IsEnd' BY <1>1, <1>2 DEF IsEnd
<1>4. FramesKept BY <1>1 DEF FramesKept, FrameOK
<1>5. OrderOK' BY <1>1, <1>3 DEF OrderOK
<1>6. QED BY <1>4, <1>5

\* Poll takes the oldest of the queue.
LEMMA OrderPolled ==
  ASSUME TypeOK, OrderOK, queue # <<>>, queue' = Tail(queue),
         UNCHANGED <<order, cpc, starts>>
  PROVE  /\ OrderOK' /\ FramesKept /\ queue' \in Seq(Runnables)
         /\ Head(queue) \in Runnables /\ Head(queue) \notin Queued'
         /\ cpc[Head(queue)] = "accepted"
<1>1. PICK m \in Nat \ {0}, n \in Nat : m = Len(queue) /\ n = Len(order)
  BY EmptySeq, LenProperties DEF TypeOK
<1>2. PICK q \in Seq(Runnables) :
        /\ q = Tail(queue) /\ Len(q) = m - 1
        /\ \A i \in 1 .. m - 1 : q[i] = queue[i + 1]
  <2>1. /\ Tail(queue) \in Seq(Runnables) /\ Len(Tail(queue)) = m - 1
        /\ \A i \in 1 .. Len(Tail(queue)) : Tail(queue)[i] = queue[i + 1]
    BY <1>1, HeadTailProperties DEF TypeOK
  <2>2. QED BY <2>1
<1>3. PICK h \in Runnables : h = Head(queue) /\ h = queue[1]
  BY HeadTailProperties DEF TypeOK
<1>4. /\ m <= n
      /\ \A i \in 1 .. m : queue[i] = order[n - m + i]
      /\ \A i, j \in 1 .. n : order[i] = order[j] => i = j
  BY <1>1 DEF OrderOK, IsEnd
<1>5. queue' = q /\ Len(queue') = m - 1 /\ DOMAIN q = 1 .. m - 1
  BY <1>2, LenProperties
<1>6. \A i \in 1 .. m - 1 : q[i] = order[n - (m - 1) + i]
  BY <1>2, <1>4
<1>7. IsEnd'
  <2>1. Len(order') = n BY <1>1
  <2>2. m - 1 <= n BY <1>4
  <2>3. \A i \in 1 .. m - 1 : queue'[i] = order'[n - (m - 1) + i] BY <1>5, <1>6
  <2>4. QED BY <1>5, <2>1, <2>2, <2>3 DEF IsEnd
<1>8. \A i \in 1 .. m - 1 : q[i] # h
  <2>1. ASSUME NEW i \in 1 .. m - 1, q[i] = h PROVE FALSE
    <3>1. h = order[n - m + 1] BY <1>1, <1>3, <1>4
    <3>2. q[i] = order[n - (m - 1) + i] BY <1>6
    <3>3. n - m + 1 \in 1 .. n /\ n - (m - 1) + i \in 1 .. n BY <1>1, <1>4
    <3>4. n - m + 1 = n - (m - 1) + i BY <1>4, <2>1, <3>1, <3>2, <3>3
    <3>5. QED BY <1>1, <3>4
  <2>2. QED BY <2>1
<1>9. h \notin Queued' BY <1>5, <1>8 DEF Queued
<1>10. Queued' \subseteq Queued
  <2>1. \A i \in 1 .. m - 1 : i + 1 \in DOMAIN queue
    BY <1>1, LenProperties DEF TypeOK
  <2>2. QED BY <1>2, <1>5, <2>1 DEF Queued
<1>11. cpc[h] = "accepted"
  <2>1. n - m + 1 \in 1 .. n /\ h = order[n - m + 1] BY <1>1, <1>3, <1>4
  <2>2. QED BY <1>1, <2>1 DEF OrderOK
<1>12. FramesKept BY <1>10 DEF FramesKept, FrameOK
<1>13. OrderOK' BY <1>7, <1>10 DEF OrderOK
<1>14. QED BY <1>3, <1>5, <1>9, <1>11, <1>12, <1>13

(***************************************************************************)
(* Submit and Cancel.                                                      *)
(***************************************************************************)

LEMMA SubmitBeginsInv ==
  ASSUME IInv, NEW r \in Runnables, SubmitBegins(r)
  PROVE  IInv'
<1>1. /\ cpc[r] = "new" /\ \A q \in Runnables \ {r} : cpc'[q] = cpc[q]
      /\ cpc' \in [Runnables -> {"new", "adding", "accepted", "refused"}]
      /\ UNCHANGED <<queue, canAdd, mode, interrupted, stack, cancelled, finished,
                     spc, starts, order, early, stopped>>
  BY DEF SubmitBegins, IInv, TypeOK
<1>2. Queued' = Queued /\ (IsEnd' <=> IsEnd) BY <1>1 DEF Queued, IsEnd
<1>3. \A q \in Runnables : cpc[q] = "accepted" => cpc'[q] = "accepted" BY <1>1
<1>4. \A i \in 1 .. Len(order) : order[i] \in Runnables
  BY ElementOfSeq DEF IInv, TypeOK
<1>5. FramesKept
  <2>1. ASSUME NEW f \in Call, FrameOK(f) PROVE FrameOK(f)'
    <3>1. f.of \in Runnables \cup {None} BY DEF Call
    <3>2. QED BY <1>2, <1>3, <2>1, <3>1 DEF FrameOK
  <2>2. QED BY <2>1 DEF FramesKept
<1>6. TypeOK' BY <1>1 DEF IInv, TypeOK
<1>7. StackOK' BY <1>1, <1>5, StackStays DEF IInv
<1>8. OrderOK'
  <2>1. starts[r] = 0 BY <1>1 DEF IInv, OrderOK
  <2>2. \A q \in Runnables : cpc'[q] # "accepted" \/ q \in Queued' => starts'[q] = 0
    BY <1>1, <1>2, <2>1 DEF IInv, OrderOK
  <2>3. QED BY <1>1, <1>2, <1>3, <1>4, <2>2 DEF IInv, OrderOK
<1>9. QED BY <1>6, <1>7, <1>8 DEF IInv

LEMMA SubmitAddsInv ==
  ASSUME IInv, NEW r \in Runnables, SubmitAdds(r)
  PROVE  IInv'
<1>1. /\ cpc[r] = "adding" /\ \A q \in Runnables \ {r} : cpc'[q] = cpc[q]
      /\ cpc'[r] \in {"accepted", "refused"}
      /\ cpc' \in [Runnables -> {"new", "adding", "accepted", "refused"}]
      /\ UNCHANGED <<canAdd, mode, interrupted, stack, cancelled, finished, spc,
                     starts, stopped>>
  BY DEF SubmitAdds, IInv, TypeOK
<1>2. \A q \in Runnables : cpc[q] = "accepted" => cpc'[q] = "accepted" /\ q # r
  BY <1>1
<1>3. PICK m \in Nat, n \in Nat : m = Len(queue) /\ n = Len(order)
  BY LenProperties DEF IInv, TypeOK
<1>4. \A i \in 1 .. n : order[i] \in Runnables /\ order[i] # r
  <2>1. \A i \in 1 .. n : order[i] \in Runnables
    BY <1>3, ElementOfSeq DEF IInv, TypeOK
  <2>2. \A i \in 1 .. n : cpc[order[i]] = "accepted" BY <1>3 DEF IInv, OrderOK
  <2>3. QED BY <1>2, <2>1, <2>2
<1>5. starts[r] = 0 BY <1>1 DEF IInv, OrderOK
<1>6. ASSUME Queued' \subseteq Queued \cup {r} PROVE FramesKept
  <2>1. ASSUME NEW f \in Call, FrameOK(f) PROVE FrameOK(f)'
    <3>1. f.of \in Runnables \cup {None} BY DEF Call
    <3>2. QED BY <1>2, <1>6, <2>1, <3>1 DEF FrameOK
  <2>2. QED BY <2>1 DEF FramesKept
<1>7. CASE canAdd
  <2>1. /\ queue' = Append(queue, r) /\ order' = Append(order, r)
        /\ early' \subseteq early \cup {r} /\ cpc'[r] = "accepted"
    BY <1>7 DEF SubmitAdds, IInv, TypeOK
  <2>2. /\ queue' \in Seq(Runnables) /\ Len(queue') = m + 1 /\ queue'[m + 1] = r
        /\ \A i \in 1 .. m : queue'[i] = queue[i]
    BY <1>3, <2>1, AppendProperties DEF IInv, TypeOK
  <2>3. /\ order' \in Seq(Runnables) /\ Len(order') = n + 1 /\ order'[n + 1] = r
        /\ \A i \in 1 .. n : order'[i] = order[i]
    BY <1>3, <2>1, AppendProperties DEF IInv, TypeOK
  <2>4. Queued' \subseteq Queued \cup {r}
    <3>1. DOMAIN queue' = 1 .. m + 1 /\ DOMAIN queue = 1 .. m
      BY <1>3, <2>2, LenProperties DEF IInv, TypeOK
    <3>2. \A i \in 1 .. m + 1 : queue'[i] \in Queued \cup {r}
      BY <1>3, <2>2, <3>1 DEF Queued
    <3>3. QED BY <3>1, <3>2 DEF Queued
  <2>5. IsEnd'
    <3>1. m <= n /\ \A i \in 1 .. m : queue[i] = order[n - m + i]
      BY <1>3 DEF IInv, OrderOK, IsEnd
    <3>2. ASSUME NEW i \in 1 .. m + 1
          PROVE  queue'[i] = order'[n + 1 - (m + 1) + i]
      <4>1. CASE i = m + 1
        <5>1. n + 1 - (m + 1) + i = n + 1 BY <1>3, <4>1
        <5>2. QED BY <2>2, <2>3, <4>1, <5>1
      <4>2. CASE i # m + 1
        <5>1. i \in 1 .. m /\ n + 1 - (m + 1) + i = n - m + i BY <1>3, <4>2
        <5>2. n - m + i \in 1 .. n BY <1>3, <3>1, <5>1
        <5>3. QED BY <2>2, <2>3, <3>1, <5>1, <5>2
      <4>3. QED BY <4>1, <4>2
    <3>3. m + 1 <= n + 1 BY <1>3, <3>1
    <3>4. QED BY <2>2, <2>3, <3>2, <3>3 DEF IsEnd
  <2>6. TypeOK'
    BY <1>1, <2>1, <2>2, <2>3 DEF IInv, TypeOK
  <2>7. StackOK' BY <1>1, <1>6, <2>4, StackStays DEF IInv
  <2>8. OrderOK'
    <3>1. \A i, j \in 1 .. n : order[i] = order[j] => i = j
      BY <1>3 DEF IInv, OrderOK
    <3>2. \A i \in 1 .. n + 1 : (i \in 1 .. n /\ order'[i] = order[i])
                                \/ (i = n + 1 /\ order'[i] = r)
      BY <1>3, <2>3
    <3>3. \A i, j \in 1 .. n + 1 : order'[i] = order'[j] => i = j
      BY <1>4, <3>1, <3>2
    <3>4. \A i \in 1 .. n + 1 : cpc'[order'[i]] = "accepted"
      <4>1. \A i \in 1 .. n : cpc[order[i]] = "accepted" BY <1>3 DEF IInv, OrderOK
      <4>2. QED BY <1>2, <1>4, <2>1, <3>2, <4>1
    <3>5. \A q \in Runnables : cpc'[q] # "accepted" \/ q \in Queued' => starts'[q] = 0
      <4>1. \A q \in Runnables : cpc[q] # "accepted" \/ q \in Queued => starts[q] = 0
        BY DEF IInv, OrderOK
      <4>2. QED BY <1>1, <1>5, <2>4, <4>1
    <3>6. QED BY <2>3, <2>5, <3>3, <3>4, <3>5 DEF OrderOK
  <2>9. QED BY <2>6, <2>7, <2>8 DEF IInv
<1>8. CASE ~canAdd
  <2>1. UNCHANGED <<queue, order, early>> BY <1>8 DEF SubmitAdds
  <2>2. Queued' = Queued /\ (IsEnd' <=> IsEnd) BY <2>1 DEF Queued, IsEnd
  <2>3. TypeOK' BY <1>1, <2>1 DEF IInv, TypeOK
  <2>4. StackOK' BY <1>1, <1>6, <2>2, StackStays DEF IInv
  <2>5. OrderOK'
    <3>1. \A q \in Runnables : cpc'[q] # "accepted" \/ q \in Queued' => starts'[q] = 0
      BY <1>1, <1>5, <2>2 DEF IInv, OrderOK
    <3>2. \A i \in 1 .. Len(order) : cpc'[order[i]] = "accepted"
      BY <1>2, <1>3, <1>4 DEF IInv, OrderOK
    <3>3. QED BY <2>1, <2>2, <3>1, <3>2 DEF IInv, OrderOK
  <2>6. QED BY <2>3, <2>4, <2>5 DEF IInv
<1>9. QED BY <1>7, <1>8

(***************************************************************************)
(* The calls of the owner and the steps of Update.                         *)
(***************************************************************************)

\* Steps that leave the queue, the order and the runnables alone: what remains
\* is the stack and a few types.
LEMMA OwnerStep ==
  ASSUME IInv, StackOK', UNCHANGED <<queue, order, cpc, starts>>,
         canAdd' \in BOOLEAN, mode' \in 0 .. 2, interrupted' \in BOOLEAN,
         cancelled' \subseteq Runnables, finished' \subseteq Runnables,
         spc' \in [Stoppers -> {"out", "set", "clear"}],
         early' \subseteq Runnables, stopped' \in BOOLEAN
  PROVE  IInv'
<1>1. OrderOK' BY OrderStays DEF IInv
<1>2. TypeOK' BY DEF IInv, TypeOK, StackOK
<1>3. QED BY <1>1, <1>2 DEF IInv

LEMMA BeginsInv ==
  ASSUME IInv, UpdateBegins \/ WaitBegins \/ ShutdownBegins
  PROVE  IInv'
<1>1. /\ UNCHANGED <<queue, canAdd, mode, cpc, cancelled, finished, spc, starts,
                     order, early, stopped>>
      /\ interrupted' \in {interrupted, FALSE}
  BY DEF UpdateBegins, WaitBegins, ShutdownBegins
<1>2. FramesKept BY <1>1, OrderStays DEF IInv
<1>3. PICK c \in Call :
        /\ Calls(c) /\ ~c.cut
        /\ c.op = "update" => c.pc = "poll" /\ c.of = None
  <2>1. CASE UpdateBegins
    BY <2>1, NewUpdateOK DEF UpdateBegins
  <2>2. CASE WaitBegins
    <3>1. PICK r \in Runnables, timed \in BOOLEAN :
            Calls([op |-> "wait", pc |-> "test", of |-> r, time |-> timed,
                   cut |-> FALSE])
      BY <2>2 DEF WaitBegins
    <3>2. PICK c : c = [op |-> "wait", pc |-> "test", of |-> r, time |-> timed,
                        cut |-> FALSE]
      OBVIOUS
    <3>3. c \in Call BY <3>2 DEF Call
    <3>4. QED BY <3>1, <3>2, <3>3
  <2>3. CASE ShutdownBegins
    <3>1. PICK op \in {"Shutdown", "ShutdownNow"} :
            Calls([op |-> op, pc |-> "set", of |-> None, time |-> FALSE,
                   cut |-> FALSE])
      BY <2>3, CooperativeAssumption DEF ShutdownBegins
    <3>2. PICK c : c = [op |-> op, pc |-> "set", of |-> None, time |-> FALSE,
                        cut |-> FALSE]
      OBVIOUS
    <3>3. c \in Call BY <3>2 DEF Call
    <3>4. QED BY <3>1, <3>2, <3>3
  <2>4. QED BY <2>1, <2>2, <2>3
<1>4. FrameOK(c)' BY <1>3 DEF FrameOK
<1>5. StackOK' BY <1>2, <1>3, <1>4, CallsOne DEF IInv
<1>6. QED BY <1>1, <1>5, OwnerStep DEF IInv, TypeOK

LEMMA PollInv ==
  ASSUME IInv, Poll
  PROVE  IInv'
<1>1. /\ stack # <<>> /\ Top.op = "update" /\ ~Top.cut
      /\ UNCHANGED <<canAdd, mode, interrupted, cpc, cancelled, finished, spc,
                     starts, order, early, stopped>>
  BY TopOK DEF Poll, At, IInv, Busy
<1>2. CASE queue = <<>>
  <2>1. stack' = Moved("check", None) /\ UNCHANGED queue BY <1>2 DEF Poll
  <2>2. FramesKept BY <1>1, <2>1, OrderStays DEF IInv
  <2>3. StackOK' BY <1>1, <2>1, <2>2, MovesOn DEF IInv
  <2>4. QED BY <1>1, <2>1, <2>3, OwnerStep DEF IInv, TypeOK
<1>3. CASE queue # <<>>
  <2>1. stack' = Moved("check", Head(queue)) /\ queue' = Tail(queue)
    BY <1>3 DEF Poll
  <2>2. /\ OrderOK' /\ FramesKept /\ queue' \in Seq(Runnables)
        /\ Head(queue) \in Runnables /\ Head(queue) \notin Queued'
        /\ cpc[Head(queue)] = "accepted"
    BY <1>1, <1>3, <2>1, OrderPolled DEF IInv
  <2>3. PICK h \in Runnables : h = Head(queue) BY <2>2
  <2>4. stack' = Moved("check", h) /\ h \notin Queued' /\ cpc'[h] = "accepted"
    BY <1>1, <2>1, <2>2, <2>3
  <2>5. StackOK' BY <1>1, <2>2, <2>4, MovesOn DEF IInv
  <2>6. TypeOK' BY <1>1, <2>2, <2>5 DEF IInv, TypeOK, StackOK
  <2>7. QED BY <2>2, <2>5, <2>6 DEF IInv
<1>4. QED BY <1>2, <1>3

\* The runnable in the hand of the innermost call.
LEMMA HandIs ==
  ASSUME IInv, stack # <<>>, Top.op = "update"
  PROVE  /\ Top.of \in Runnables \cup {None}
         /\ Top.pc \in {"run", "running", "skipped"} => Top.of # None
         /\ Top.of # None => cpc[Top.of] = "accepted" /\ Top.of \notin Queued
BY TopOK DEF IInv, FrameOK, Call

LEMMA RunsInv ==
  ASSUME IInv, CheckPasses \/ RunBegins \/ RunReturns \/ UpdateGoesOn
  PROVE  IInv'
<1>1. /\ stack # <<>> /\ Top.op = "update"
      /\ UNCHANGED <<queue, canAdd, mode, interrupted, cpc, cancelled, spc, order,
                     early, stopped>>
  BY DEF CheckPasses, RunBegins, RunReturns, UpdateGoesOn, At
<1>2. PICK h \in Runnables \cup {None} : h = Top.of BY <1>1, HandIs
<1>3. /\ h # None => cpc[h] = "accepted" /\ h \notin Queued
      /\ Top.pc \in {"run", "running", "skipped"} => h # None
  BY <1>1, <1>2, HandIs
<1>4. Top.cut => interrupted /\ Top.pc \in {"running", "ran"}
  BY <1>1, TopOK DEF IInv, Busy
<1>5. Queued' = Queued /\ (IsEnd' <=> IsEnd) BY <1>1 DEF Queued, IsEnd
<1>6. FramesKept BY <1>1, <1>5 DEF FramesKept, FrameOK
<1>7. CASE CheckPasses
  <2>1. /\ stack' = Moved("run", h) /\ h # None /\ Top.pc = "check"
        /\ UNCHANGED <<finished, starts>>
    BY <1>2, <1>7 DEF CheckPasses, At
  <2>2. StackOK' BY <1>1, <1>3, <1>4, <1>5, <1>6, <2>1, MovesOn DEF IInv
  <2>3. QED BY <1>1, <2>1, <2>2, OwnerStep DEF IInv, TypeOK
<1>8. CASE RunBegins
  <2>1. /\ Top.pc = "run" /\ UNCHANGED finished
        /\ starts' = [starts EXCEPT ![h] = @ + 1]
    BY <1>2, <1>8 DEF RunBegins, At
  <2>2. PICK to \in {"skipped", "running"} : stack' = Moved(to, h)
    BY <1>2, <1>8 DEF RunBegins
  <2>3. StackOK' BY <1>1, <1>3, <1>4, <1>5, <1>6, <2>1, <2>2, MovesOn DEF IInv
  <2>4. h \in Runnables /\ h # None BY <1>3, <2>1
  <2>5. /\ starts' \in [Runnables -> Nat]
        /\ \A r \in Runnables \ {h} : starts'[r] = starts[r]
    BY <2>1, <2>4 DEF IInv, TypeOK
  <2>6. TypeOK' BY <1>1, <2>1, <2>3, <2>5 DEF IInv, TypeOK, StackOK
  <2>7. OrderOK'
    <3>1. \A r \in Runnables : cpc[r] # "accepted" \/ r \in Queued => starts'[r] = 0
      <4>1. cpc[h] = "accepted" /\ h \notin Queued BY <1>3, <2>4
      <4>2. \A r \in Runnables : cpc[r] # "accepted" \/ r \in Queued => starts[r] = 0
        BY DEF IInv, OrderOK
      <4>3. QED BY <2>5, <4>1, <4>2
    <3>2. QED BY <1>1, <1>5, <3>1 DEF IInv, OrderOK
  <2>8. QED BY <2>3, <2>6, <2>7 DEF IInv
<1>9. CASE RunReturns
  <2>1. /\ stack' = Moved("ran", None) /\ finished' = finished \cup {h}
        /\ Top.pc \in {"running", "skipped"} /\ UNCHANGED starts
    BY <1>2, <1>9 DEF RunReturns, At
  <2>2. StackOK' BY <1>1, <1>4, <1>6, <2>1, MovesOn DEF IInv
  <2>3. h \in Runnables BY <1>3, <2>1
  <2>4. finished' \subseteq Runnables BY <2>1, <2>3 DEF IInv, TypeOK
  <2>5. QED BY <1>1, <2>1, <2>2, <2>4, OwnerStep DEF IInv, TypeOK
<1>10. CASE UpdateGoesOn
  <2>1. stack' = Moved("poll", None) /\ ~interrupted /\ UNCHANGED <<finished, starts>>
    BY <1>10 DEF UpdateGoesOn
  <2>2. StackOK' BY <1>1, <1>4, <1>6, <2>1, MovesOn DEF IInv
  <2>3. QED BY <1>1, <2>1, <2>2, OwnerStep DEF IInv, TypeOK
<1>11. QED BY <1>7, <1>8, <1>9, <1>10

LEMMA ReturnsInv ==
  ASSUME IInv, CheckEnds \/ UpdateEnds \/ WaitEnds
  PROVE  IInv'
<1>1. /\ stack # <<>> /\ stack' = Returned
      /\ UNCHANGED <<queue, canAdd, mode, interrupted, cpc, cancelled, finished, spc,
                     starts, order, early, stopped>>
  BY DEF CheckEnds, UpdateEnds, WaitEnds, At
<1>2. StackOK' BY <1>1, OrderStays, CallReturns DEF IInv
<1>3. QED BY <1>1, <1>2, OwnerStep DEF IInv, TypeOK

\* The one step that marks a frame: the innermost call runs a runnable.
LEMMA InterruptInv ==
  ASSUME IInv, InterruptUpdate
  PROVE  IInv'
<1>1. /\ stack # <<>> /\ interrupted' = TRUE
      /\ UNCHANGED <<queue, canAdd, mode, cpc, cancelled, finished, spc, starts,
                     order, early, stopped>>
  BY DEF InterruptUpdate
<1>2. FramesKept BY <1>1, OrderStays DEF IInv
<1>3. CASE At("update", "running")
  <2>1. PICK t \in Call : t = Top BY <1>1, TopOK DEF IInv
  <2>2. PICK x \in Call : x = [t EXCEPT !.cut = TRUE] BY DEF Call
  <2>3. x.op = t.op /\ x.pc = t.pc /\ x.of = t.of BY <2>2 DEF Call
  <2>4. FrameOK(t)' BY <1>1, <1>2, <2>1, TopOK DEF IInv, FramesKept
  <2>5. FrameOK(x)' BY <2>3, <2>4 DEF FrameOK, Queued
  <2>6. Busy(x) BY <1>3, <2>1, <2>3 DEF At, Busy
  <2>7. stack' = Pop \o <<x>> BY <1>3, <2>1, <2>2 DEF InterruptUpdate
  <2>8. StackOK' BY <1>1, <1>2, <2>5, <2>6, <2>7, TopChanges DEF IInv
  <2>9. QED BY <1>1, <2>8, OwnerStep DEF IInv, TypeOK
<1>4. CASE ~At("update", "running")
  <2>1. stack' = stack BY <1>4 DEF InterruptUpdate
  <2>2. StackOK' BY <1>1, <1>2, <2>1, StackStays DEF IInv
  <2>3. QED BY <1>1, <2>2, OwnerStep DEF IInv, TypeOK
<1>5. QED BY <1>3, <1>4

(***************************************************************************)
(* Wait, Shutdown and ShutdownNow.                                         *)
(***************************************************************************)

\* A wait or a shutdown, changed to x, makes an update.
LEMMA UpdatesInv ==
  ASSUME IInv, stack # <<>>, NEW x \in Call, x.op # "update", ~x.cut,
         NEW slice \in BOOLEAN, stack' = (Pop \o <<x>>) \o <<NewUpdate(slice)>>,
         interrupted' \in BOOLEAN, mode' \in 0 .. 2,
         UNCHANGED <<queue, canAdd, cpc, cancelled, finished, spc, starts, order,
                     early, stopped>>
  PROVE  IInv'
<1>1. FramesKept BY OrderStays DEF IInv
<1>2. PICK c \in Call : c = NewUpdate(slice) /\ ~c.cut /\ c.pc = "poll" /\ c.of = None
  BY NewUpdateOK
<1>3. FrameOK(c)' /\ FrameOK(x)' BY <1>2 DEF FrameOK
<1>4. stack' = (Pop \o <<x>>) \o <<c>> BY <1>2
<1>5. StackOK' BY <1>1, <1>2, <1>3, <1>4, CallIsMade DEF IInv
<1>6. QED BY <1>5, OwnerStep DEF IInv, TypeOK

LEMMA WaitUpdatesInv ==
  ASSUME IInv, WaitUpdates
  PROVE  IInv'
<1>1. /\ stack # <<>> /\ Top.op = "wait" /\ interrupted' = FALSE
      /\ stack' = stack \o <<NewUpdate(FALSE)>>
      /\ UNCHANGED <<queue, canAdd, mode, cpc, cancelled, finished, spc, starts,
                     order, early, stopped>>
  BY DEF WaitUpdates, At
<1>2. PICK t \in Call : t = Top /\ ~t.cut BY <1>1, TopOK DEF IInv, Busy
<1>3. stack = Pop \o <<t>>
  <2>1. PICK n \in Nat \ {0}, p \in Seq(Call) :
          /\ n = Len(stack) /\ p = Pop /\ Len(p) = n - 1 /\ t = stack[n]
          /\ \A i \in 1 .. n - 1 : p[i] = stack[i]
    BY <1>1, <1>2, TopIs DEF IInv, StackOK
  <2>2. PICK q \in Seq(Call) : q = p \o <<t>> /\ Len(q) = n
                              /\ \A i \in 1 .. n : q[i] = stack[i]
    <3>1. /\ p \o <<t>> \in Seq(Call) /\ Len(p \o <<t>>) = n
          /\ (p \o <<t>>)[n] = t
          /\ \A i \in 1 .. n - 1 : (p \o <<t>>)[i] = stack[i]
      BY <2>1, Puts
    <3>2. \A i \in 1 .. n : (p \o <<t>>)[i] = stack[i] BY <2>1, <3>1
    <3>3. QED BY <3>1, <3>2
  <2>3. q = stack BY <2>1, <2>2, SeqEqual DEF IInv, StackOK
  <2>4. QED BY <2>1, <2>2, <2>3
<1>4. stack' = (Pop \o <<t>>) \o <<NewUpdate(FALSE)>> BY <1>1, <1>3
<1>5. interrupted' \in BOOLEAN /\ mode' \in 0 .. 2 BY <1>1 DEF IInv, TypeOK
<1>6. QED BY <1>1, <1>2, <1>4, <1>5, UpdatesInv

LEMMA ShutdownSetsInv ==
  ASSUME IInv, ShutdownSets
  PROVE  IInv'
<1>1. /\ stack # <<>> /\ Top.op = "Shutdown" /\ interrupted' = FALSE /\ mode' = 1
      /\ UNCHANGED <<queue, canAdd, cpc, cancelled, finished, spc, starts, order,
                     early, stopped>>
  BY DEF ShutdownSets, At
<1>2. PICK slice \in BOOLEAN :
        stack' = Moved("update", None) \o <<NewUpdate(slice)>>
  BY DEF ShutdownSets
<1>3. PICK t \in Call : t = Top /\ ~t.cut BY <1>1, TopOK DEF IInv, Busy
<1>4. PICK x \in Call : x = [t EXCEPT !.pc = "update", !.of = None] BY DEF Call
<1>5. x.op = "Shutdown" /\ ~x.cut BY <1>1, <1>3, <1>4 DEF Call
<1>6. stack' = (Pop \o <<x>>) \o <<NewUpdate(slice)>>
  BY <1>2, <1>3, <1>4 DEF Moved
<1>7. mode' \in 0 .. 2 BY <1>1
<1>8. interrupted' \in BOOLEAN BY <1>1
<1>9. QED BY <1>1, <1>5, <1>6, <1>7, <1>8, UpdatesInv

LEMMA ShutdownNowSetsInv ==
  ASSUME IInv, ShutdownNowSets
  PROVE  IInv'
<1>1. /\ stack # <<>> /\ Top.op = "ShutdownNow" /\ mode' = 2
      /\ stack' = Moved("clear", None)
      /\ UNCHANGED <<queue, canAdd, interrupted, cpc, cancelled, finished, spc, starts,
                     order, early, stopped>>
  BY DEF ShutdownNowSets, At
<1>2. ~Top.cut BY <1>1, TopOK DEF IInv, Busy
<1>3. FramesKept BY <1>1, OrderStays DEF IInv
<1>4. StackOK' BY <1>1, <1>2, <1>3, MovesOn DEF IInv
<1>5. mode' \in 0 .. 2 BY <1>1
<1>6. QED BY <1>1, <1>4, <1>5, OwnerStep DEF IInv, TypeOK

LEMMA ShutdownReturnsInv ==
  ASSUME IInv, ShutdownReturns
  PROVE  IInv'
<1>1. /\ stack # <<>> /\ stack' = Returned /\ queue' = <<>> /\ canAdd' = FALSE
      /\ stopped' = TRUE
      /\ UNCHANGED <<mode, interrupted, cpc, cancelled, finished, spc, starts, order,
                     early>>
  BY DEF ShutdownReturns, InvalidateQueue, At
<1>2. OrderOK' /\ FramesKept BY <1>1, OrderCleared DEF IInv
<1>3. StackOK' BY <1>1, <1>2, CallReturns DEF IInv
<1>4. queue' \in Seq(Runnables) BY <1>1, EmptySeq
<1>5. TypeOK' BY <1>1, <1>3, <1>4 DEF IInv, TypeOK, StackOK
<1>6. QED BY <1>2, <1>3, <1>5 DEF IInv

LEMMA NowInv ==
  ASSUME IInv, NEW s \in Stoppers, NowBegins(s) \/ NowSets(s) \/ NowReturns(s)
  PROVE  IInv'
<1>1. /\ mode' \in {mode, 2}
      /\ UNCHANGED <<interrupted, stack, cpc, cancelled, finished, starts, order, early,
                     stopped>>
  BY DEF NowBegins, NowSets, NowReturns
<1>2. spc' \in [Stoppers -> {"out", "set", "clear"}]
  BY DEF NowBegins, NowSets, NowReturns, IInv, TypeOK
<1>3. mode' \in 0 .. 2 BY <1>1 DEF IInv, TypeOK
<1>4. CASE NowReturns(s)
  <2>1. queue' = <<>> /\ canAdd' = FALSE BY <1>4 DEF NowReturns, InvalidateQueue
  <2>2. OrderOK' /\ FramesKept BY <1>1, <2>1, OrderCleared DEF IInv
  <2>3. StackOK' BY <1>1, <2>2, StackStays DEF IInv
  <2>4. queue' \in Seq(Runnables) BY <2>1, EmptySeq
  <2>5. TypeOK' BY <1>1, <1>2, <1>3, <2>1, <2>3, <2>4 DEF IInv, TypeOK, StackOK
  <2>6. QED BY <2>2, <2>3, <2>5 DEF IInv
<1>5. CASE ~NowReturns(s)
  <2>1. UNCHANGED <<queue, canAdd>> BY <1>5 DEF NowBegins, NowSets
  <2>2. FramesKept BY <1>1, <2>1, OrderStays DEF IInv
  <2>3. StackOK' BY <1>1, <2>2, StackStays DEF IInv
  <2>4. QED BY <1>1, <1>2, <1>3, <2>1, <2>3, OwnerStep DEF IInv, TypeOK
<1>6. QED BY <1>4, <1>5

LEMMA NextInv ==
  ASSUME IInv, [Next]_vars
  PROVE  IInv'
<1>1. CASE UNCHANGED vars
  <2>1. StackOK' BY <1>1, OrderStays, StackStays DEF IInv, vars
  <2>2. QED BY <1>1, <2>1, OwnerStep DEF IInv, TypeOK, vars
<1>2. CASE Owner
  BY <1>2, PollInv, ReturnsInv, RunsInv, WaitUpdatesInv, ShutdownSetsInv,
     ShutdownNowSetsInv, ShutdownReturnsInv DEF Owner
<1>3. CASE UpdateBegins \/ WaitBegins \/ ShutdownBegins BY <1>3, BeginsInv
<1>4. CASE InterruptUpdate BY <1>4, InterruptInv
<1>5. ASSUME NEW r \in Runnables, Submit(r) PROVE IInv'
  BY <1>5, SubmitBeginsInv, SubmitAddsInv DEF Submit
<1>6. ASSUME NEW r \in Runnables, Cancel(r) PROVE IInv'
  <2>1. UNCHANGED <<queue, canAdd, mode, interrupted, stack, cpc, finished, spc,
                    starts, order, early, stopped>>
    BY <1>6 DEF Cancel
  <2>2. cancelled' \subseteq Runnables BY <1>6 DEF Cancel, IInv, TypeOK
  <2>3. StackOK' BY <2>1, OrderStays, StackStays DEF IInv
  <2>4. QED BY <2>1, <2>2, <2>3, OwnerStep DEF IInv, TypeOK
<1>7. ASSUME NEW s \in Stoppers, NowBegins(s) \/ Stopper(s) PROVE IInv'
  BY <1>7, NowInv DEF Stopper
<1>8. QED BY <1>1, <1>2, <1>3, <1>4, <1>5, <1>6, <1>7 DEF Next

LEMMA Invariant == Spec => []IInv
BY InitInv, NextInv, PTL DEF Spec

(***************************************************************************)
(* The theorems.                                                           *)
(***************************************************************************)

\* The variables keep their types, however calls nest: an update takes nothing from
\* an empty queue and runs no runnable that it did not take.
THEOREM TypeCorrect == Spec => []TypeOK
<1>1. IInv => TypeOK BY DEF IInv
<1>2. QED BY <1>1, Invariant, PTL

\* However updates nest, runnables start in the order in which they were accepted.
THEOREM OldestFirst == Spec => []StartsInOrder
<1>1. IInv => StartsInOrder
  <2>1. SUFFICES ASSUME IInv, NEW i \in DOMAIN order, NEW j \in DOMAIN order,
                        i < j, order[i] \in Queued
                 PROVE  starts[order[j]] = 0
    BY DEF StartsInOrder
  <2>2. PICK m \in Nat, n \in Nat :
          /\ m = Len(queue) /\ n = Len(order)
          /\ DOMAIN queue = 1 .. m /\ DOMAIN order = 1 .. n
    BY <2>1, LenProperties DEF IInv, TypeOK
  <2>3. /\ m <= n /\ \A k \in 1 .. m : queue[k] = order[n - m + k]
        /\ \A k, l \in 1 .. n : order[k] = order[l] => k = l
    BY <2>1, <2>2 DEF IInv, OrderOK, IsEnd
  <2>4. PICK k \in 1 .. m : queue[k] = order[i] BY <2>1, <2>2 DEF Queued
  <2>5. i = n - m + k
    <3>1. n - m + k \in 1 .. n /\ i \in 1 .. n BY <2>2, <2>3
    <3>2. QED BY <2>3, <2>4, <3>1
  <2>6. j - (n - m) \in 1 .. m /\ n - m + (j - (n - m)) = j
    BY <2>1, <2>2, <2>3, <2>5
  <2>7. PICK l \in 1 .. m : queue[l] = order[j] BY <2>3, <2>6
  <2>8. order[j] \in Queued BY <2>2, <2>7 DEF Queued
  <2>9. order[j] \in Runnables BY <2>1, <2>2, ElementOfSeq DEF IInv, TypeOK
  <2>10. QED BY <2>1, <2>8, <2>9 DEF IInv, OrderOK
<1>2. QED BY <1>1, Invariant, PTL

\* An update whose runnable asked for its interruption last does not poll again,
\* whatever calls were nested in it before.
THEOREM InterruptIsKept == Spec => []InterruptHolds
<1>1. IInv => InterruptHolds
  <2>1. SUFFICES ASSUME IInv, NEW i \in DOMAIN stack, stack[i].cut
                 PROVE  stack[i].pc # "poll"
    BY DEF InterruptHolds
  <2>2. i \in 1 .. Len(stack) BY LenProperties DEF IInv, StackOK
  <2>3. Busy(stack[i]) BY <2>1, <2>2 DEF IInv, StackOK
  <2>4. QED BY <2>3 DEF Busy
<1>2. QED BY <1>1, Invariant, PTL
(***************************************************************************)
(* The cooperative executor is an executor.                                *)
(*                                                                         *)
(* A step does one of four things to the stack: it leaves it alone, puts a *)
(* call on it, takes the innermost one away, or lets that one go on.  What *)
(* the executor promises depends on the updates on the stack only, on what *)
(* they hold and whether it was started.                                   *)
(***************************************************************************)

\* What is the same in a call whatever its caller learns from it.
Alike(f, g) == f.op = g.op /\ (f.op = "update" => f.pc = g.pc /\ f.of = g.of)

AlikeTo(n) == \A i \in 1 .. n : Alike(stack'[i], stack[i])

Stays == Len(stack') = Len(stack) /\ AlikeTo(Len(stack))

Pushes(c) ==
  /\ Len(stack') = Len(stack) + 1
  /\ AlikeTo(Len(stack))
  /\ stack'[Len(stack) + 1] = c

Pops ==
  /\ stack # <<>>
  /\ Len(stack') = Len(stack) - 1
  /\ AlikeTo(Len(stack) - 1)

Goes(x) ==
  /\ stack # <<>>
  /\ Len(stack') = Len(stack)
  /\ AlikeTo(Len(stack) - 1)
  /\ stack'[Len(stack)] = x

LEMMA PushesOn ==
  ASSUME stack \in Seq(Call), stack # <<>>, NEW x \in Call, NEW c \in Call,
         Alike(x, Top), stack' = (Pop \o <<x>>) \o <<c>>
  PROVE  Pushes(c)
<1>1. PICK n \in Nat \ {0}, p \in Seq(Call) :
        /\ n = Len(stack) /\ p = Pop /\ Len(p) = n - 1 /\ Top = stack[n]
        /\ \A i \in 1 .. n - 1 : p[i] = stack[i]
  BY TopIs
<1>2. PICK q \in Seq(Call) : q = p \o <<x>> /\ Len(q) = n /\ q[n] = x
                            /\ \A i \in 1 .. n - 1 : q[i] = stack[i]
  <2>1. PICK q \in Seq(Call) : q = p \o <<x>> /\ Len(q) = Len(p) + 1
                              /\ q[Len(p) + 1] = x
                              /\ \A i \in 1 .. Len(p) : q[i] = p[i]
    BY Puts
  <2>2. Len(p) = n - 1 /\ Len(p) + 1 = n BY <1>1
  <2>3. Len(q) = n /\ q[n] = x /\ \A i \in 1 .. n - 1 : q[i] = stack[i]
    BY <1>1, <2>1, <2>2
  <2>4. QED BY <2>1, <2>3
<1>3. /\ Len(stack') = n + 1 /\ stack'[n + 1] = c
      /\ \A i \in 1 .. n : stack'[i] = q[i]
  BY <1>1, <1>2, Puts
<1>4. \A i \in 1 .. n : i = n \/ i \in 1 .. n - 1 BY <1>1
<1>5. \A i \in 1 .. n : stack'[i] = IF i = n THEN x ELSE stack[i]
  BY <1>2, <1>3, <1>4
<1>6. \A i \in 1 .. n : Alike(stack'[i], stack[i]) BY <1>1, <1>5 DEF Alike
<1>7. QED BY <1>1, <1>3, <1>6 DEF Pushes, AlikeTo

LEMMA PushesFirst ==
  ASSUME stack = <<>>, NEW c \in Call, stack' = <<>> \o <<c>>
  PROVE  Pushes(c)
<1>1. Len(stack) = 0 BY EmptySeq
<1>2. Len(stack') = 1 /\ stack'[1] = c
  <2>1. PICK e \in Seq(Call) : e = <<>> /\ Len(e) = 0 BY EmptySeq
  <2>2. QED BY <2>1, Puts
<1>3. QED BY <1>1, <1>2 DEF Pushes, AlikeTo

LEMMA CallsPushes ==
  ASSUME stack \in Seq(Call), NEW c \in Call, Calls(c)
  PROVE  Pushes(c)
<1>1. CASE stack = <<>> BY <1>1, PushesFirst DEF Calls
<1>2. CASE stack # <<>>
  <2>1. PICK t \in Call : t = Top BY <1>2, TopIs
  <2>2. PICK x \in Call : x = [t EXCEPT !.cut = FALSE] BY DEF Call
  <2>3. Alike(x, Top) BY <2>1, <2>2 DEF Alike, Call
  <2>4. stack' = (Pop \o <<x>>) \o <<c>> BY <1>2, <2>1, <2>2 DEF Calls
  <2>5. QED BY <1>2, <2>3, <2>4, PushesOn
<1>3. QED BY <1>1, <1>2

LEMMA GoesOn ==
  ASSUME stack \in Seq(Call), stack # <<>>, NEW x \in Call, stack' = Pop \o <<x>>
  PROVE  Goes(x)
<1>1. PICK n \in Nat \ {0}, p \in Seq(Call) :
        /\ n = Len(stack) /\ p = Pop /\ Len(p) = n - 1
        /\ \A i \in 1 .. n - 1 : p[i] = stack[i]
  BY TopIs
<1>2. /\ Len(stack') = n /\ stack'[n] = x
      /\ \A i \in 1 .. n - 1 : stack'[i] = stack[i]
  BY <1>1, Puts
<1>3. QED BY <1>1, <1>2 DEF Goes, AlikeTo, Alike

LEMMA MovedGoes ==
  ASSUME stack \in Seq(Call), stack # <<>>,
         NEW p \in {"poll", "check", "run", "running", "skipped", "ran", "update", "clear"},
         NEW r \in Runnables \cup {None}, stack' = Moved(p, r)
  PROVE  \E x \in Call : Goes(x) /\ x.op = Top.op /\ x.pc = p /\ x.of = r
<1>1. PICK t \in Call : t = Top BY TopIs
<1>2. PICK x \in Call : x = [t EXCEPT !.pc = p, !.of = r] BY DEF Call
<1>3. x.op = t.op /\ x.pc = p /\ x.of = r BY <1>2 DEF Call
<1>4. stack' = Pop \o <<x>> BY <1>1, <1>2 DEF Moved
<1>5. QED BY <1>1, <1>3, <1>4, GoesOn

LEMMA ReturnedPops ==
  ASSUME stack \in Seq(Call), stack # <<>>, stack' = Returned
  PROVE  Pops
<1>1. PICK n \in Nat \ {0}, p \in Seq(Call) :
        /\ n = Len(stack) /\ p = Pop /\ Len(p) = n - 1
        /\ \A i \in 1 .. n - 1 : p[i] = stack[i]
  BY TopIs
<1>2. CASE p = <<>>
  <2>1. stack' = p /\ Len(p) = 0 BY <1>1, <1>2, EmptySeq DEF Returned
  <2>2. n - 1 = 0 BY <1>1, <2>1
  <2>3. QED BY SMTT(30), <1>1, <2>1, <2>2 DEF Pops, AlikeTo
<1>3. CASE p # <<>>
  <2>1. n - 1 \in Nat \ {0} /\ n - 1 \in 1 .. n - 1 BY <1>1, <1>3, EmptySeq
  <2>2. \A i \in 1 .. n - 1 : p[i] \in Call BY <1>1, ElementOfSeq
  <2>3. PICK c \in Call : c = p[n - 1] BY <2>1, <2>2
  <2>4. PICK x \in Call : x = [c EXCEPT !.pc = IF c.op = "Shutdown" THEN "clear" ELSE @]
    BY DEF Call
  <2>5. Alike(x, c) BY <2>4 DEF Alike, Call
  <2>6. PICK q \in Seq(Call) :
          /\ q = SubSeq(p, 1, n - 2) /\ Len(q) = n - 2
          /\ \A i \in 1 .. n - 2 : q[i] = p[i]
    <3>1. \A i \in 1 .. n - 2 : p[i] \in Call BY <2>1, <2>2
    <3>2. 1 \in Int /\ n - 2 \in Int BY <2>1
    <3>3. /\ SubSeq(p, 1, n - 2) \in Seq(Call)
          /\ Len(SubSeq(p, 1, n - 2)) = IF 1 <= n - 2 THEN n - 2 - 1 + 1 ELSE 0
          /\ \A i \in 1 .. n - 2 - 1 + 1 : SubSeq(p, 1, n - 2)[i] = p[1 + i - 1]
      BY <3>1, <3>2, SubSeqProperties
    <3>4. Len(SubSeq(p, 1, n - 2)) = n - 2 BY <2>1, <3>3
    <3>5. \A i \in 1 .. n - 2 : SubSeq(p, 1, n - 2)[i] = p[i] BY <2>1, <3>3
    <3>6. QED BY <3>3, <3>4, <3>5
  <2>7. stack' = q \o <<x>>
    <3>1. stack' = SubSeq(p, 1, Len(p) - 1) \o
                     <<[c EXCEPT !.pc = IF c.op = "Shutdown" THEN "clear" ELSE @]>>
      BY <1>1, <1>3, <2>3 DEF Returned
    <3>2. Len(p) - 1 = n - 2 BY <1>1
    <3>3. QED BY <2>4, <2>6, <3>1, <3>2
  <2>8. /\ Len(stack') = n - 1 /\ stack'[n - 1] = x
        /\ \A i \in 1 .. n - 2 : stack'[i] = p[i]
    BY <2>1, <2>6, <2>7, Puts
  <2>9. \A i \in 1 .. n - 1 : i = n - 1 \/ i \in 1 .. n - 2 BY <2>1
  <2>10. \A i \in 1 .. n - 1 : Alike(stack'[i], stack[i])
    BY <1>1, <2>3, <2>5, <2>8, <2>9 DEF Alike
  <2>11. QED BY <1>1, <2>8, <2>10 DEF Pops, AlikeTo
<1>4. QED BY <1>2, <1>3

\* The runnable of an update is started exactly while it runs; what runs is in the
\* hand of one update, and what is finished in none.
Holds(f, r) == f.op = "update" /\ f.of = r
Hand(r)     == \E i \in 1 .. Len(stack) : Holds(stack[i], r)

UpdateOK(f) ==
  f.op = "update" =>
    /\ f.pc \in {"poll", "ran"} => f.of = None
    /\ f.of # None => /\ f.of \notin finished
                      /\ starts[f.of] > 0 <=> f.pc \in {"running", "skipped"}

UpdatesOK == \A i \in 1 .. Len(stack) : UpdateOK(stack[i])

OneHand ==
  \A i, j \in 1 .. Len(stack), r \in Runnables :
    Holds(stack[i], r) /\ Holds(stack[j], r) => i = j

StartedHeld ==
  \A r \in Runnables : /\ starts[r] > 0 => r \in finished \/ Hand(r)
                       /\ r \in finished => starts[r] > 0

HandsOK == UpdatesOK /\ OneHand /\ StartedHeld

LEMMA HandsInit == Init => HandsOK
<1> SUFFICES ASSUME Init PROVE HandsOK OBVIOUS
<1>1. Len(stack) = 0 BY EmptySeq DEF Init
<1>2. \A r \in Runnables : ~(starts[r] > 0) /\ r \notin finished BY DEF Init
<1>3. QED BY <1>1, <1>2 DEF HandsOK, UpdatesOK, OneHand, StartedHeld

LEMMA HeldIs ==
  ASSUME stack \in Seq(Call), NEW r
  PROVE  r \in Held <=> Hand(r)
<1>1. DOMAIN stack = 1 .. Len(stack) BY LenProperties
<1>2. ASSUME NEW i \in 1 .. Len(stack), stack[i].op = "update", stack[i].of = r
      PROVE  r \in Held
  BY <1>1, <1>2 DEF Held
<1>3. ASSUME r \in Held PROVE Hand(r)
  BY <1>1, <1>3 DEF Held, Hand, Holds
<1>4. QED BY <1>2, <1>3 DEF Hand, Holds

LEMMA HeldIsNext ==
  ASSUME stack' \in Seq(Call), NEW r
  PROVE  r \in Held' <=> Hand(r)'
<1>1. DOMAIN stack' = 1 .. Len(stack') BY LenProperties
<1>2. ASSUME NEW i \in 1 .. Len(stack'), stack'[i].op = "update", stack'[i].of = r
      PROVE  r \in Held'
  BY <1>1, <1>2 DEF Held
<1>3. ASSUME r \in Held' PROVE Hand(r)'
  BY <1>1, <1>3 DEF Held, Hand, Holds
<1>4. QED BY <1>2, <1>3 DEF Hand, Holds

\* A step after which the updates on the stack are the same, but for some with
\* nothing in their hand.
Empty(f) == f.op = "update" => f.of = None

KeepsHands ==
  /\ \A i \in 1 .. Len(stack) :
       \/ i \in 1 .. Len(stack') /\ Alike(stack'[i], stack[i])
       \/ Empty(stack[i])
  /\ \A i \in 1 .. Len(stack') :
       \/ i \in 1 .. Len(stack) /\ Alike(stack'[i], stack[i])
       \/ Empty(stack'[i])

LEMMA HandsKept ==
  ASSUME stack \in Seq(Call), stack' \in Seq(Call), HandsOK, KeepsHands,
         UNCHANGED <<starts, finished>>
  PROVE  HandsOK' /\ \A r \in Runnables : Hand(r)' <=> Hand(r)
<1>1. PICK n \in Nat, m \in Nat : n = Len(stack) /\ m = Len(stack')
  BY LenProperties
<1>2. \A i \in 1 .. n, r \in Runnables :
        Holds(stack[i], r) => i \in 1 .. m /\ Holds(stack'[i], r)
  BY <1>1, CooperativeAssumption DEF KeepsHands, Alike, Empty, Holds
<1>3. \A i \in 1 .. m, r \in Runnables :
        Holds(stack'[i], r) => i \in 1 .. n /\ Holds(stack[i], r)
  BY <1>1, CooperativeAssumption DEF KeepsHands, Alike, Empty, Holds
<1>4. \A r \in Runnables : Hand(r)' <=> Hand(r)
  BY <1>1, <1>2, <1>3 DEF Hand, Holds
<1>5. \A i, j \in 1 .. m, r \in Runnables :
        Holds(stack'[i], r) /\ Holds(stack'[j], r) => i = j
  BY <1>1, <1>3 DEF HandsOK, OneHand
<1>6. ASSUME NEW i \in 1 .. m PROVE \E f : f = stack'[i] /\ UpdateOK(f)'
  <2>1. PICK f : f = stack'[i] OBVIOUS
  <2>2. CASE i \in 1 .. n /\ Alike(f, stack[i])
    <3>1. UpdateOK(stack[i]) BY <1>1, <2>2 DEF HandsOK, UpdatesOK
    <3>2. QED BY <2>1, <2>2, <3>1 DEF UpdateOK, Alike
  <2>3. CASE Empty(f) BY <2>1, <2>3 DEF Empty, UpdateOK
  <2>4. QED BY <1>1, <2>1, <2>2, <2>3 DEF KeepsHands
<1>7. UpdatesOK' BY <1>1, <1>6 DEF UpdatesOK, UpdateOK
<1>8. OneHand' BY <1>1, <1>5 DEF OneHand, Holds
<1>9. StartedHeld' BY <1>4 DEF HandsOK, StartedHeld
<1>10. QED BY <1>4, <1>7, <1>8, <1>9 DEF HandsOK

\* The innermost update goes on with h in its hand, or lays it down.
LEMMA HandsMove ==
  ASSUME stack \in Seq(Call), stack' \in Seq(Call), HandsOK, NEW h \in Runnables,
         NEW x \in Call, Goes(x), UpdateOK(x)',
         Empty(Top) \/ Top.of = h, Empty(x) \/ Holds(x, h),
         \A i \in 1 .. Len(stack) - 1 : ~Holds(stack[i], h),
         \A r \in Runnables \ {h} : /\ starts'[r] = starts[r]
                                    /\ r \in finished' <=> r \in finished,
         starts'[h] > 0 => h \in finished' \/ Holds(x, h),
         h \in finished' => starts'[h] > 0
  PROVE  /\ HandsOK'
         /\ \A r \in Runnables \ {h} : Hand(r)' <=> Hand(r)
         /\ Hand(h)' <=> Holds(x, h)
<1>1. PICK n \in Nat \ {0} :
        /\ n = Len(stack) /\ n = Len(stack') /\ stack'[n] = x /\ Top = stack[n]
        /\ \A i \in 1 .. n - 1 : Alike(stack'[i], stack[i])
  BY TopIs DEF Goes, AlikeTo
<1>2. \A i \in 1 .. n - 1, r \in Runnables : Holds(stack'[i], r) <=> Holds(stack[i], r)
  BY <1>1 DEF Alike, Holds
<1>3. \A r \in Runnables \ {h} : ~Holds(stack[n], r) /\ ~Holds(stack'[n], r)
  BY <1>1, CooperativeAssumption DEF Holds, Empty
<1>4. \A i \in 1 .. n : i = n \/ i \in 1 .. n - 1
  BY <1>1
<1>5. \A r \in Runnables \ {h} : Hand(r)' <=> Hand(r)
  BY <1>1, <1>2, <1>3, <1>4 DEF Hand, Holds
<1>6. \A i \in 1 .. n - 1 : ~Holds(stack'[i], h)
  BY <1>1, <1>2
<1>7. \A i, j \in 1 .. n, r \in Runnables :
        Holds(stack'[i], r) /\ Holds(stack'[j], r) => i = j
  <2> SUFFICES ASSUME NEW i \in 1 .. n, NEW j \in 1 .. n, NEW r \in Runnables,
                      Holds(stack'[i], r), Holds(stack'[j], r), i # j
               PROVE  FALSE
    OBVIOUS
  <2>1. CASE r = h BY <1>4, <1>6, <2>1
  <2>2. CASE r # h
    <3>1. i \in 1 .. n - 1 /\ j \in 1 .. n - 1 BY <1>3, <1>4, <2>2
    <3>2. Holds(stack[i], r) /\ Holds(stack[j], r) BY <1>2, <3>1
    <3>3. QED BY <1>1, <3>2 DEF HandsOK, OneHand
  <2>3. QED BY <2>1, <2>2
<1>8. ASSUME NEW i \in 1 .. n PROVE \E f : f = stack'[i] /\ UpdateOK(f)'
  <2>1. CASE i = n BY <1>1, <2>1
  <2>2. CASE i \in 1 .. n - 1
    <3>1. PICK f : f = stack'[i] OBVIOUS
    <3>2. UpdateOK(stack[i]) /\ Alike(f, stack[i]) BY <1>1, <2>2, <3>1 DEF HandsOK, UpdatesOK
    <3>3. ~Holds(stack[i], h) BY <1>1, <2>2
    <3>4. stack[i] \in Call BY <1>1, ElementOfSeq
    <3>5. stack[i].of \in Runnables \cup {None} BY <3>4 DEF Call
    <3>6. UpdateOK(f)' BY <3>2, <3>3, <3>5 DEF UpdateOK, Alike, Holds
    <3>7. QED BY <3>1, <3>6
  <2>3. QED BY <1>4, <2>1, <2>2
<1>9. Hand(h)' <=> Holds(x, h)
  BY <1>1, <1>4, <1>6 DEF Hand, Holds
<1>10. UpdatesOK' BY <1>1, <1>8 DEF UpdatesOK, UpdateOK
<1>11. OneHand' BY <1>1, <1>7 DEF OneHand, Holds
<1>12. StartedHeld' BY <1>5, <1>9 DEF HandsOK, StartedHeld
<1>13. QED BY <1>5, <1>9, <1>10, <1>11, <1>12 DEF HandsOK

\* The innermost update ends with h, not started, in its hand.
LEMMA HandsDrop ==
  ASSUME stack \in Seq(Call), stack' \in Seq(Call), HandsOK, NEW h \in Runnables,
         Pops, Top.of = h, starts[h] = 0, UNCHANGED <<starts, finished>>
  PROVE  /\ HandsOK'
         /\ \A r \in Runnables : Hand(r)' => Hand(r)
         /\ \A r \in Runnables \ {h} : Hand(r)' <=> Hand(r)
<1>1. PICK n \in Nat \ {0}, m \in Nat :
        /\ n = Len(stack) /\ m = Len(stack') /\ m = n - 1 /\ Top = stack[n]
        /\ \A i \in 1 .. m : Alike(stack'[i], stack[i])
  <2>1. PICK n \in Nat \ {0} : n = Len(stack) /\ Top = stack[n] BY TopIs DEF Pops
  <2>2. n - 1 \in Nat /\ Len(stack') = n - 1 BY <2>1 DEF Pops
  <2>3. QED BY <2>1, <2>2 DEF Pops, AlikeTo
<1>2. \A i \in 1 .. n : i = n \/ i \in 1 .. m
  BY <1>1
<1>3. \A i \in 1 .. m : i \in 1 .. n
  BY <1>1
<1>4. \A i \in 1 .. m, r \in Runnables : Holds(stack'[i], r) <=> Holds(stack[i], r)
  BY <1>1 DEF Alike, Holds
<1>5. ASSUME NEW r \in Runnables
      PROVE  /\ Hand(r)' => Hand(r)
             /\ r # h => (Hand(r)' <=> Hand(r))
  <2>1. Hand(r)' <=> \E i \in 1 .. m : Holds(stack'[i], r)
    BY <1>1 DEF Hand, Holds
  <2>2. Hand(r) <=> \E i \in 1 .. n : Holds(stack[i], r)
    BY <1>1 DEF Hand
  <2>3. r # h => ~Holds(stack[n], r)
    BY <1>1 DEF Holds
  <2>4. QED BY <1>2, <1>3, <1>4, <2>1, <2>2, <2>3
<1>6. \A i, j \in 1 .. m, r \in Runnables :
        Holds(stack'[i], r) /\ Holds(stack'[j], r) => i = j
  BY <1>1, <1>3, <1>4 DEF HandsOK, OneHand
<1>7. ASSUME NEW i \in 1 .. m PROVE \E f : f = stack'[i] /\ UpdateOK(f)'
  <2>1. PICK f : f = stack'[i] OBVIOUS
  <2>2. UpdateOK(stack[i]) /\ Alike(f, stack[i]) BY <1>1, <1>3, <2>1 DEF HandsOK, UpdatesOK
  <2>3. UpdateOK(f)' BY <2>2 DEF UpdateOK, Alike
  <2>4. QED BY <2>1, <2>3
<1>8. StartedHeld' BY <1>5 DEF HandsOK, StartedHeld
<1>9. UpdatesOK' BY <1>1, <1>7 DEF UpdatesOK, UpdateOK
<1>10. OneHand' BY <1>1, <1>6 DEF OneHand, Holds
<1>11. HandsOK' BY <1>8, <1>9, <1>10 DEF HandsOK
<1>12. \A r \in Runnables \ {h} : Hand(r)' <=> Hand(r) BY <1>5
<1>13. QED BY <1>5, <1>11, <1>12

\* Updates that do not keep the executor from having terminated.
Rests(f) == f.op = "update" => f.of = None /\ f.pc # "ran"

KeepsRest ==
  /\ \A i \in 1 .. Len(stack) :
       \/ i \in 1 .. Len(stack') /\ Alike(stack'[i], stack[i])
       \/ Rests(stack[i])
  /\ \A i \in 1 .. Len(stack') :
       \/ i \in 1 .. Len(stack) /\ Alike(stack'[i], stack[i])
       \/ Rests(stack'[i])

LEMMA RestKept ==
  ASSUME stack \in Seq(Call), stack' \in Seq(Call), KeepsRest
  PROVE  KeepsHands /\ (Idle' <=> Idle)
<1>1. KeepsHands BY DEF KeepsRest, KeepsHands, Rests, Empty
<1>2. Idle <=> \A i \in 1 .. Len(stack) : Rests(stack[i])
  BY LenProperties DEF Idle, Rests
<1>3. Idle' <=> \A i \in 1 .. Len(stack') : Rests(stack'[i])
  BY LenProperties DEF Idle, Rests
<1>4. \A f, g : Alike(f, g) => (Rests(f) <=> Rests(g))
  BY DEF Alike, Rests
<1>5. QED BY <1>1, <1>2, <1>3, <1>4 DEF KeepsRest

LEMMA StepsKeep ==
  ASSUME stack \in Seq(Call)
  PROVE  /\ Stays => KeepsRest
         /\ \A c : Pushes(c) /\ Rests(c) => KeepsRest
         /\ Pops => /\ Rests(Top) => KeepsRest
                    /\ Empty(Top) => KeepsHands
         /\ \A x : Goes(x) => /\ Rests(x) /\ Rests(Top) => KeepsRest
                              /\ Empty(x) /\ Empty(Top) => KeepsHands
<1>1. PICK n \in Nat : n = Len(stack) BY LenProperties
<1>2. Stays => KeepsRest BY <1>1 DEF Stays, AlikeTo, KeepsRest
<1>3. ASSUME NEW c, Pushes(c), Rests(c) PROVE KeepsRest
  <2>1. /\ Len(stack') = n + 1 /\ stack'[n + 1] = c
        /\ \A i \in 1 .. n : i \in 1 .. n + 1 /\ Alike(stack'[i], stack[i])
        /\ \A i \in 1 .. n + 1 : i \in 1 .. n \/ i = n + 1
    BY <1>1, <1>3 DEF Pushes, AlikeTo
  <2>2. QED BY <1>1, <1>3, <2>1 DEF KeepsRest
<1>4. ASSUME Pops
      PROVE  /\ Rests(Top) => KeepsRest
             /\ Empty(Top) => KeepsHands
  <2>1. /\ n \in Nat \ {0} /\ Len(stack') = n - 1 /\ Top = stack[n]
        /\ \A i \in 1 .. n - 1 : i \in 1 .. n /\ Alike(stack'[i], stack[i])
        /\ \A i \in 1 .. n : i \in 1 .. n - 1 \/ i = n
    BY <1>1, <1>4, TopIs DEF Pops, AlikeTo
  <2>2. QED BY <1>1, <2>1 DEF KeepsRest, KeepsHands
<1>5. ASSUME NEW x, Goes(x)
      PROVE  /\ Rests(x) /\ Rests(Top) => KeepsRest
             /\ Empty(x) /\ Empty(Top) => KeepsHands
  <2>1. /\ Len(stack') = n /\ Top = stack[n] /\ stack'[n] = x
        /\ \A i \in 1 .. n - 1 : i \in 1 .. n /\ Alike(stack'[i], stack[i])
        /\ \A i \in 1 .. n : i \in 1 .. n - 1 \/ i = n
    BY <1>1, <1>5, TopIs DEF Goes, AlikeTo
  <2>2. QED BY <1>1, <2>1 DEF KeepsRest, KeepsHands
<1>6. QED BY <1>2, <1>3, <1>4, <1>5

\* An update that does not rest keeps the executor busy; one that is idle holds nothing.
LEMMA BusyTop ==
  ASSUME stack \in Seq(Call), stack' \in Seq(Call)
  PROVE  /\ stack # <<>> /\ ~Rests(Top) => ~Idle
         /\ \A x : Goes(x) /\ ~Rests(x) => ~Idle'
         /\ Idle => \A r \in Runnables : ~Hand(r)
         /\ Idle' => \A r \in Runnables : ~Hand(r)'
<1>1. Idle <=> \A i \in 1 .. Len(stack) : Rests(stack[i])
  BY LenProperties DEF Idle, Rests
<1>2. Idle' <=> \A i \in 1 .. Len(stack') : Rests(stack'[i])
  BY LenProperties DEF Idle, Rests
<1>3. stack # <<>> => Len(stack) \in 1 .. Len(stack) /\ Top = stack[Len(stack)]
  BY TopIs
<1>4. \A x : Goes(x) => Len(stack') = Len(stack) /\ stack # <<>> /\ stack'[Len(stack)] = x
  BY DEF Goes
<1>5. Idle => \A r \in Runnables : ~Hand(r)
  BY <1>1, CooperativeAssumption DEF Hand, Holds, Rests
<1>6. Idle' => \A r \in Runnables : ~Hand(r)'
  BY <1>2, CooperativeAssumption DEF Hand, Holds, Rests
<1>7. QED BY <1>1, <1>2, <1>3, <1>4, <1>5, <1>6

\* Only a shutdown closes the queue and throws runnables away; a Shutdown that has
\* set the mode is the only one with calls upon it.
Shuts(f) == f.op \in {"Shutdown", "ShutdownNow"}

ClosedOK ==
  /\ ~canAdd => mode # 0
  /\ stopped => mode # 0 /\ queue = <<>> /\ ~canAdd
  /\ \A s \in Stoppers : spc[s] = "clear" => mode # 0

ShutsOK ==
  \A i \in 1 .. Len(stack) :
    Shuts(stack[i]) => mode # 0 \/ (i = Len(stack) /\ stack[i].pc = "set")

ShutOK == ClosedOK /\ ShutsOK

LEMMA ShutInit == Init => ShutOK
<1> SUFFICES ASSUME Init PROVE ShutOK OBVIOUS
<1>1. Len(stack) = 0 BY EmptySeq DEF Init
<1>2. QED BY <1>1 DEF Init, ShutOK, ClosedOK, ShutsOK

\* The innermost call, of what has set the mode.
LEMMA ShutTop ==
  ASSUME stack \in Seq(Call), ShutsOK, stack # <<>>, Shuts(Top), Top.pc # "set"
  PROVE  mode # 0
BY TopIs DEF ShutsOK

\* Nobody takes a shutdown back.
LEMMA ShutsKept ==
  ASSUME stack \in Seq(Call), stack' \in Seq(Call), ShutsOK, mode # 0 => mode' # 0,
         \/ mode' # 0
         \/ Stays /\ stack' = stack
         \/ \E c : /\ Pushes(c) /\ (stack # <<>> => ~Shuts(Top))
                   /\ Shuts(c) => c.pc = "set"
         \/ Pops
         \/ \E x : Goes(x) /\ ~Shuts(x)
  PROVE  ShutsOK'
<1>1. PICK n \in Nat : n = Len(stack) BY LenProperties
<1>2. CASE mode' # 0 BY <1>2 DEF ShutsOK
<1>3. CASE mode' = 0
  <2>1. mode = 0 BY <1>3
  <2>2. \A i \in 1 .. n : Shuts(stack[i]) => i = n /\ stack[i].pc = "set"
    BY <1>1, <2>1 DEF ShutsOK
  <2>3. \A f, g : Alike(f, g) => (Shuts(f) <=> Shuts(g)) BY DEF Alike, Shuts
  <2>4. CASE Stays /\ stack' = stack BY <1>1, <2>2, <2>4 DEF ShutsOK
  <2>5. ASSUME NEW c, Pushes(c), stack # <<>> => ~Shuts(Top), Shuts(c) => c.pc = "set"
        PROVE  ShutsOK'
    <3>1. /\ Len(stack') = n + 1 /\ stack'[n + 1] = c
          /\ \A i \in 1 .. n : Alike(stack'[i], stack[i])
          /\ \A i \in 1 .. n + 1 : i \in 1 .. n \/ i = n + 1
      BY <1>1, <2>5 DEF Pushes, AlikeTo
    <3>2. \A i \in 1 .. n : ~Shuts(stack[i])
      <4>1. n # 0 => stack # <<>> /\ Top = stack[n] BY <1>1, EmptySeq, TopIs
      <4>2. QED BY <2>2, <2>5, <4>1
    <3>3. \A i \in 1 .. n + 1 : Shuts(stack'[i]) => i = n + 1 /\ stack'[i].pc = "set"
      BY <2>3, <2>5, <3>1, <3>2
    <3>4. QED BY <3>1, <3>3 DEF ShutsOK, Shuts
  <2>6. CASE Pops
    <3>1. /\ Len(stack') = n - 1
          /\ \A i \in 1 .. n - 1 : i \in 1 .. n /\ i # n /\ Alike(stack'[i], stack[i])
      BY <1>1, <2>6 DEF Pops, AlikeTo
    <3>2. \A i \in 1 .. n - 1 : ~Shuts(stack'[i])
      BY <2>2, <2>3, <3>1
    <3>3. QED BY <3>1, <3>2 DEF ShutsOK, Shuts
  <2>7. ASSUME NEW x, Goes(x), ~Shuts(x) PROVE ShutsOK'
    <3>1. /\ Len(stack') = n /\ stack'[n] = x
          /\ \A i \in 1 .. n - 1 : i \in 1 .. n /\ i # n /\ Alike(stack'[i], stack[i])
          /\ \A i \in 1 .. n : i \in 1 .. n - 1 \/ i = n
      BY <1>1, <2>7 DEF Goes, AlikeTo
    <3>2. \A i \in 1 .. n : ~Shuts(stack'[i])
      BY <2>2, <2>3, <2>7, <3>1
    <3>3. QED BY <3>1, <3>2 DEF ShutsOK, Shuts
  <2>8. QED BY <1>3, <2>4, <2>5, <2>6, <2>7
<1>4. QED BY <1>2, <1>3

(***************************************************************************)
(* What a step is for the executor: nothing, one runnable that moves, some *)
(* pending runnables that are dropped, and the end.                        *)
(***************************************************************************)

\* A runnable waits in the queue or in a hand.
Waiting(r) == r \in Queued \/ Hand(r)
Over       == stopped /\ Idle

LEMMA StatusIs ==
  ASSUME stack \in Seq(Call), stack' \in Seq(Call), NEW r \in Runnables
  PROVE  /\ r \in Queued \cup Held <=> Waiting(r)
         /\ r \in Queued' \cup Held' <=> Waiting(r)'
BY HeldIs, HeldIsNext DEF Waiting

LEMMA SameStatus ==
  ASSUME stack \in Seq(Call), stack' \in Seq(Call), NEW r \in Runnables,
         cpc'[r] = cpc[r], starts'[r] = starts[r], r \in finished' <=> r \in finished,
         Waiting(r)' <=> Waiting(r)
  PROVE  StatusOf(r)' = StatusOf(r)
BY StatusIs DEF StatusOf

LEMMA Stutters ==
  ASSUME UNCHANGED mode, \A r \in Runnables : StatusOf(r)' = StatusOf(r)
  PROVE  UNCHANGED Abstract!vars
<1>2. [r \in Runnables |-> StatusOf(r)]' = [r \in Runnables |-> StatusOf(r)]
  OBVIOUS
<1>3. GetIsShutdown' = GetIsShutdown /\ GetIsTerminated' = GetIsTerminated
  BY DEF GetIsShutdown, GetIsTerminated
<1>4. QED BY <1>2, <1>3 DEF Abstract!vars

LEMMA OneMoves ==
  ASSUME NEW r \in Runnables, NEW to, UNCHANGED mode,
         StatusOf(r)' = to, \A q \in Runnables \ {r} : StatusOf(q)' = StatusOf(q)
  PROVE  /\ StatusOf(r) = "new" /\ to = "offered" /\ mode = 0 => Abstract!Next
         /\ StatusOf(r) \in {"new", "offered"} /\ to = "refused" /\ mode # 0
              => Abstract!Next
         /\ StatusOf(r) = "offered" /\ to = "pending" => Abstract!Next
         /\ StatusOf(r) = "pending" /\ to = "running" => Abstract!Next
         /\ StatusOf(r) = "running" /\ to = "done" => Abstract!Next
<1> DEFINE S == [q \in Runnables |-> StatusOf(q)]
<1>1. S[r] = StatusOf(r)
  OBVIOUS
<1>2. S' = [S EXCEPT ![r] = to]
  OBVIOUS
<1>3. /\ GetIsShutdown' = GetIsShutdown /\ GetIsTerminated' = GetIsTerminated
      /\ GetIsShutdown <=> mode # 0
  BY DEF GetIsShutdown, GetIsTerminated
<1> HIDE DEF S
<1>5. QED BY <1>1, <1>2, <1>3
  DEF Abstract!Next, Abstract!Offer, Abstract!Refuse, Abstract!Accept,
      Abstract!Start, Abstract!Finish, Abstract!Becomes, S

\* A shut executor throws some of its runnables away.
LEMMA SomeDropped ==
  ASSUME mode # 0, UNCHANGED mode,
         \A r \in Runnables : \/ StatusOf(r)' = StatusOf(r)
                              \/ StatusOf(r) = "pending" /\ StatusOf(r)' = "dropped"
  PROVE  Abstract!Next
<1> DEFINE S == [q \in Runnables |-> StatusOf(q)]
           R == {q \in Runnables : StatusOf(q) = "pending" /\ StatusOf(q)' = "dropped"}
<1>1. R \in SUBSET {q \in Runnables : S[q] = "pending"}
  OBVIOUS
<1>2. S' = [q \in Runnables |-> IF q \in R THEN "dropped" ELSE S[q]]
  OBVIOUS
<1>3. /\ GetIsShutdown' = GetIsShutdown /\ GetIsTerminated' = GetIsTerminated
      /\ GetIsShutdown
  BY DEF GetIsShutdown, GetIsTerminated
<1> HIDE DEF R
<1>4. Abstract!Drop
  BY <1>1, <1>2, <1>3 DEF Abstract!Drop, Abstract!ThrowAway
<1>5. QED BY <1>4 DEF Abstract!Next

RInv    == HandsOK /\ ShutOK
Refines == RInv' /\ [Abstract!Next]_Abstract!vars /\ (Over => Over')

\* Calls that are made and that return, and what the other threads prepare.
LEMMA QuietRefines ==
  ASSUME IInv, IInv', RInv, KeepsRest, ShutsOK',
         UNCHANGED <<queue, canAdd, mode, cpc, finished, starts, stopped>>,
         \A s \in Stoppers : spc'[s] = "clear" => spc[s] = "clear"
  PROVE  Refines
<1>1. stack \in Seq(Call) /\ stack' \in Seq(Call) BY DEF IInv, StackOK
<1>2. KeepsHands /\ (Idle' <=> Idle) BY <1>1, RestKept
<1>3. HandsOK' /\ \A r \in Runnables : Hand(r)' <=> Hand(r)
  BY <1>1, <1>2, HandsKept DEF RInv
<1>4. ClosedOK' BY DEF RInv, ShutOK, ClosedOK
<1>5. Over' <=> Over BY <1>2 DEF Over
<1>6. Queued' = Queued BY DEF Queued
<1>7. \A r \in Runnables : Waiting(r)' <=> Waiting(r) BY <1>3, <1>6 DEF Waiting
<1>8. \A r \in Runnables : StatusOf(r)' = StatusOf(r) BY <1>1, <1>7, SameStatus
<1>9. UNCHANGED Abstract!vars BY <1>8, Stutters
<1>10. QED BY <1>3, <1>4, <1>5, <1>9 DEF Refines, RInv, ShutOK

\* A shutdown sets the mode.
LEMMA ModeRefines ==
  ASSUME IInv, IInv', RInv, KeepsRest, mode' \in {1, 2},
         UNCHANGED <<queue, canAdd, cpc, finished, starts, stopped>>
  PROVE  Refines
<1>1. stack \in Seq(Call) /\ stack' \in Seq(Call) BY DEF IInv, StackOK
<1>2. KeepsHands /\ (Idle' <=> Idle) BY <1>1, RestKept
<1>3. HandsOK' /\ \A r \in Runnables : Hand(r)' <=> Hand(r)
  BY <1>1, <1>2, HandsKept DEF RInv
<1>4. ShutOK' BY DEF RInv, ShutOK, ClosedOK, ShutsOK
<1>5. (stopped /\ Idle)' = (stopped /\ Idle) BY <1>2
<1>6. Queued' = Queued BY DEF Queued
<1>7. \A r \in Runnables : Waiting(r)' <=> Waiting(r) BY <1>3, <1>6 DEF Waiting
<1>8. \A r \in Runnables : StatusOf(r)' = StatusOf(r) BY <1>1, <1>7, SameStatus
<1>9. GetIsShutdown' = TRUE /\ GetIsTerminated' = TRUE
  BY DEF GetIsShutdown, GetIsTerminated
<1>10. [r \in Runnables |-> StatusOf(r)]' = [r \in Runnables |-> StatusOf(r)]
  BY <1>8
<1>11. Abstract!Shutdown BY <1>9, <1>10 DEF Abstract!Shutdown
<1>12. QED BY <1>3, <1>4, <1>5, <1>11 DEF Refines, RInv, Over, Abstract!Next

\* What has not been accepted was not started.
LEMMA NotStarted ==
  ASSUME IInv, RInv, NEW r \in Runnables, cpc[r] # "accepted"
  PROVE  starts[r] = 0 /\ r \notin finished
<1>1. starts[r] = 0 BY DEF IInv, OrderOK
<1>2. QED BY <1>1 DEF RInv, HandsOK, StartedHeld

\* Submit finds the executor open or not.
LEMMA SubmitRefines ==
  ASSUME IInv, IInv', RInv, NEW r \in Runnables, Submit(r)
  PROVE  Refines
<1>1. /\ stack \in Seq(Call) /\ stack' \in Seq(Call)
      /\ cpc \in [Runnables -> {"new", "adding", "accepted", "refused"}]
      /\ queue \in Seq(Runnables)
  BY DEF IInv, StackOK, TypeOK
<1>2. /\ UNCHANGED <<canAdd, mode, interrupted, stack, finished, spc, starts, stopped>>
      /\ cpc[r] \in {"new", "adding"}
      /\ \A q \in Runnables \ {r} : cpc'[q] = cpc[q]
  BY <1>1 DEF Submit, SubmitBegins, SubmitAdds
<1>3. KeepsRest BY <1>1, <1>2, StepsKeep DEF Stays, AlikeTo, Alike
<1>4. KeepsHands /\ (Idle' <=> Idle) BY <1>1, <1>3, RestKept
<1>5. HandsOK' /\ \A q \in Runnables : Hand(q)' <=> Hand(q)
  BY <1>1, <1>2, <1>4, HandsKept DEF RInv
<1>6. Over' <=> Over BY <1>2, <1>4 DEF Over
<1>7. ASSUME UNCHANGED queue PROVE ShutOK' /\ \A q \in Runnables : Waiting(q)' <=> Waiting(q)
  <2>1. ShutOK' BY <1>2, <1>7 DEF RInv, ShutOK, ClosedOK, ShutsOK
  <2>2. Queued' = Queued BY <1>7 DEF Queued
  <2>3. QED BY <1>5, <2>1, <2>2 DEF Waiting
<1>8. starts[r] = 0 /\ r \notin finished BY <1>2, NotStarted
<1>9. CASE SubmitBegins(r)
  <2>1. /\ UNCHANGED queue /\ cpc[r] = "new"
        /\ cpc'[r] = IF mode # 0 THEN "refused" ELSE "adding"
    BY <1>1, <1>9 DEF SubmitBegins
  <2>2. ShutOK' /\ \A q \in Runnables : Waiting(q)' <=> Waiting(q) BY <1>7, <2>1
  <2>3. \A q \in Runnables \ {r} : StatusOf(q)' = StatusOf(q)
    BY <1>1, <1>2, <2>2, SameStatus
  <2>4. StatusOf(r) = "new" BY <2>1 DEF StatusOf
  <2>5. StatusOf(r)' = IF mode # 0 THEN "refused" ELSE "offered"
    BY <2>1 DEF StatusOf
  <2>6. Abstract!Next BY <1>2, <2>3, <2>4, <2>5, OneMoves
  <2>7. QED BY <1>5, <1>6, <2>2, <2>6 DEF Refines, RInv
<1>10. CASE SubmitAdds(r) /\ ~canAdd
  <2>1. UNCHANGED queue /\ cpc[r] = "adding" /\ cpc'[r] = "refused" /\ mode # 0
    BY <1>1, <1>10 DEF SubmitAdds, RInv, ShutOK, ClosedOK
  <2>2. ShutOK' /\ \A q \in Runnables : Waiting(q)' <=> Waiting(q) BY <1>7, <2>1
  <2>3. \A q \in Runnables \ {r} : StatusOf(q)' = StatusOf(q)
    BY <1>1, <1>2, <2>2, SameStatus
  <2>4. StatusOf(r) = "offered" /\ StatusOf(r)' = "refused" BY <2>1 DEF StatusOf
  <2>5. Abstract!Next BY <1>2, <2>1, <2>3, <2>4, OneMoves
  <2>6. QED BY <1>5, <1>6, <2>2, <2>5 DEF Refines, RInv
<1>11. CASE SubmitAdds(r) /\ canAdd
  <2>1. queue' = Append(queue, r) /\ cpc[r] = "adding" /\ cpc'[r] = "accepted"
    BY <1>1, <1>11 DEF SubmitAdds
  <2>2. \A q \in Runnables : q \in Queued' <=> q \in Queued \/ q = r
    <3>1. PICK m \in Nat : m = Len(queue) /\ DOMAIN queue = 1 .. m
      BY <1>1, LenProperties
    <3>2. /\ DOMAIN queue' = 1 .. m + 1 /\ queue'[m + 1] = r
          /\ \A i \in 1 .. m : queue'[i] = queue[i]
      BY <1>1, <2>1, <3>1, AppendProperties, LenProperties
    <3>3. \A i \in 1 .. m + 1 : i \in 1 .. m \/ i = m + 1 BY <3>1
    <3>4. (\A i \in 1 .. m : i \in 1 .. m + 1) /\ m + 1 \in 1 .. m + 1 BY <3>1
    <3>5. \A q : q \in Queued => q \in Queued' BY <3>1, <3>2, <3>4 DEF Queued
    <3>6. r \in Queued' BY <3>2, <3>4 DEF Queued
    <3>7. \A q : q \in Queued' => q \in Queued \/ q = r
      BY <3>1, <3>2, <3>3 DEF Queued
    <3>8. QED BY <3>5, <3>6, <3>7
  <2>3. ShutOK' BY <1>2, <1>11 DEF RInv, ShutOK, ClosedOK, ShutsOK
  <2>4. \A q \in Runnables \ {r} : StatusOf(q)' = StatusOf(q)
    <3>1. \A q \in Runnables \ {r} : Waiting(q)' <=> Waiting(q)
      BY <1>5, <2>2 DEF Waiting
    <3>2. QED BY <1>1, <1>2, <3>1, SameStatus
  <2>5. StatusOf(r) = "offered" BY <2>1 DEF StatusOf
  <2>6. StatusOf(r)' = "pending"
    <3>1. r \in Queued' \cup Held' BY <2>2
    <3>2. QED BY <1>2, <1>8, <2>1, <3>1 DEF StatusOf
  <2>7. Abstract!Next BY <1>2, <2>4, <2>5, <2>6, OneMoves
  <2>8. QED BY <1>5, <1>6, <2>3, <2>7 DEF Refines, RInv
<1>12. QED BY <1>9, <1>10, <1>11 DEF Submit

(***************************************************************************)
(* Update, for the executor.                                               *)
(***************************************************************************)

LEMMA TopHand ==
  ASSUME stack \in Seq(Call), HandsOK, stack # <<>>
  PROVE  /\ UpdateOK(Top)
         /\ \A h \in Runnables : Holds(Top, h) =>
              /\ Hand(h)
              /\ \A i \in 1 .. Len(stack) - 1 : ~Holds(stack[i], h)
<1>1. PICK n \in Nat \ {0} : n = Len(stack) /\ Top = stack[n] BY TopIs
<1>2. n \in 1 .. n /\ \A i \in 1 .. n - 1 : i \in 1 .. n /\ i # n BY <1>1
<1>3. UpdateOK(Top) BY <1>1, <1>2 DEF HandsOK, UpdatesOK
<1>4. ASSUME NEW h \in Runnables, Holds(Top, h)
      PROVE  Hand(h) /\ \A i \in 1 .. n - 1 : ~Holds(stack[i], h)
  BY <1>1, <1>2, <1>4 DEF HandsOK, OneHand, Hand
<1>5. QED BY <1>1, <1>3, <1>4

\* Poll moves a runnable from the queue to a hand; after a shutdown it finds none.
LEMMA PollRefines ==
  ASSUME IInv, IInv', RInv, Poll
  PROVE  Refines
<1>1. /\ stack \in Seq(Call) /\ stack' \in Seq(Call) /\ stack # <<>>
      /\ Top.op = "update" /\ Top.pc = "poll" /\ queue \in Seq(Runnables)
      /\ UNCHANGED <<canAdd, mode, interrupted, cpc, cancelled, finished, spc,
                     starts, order, early, stopped>>
  BY DEF IInv, StackOK, TypeOK, Poll, At
<1>2. Rests(Top) BY <1>1, TopHand DEF RInv, UpdateOK, Rests
<1>3. CASE queue = <<>>
  <2>1. stack' = Moved("check", None) /\ UNCHANGED queue BY <1>3 DEF Poll
  <2>2. PICK x \in Call : Goes(x) /\ x.op = "update" /\ x.pc = "check" /\ x.of = None
    BY <1>1, <2>1, MovedGoes
  <2>3. KeepsRest
    <3>1. Rests(x) BY <2>2 DEF Rests
    <3>2. QED BY <1>1, <1>2, <2>2, <3>1, StepsKeep
  <2>4. ShutsOK' BY <1>1, <2>2, ShutsKept DEF RInv, ShutOK, Shuts
  <2>5. QED BY <1>1, <2>1, <2>3, <2>4, QuietRefines
<1>4. CASE queue # <<>>
  <2>1. PICK h \in Runnables, q \in Seq(Runnables) :
          /\ h = Head(queue) /\ h = queue[1] /\ q = Tail(queue) /\ queue' = q
          /\ Len(queue) \in Nat \ {0} /\ Len(q) = Len(queue) - 1
          /\ \A i \in 1 .. Len(q) : q[i] = queue[i + 1]
    <3>1. /\ Head(queue) \in Runnables /\ Tail(queue) \in Seq(Runnables)
          /\ Len(Tail(queue)) = Len(queue) - 1
          /\ \A i \in 1 .. Len(Tail(queue)) : Tail(queue)[i] = queue[i + 1]
      BY <1>1, <1>4, HeadTailProperties
    <3>2. Len(queue) \in Nat \ {0} BY <1>1, <1>4, EmptySeq, LenProperties
    <3>3. Head(queue) = queue[1] BY <1>1, <1>4, HeadTailProperties
    <3>4. queue' = Tail(queue) BY <1>4 DEF Poll
    <3>5. QED BY <3>1, <3>2, <3>3, <3>4
  <2>2. stack' = Moved("check", h) BY <1>4, <2>1 DEF Poll
  <2>3. PICK x \in Call : Goes(x) /\ x.op = "update" /\ x.pc = "check" /\ x.of = h
    BY <1>1, <2>2, MovedGoes
  <2>4. \A r \in Runnables : r \in Queued <=> r \in Queued' \/ r = h
    <3>1. PICK m \in Nat \ {0} :
            /\ m = Len(queue) /\ DOMAIN queue = 1 .. m /\ DOMAIN q = 1 .. m - 1
            /\ \A i \in 1 .. m - 1 : q[i] = queue[i + 1]
      BY <1>1, <2>1, LenProperties
    <3>2. /\ \A i \in 1 .. m - 1 : i + 1 \in 1 .. m
          /\ \A i \in 1 .. m : i = 1 \/ (i - 1 \in 1 .. m - 1 /\ (i - 1) + 1 = i)
          /\ 1 \in 1 .. m
      BY <3>1
    <3>3. h \in Queued BY <2>1, <3>1, <3>2 DEF Queued
    <3>4. \A r : r \in Queued' => r \in Queued BY <2>1, <3>1, <3>2 DEF Queued
    <3>5. ASSUME NEW i \in 1 .. m, queue[i] # h PROVE queue[i] \in Queued'
      <4>1. i - 1 \in 1 .. m - 1 /\ q[i - 1] = queue[i] BY <2>1, <3>1, <3>2, <3>5
      <4>2. QED BY <2>1, <3>1, <4>1 DEF Queued
    <3>6. \A r : r \in Queued => r \in Queued' \/ r = h BY <3>1, <3>5 DEF Queued
    <3>7. QED BY <3>3, <3>4, <3>6
  <2>5. starts[h] = 0 /\ h \notin finished
    <3>1. starts[h] = 0 BY <2>4 DEF IInv, OrderOK
    <3>2. QED BY <3>1 DEF RInv, HandsOK, StartedHeld
  <2>6. \A i \in 1 .. Len(stack) - 1 : ~Holds(stack[i], h)
    <3>1. \A i \in 1 .. Len(stack) : FrameOK(stack[i]) BY DEF IInv, StackOK
    <3>2. \A i \in 1 .. Len(stack) - 1 : i \in 1 .. Len(stack) BY <1>1, LenProperties
    <3>3. h # None /\ h \in Queued BY <2>4, CooperativeAssumption
    <3>4. QED BY <3>1, <3>2, <3>3 DEF FrameOK, Holds
  <2>7. UpdateOK(x)' BY <1>1, <2>3, <2>5 DEF UpdateOK
  <2>8. /\ Empty(Top) /\ Holds(x, h)
        /\ \A r \in Runnables \ {h} : /\ starts'[r] = starts[r]
                                      /\ r \in finished' <=> r \in finished
        /\ ~(starts'[h] > 0) /\ h \notin finished'
    BY <1>1, <1>2, <2>3, <2>5 DEF Empty, Rests, Holds
  <2>9. /\ HandsOK' /\ Hand(h)'
        /\ \A r \in Runnables \ {h} : Hand(r)' <=> Hand(r)
    BY <1>1, <2>3, <2>6, <2>7, <2>8, HandsMove DEF RInv
  <2>10. ~stopped BY <1>4 DEF RInv, ShutOK, ClosedOK
  <2>11. Over' <=> Over BY <1>1, <2>10 DEF Over
  <2>12. \A r \in Runnables : Waiting(r)' <=> Waiting(r)
    BY <2>4, <2>9 DEF Waiting
  <2>13. \A r \in Runnables : StatusOf(r)' = StatusOf(r)
    BY <1>1, <2>12, SameStatus
  <2>14. ShutsOK' BY <1>1, <2>3, ShutsKept DEF RInv, ShutOK, Shuts
  <2>15. ShutOK' BY <1>1, <2>10, <2>14 DEF RInv, ShutOK, ClosedOK
  <2>16. UNCHANGED Abstract!vars BY <1>1, <2>13, Stutters
  <2>17. QED BY <2>9, <2>11, <2>15, <2>16 DEF Refines, RInv
<1>5. QED BY <1>3, <1>4

\* The steps of an update with a runnable in its hand: it starts once, and finishes.
LEMMA RunsRefine ==
  ASSUME IInv, IInv', RInv, CheckPasses \/ RunBegins \/ RunReturns
  PROVE  Refines
<1>1. /\ stack \in Seq(Call) /\ stack' \in Seq(Call) /\ stack # <<>>
      /\ Top.op = "update" /\ starts \in [Runnables -> Nat]
      /\ UNCHANGED <<queue, canAdd, mode, interrupted, cpc, cancelled, spc, order,
                     early, stopped>>
  BY DEF IInv, StackOK, TypeOK, CheckPasses, RunBegins, RunReturns, At
<1>2. PICK h \in Runnables : h = Top.of /\ h # None /\ cpc[h] = "accepted"
  <2>1. Top.of # None
    BY <1>1, HandIs DEF CheckPasses, RunBegins, RunReturns, At
  <2>2. QED BY <1>1, <2>1, HandIs
<1>3. /\ UpdateOK(Top) /\ Holds(Top, h) /\ Hand(h)
      /\ \A i \in 1 .. Len(stack) - 1 : ~Holds(stack[i], h)
  BY <1>1, <1>2, TopHand DEF RInv, Holds
<1>4. h \notin finished /\ (starts[h] > 0 <=> Top.pc \in {"running", "skipped"})
  BY <1>1, <1>2, <1>3 DEF UpdateOK
<1>5. ~Idle BY <1>1, <1>2, BusyTop DEF Rests
<1>6. Queued' = Queued BY <1>1 DEF Queued
<1>7. ASSUME NEW x \in Call, Goes(x), x.op = "update", ~Rests(x)
      PROVE  ShutOK' /\ (Over' <=> Over) /\ ~Over
  <2>1. ShutsOK' BY <1>1, <1>7, ShutsKept DEF RInv, ShutOK, Shuts
  <2>2. ShutOK' BY <1>1, <2>1 DEF RInv, ShutOK, ClosedOK
  <2>3. ~Idle' BY <1>1, <1>7, BusyTop
  <2>4. QED BY <1>5, <2>2, <2>3 DEF Over
<1>8. CASE CheckPasses
  <2>1. stack' = Moved("run", h) /\ UNCHANGED <<starts, finished>> /\ Top.pc = "check"
    BY <1>2, <1>8 DEF CheckPasses, At
  <2>2. PICK x \in Call : Goes(x) /\ x.op = "update" /\ x.pc = "run" /\ x.of = h
    BY <1>1, <2>1, MovedGoes
  <2>3. UpdateOK(x)' /\ Holds(x, h) /\ ~Rests(x) /\ ~(starts'[h] > 0) /\ h \notin finished'
    BY <1>2, <1>4, <2>1, <2>2 DEF UpdateOK, Holds, Rests
  <2>4. /\ HandsOK' /\ Hand(h)'
        /\ \A r \in Runnables \ {h} : Hand(r)' <=> Hand(r)
    BY <1>1, <1>2, <1>3, <2>1, <2>2, <2>3, HandsMove DEF RInv
  <2>5. \A r \in Runnables : Waiting(r)' <=> Waiting(r)
    BY <1>3, <1>6, <2>4 DEF Waiting
  <2>6. \A r \in Runnables : StatusOf(r)' = StatusOf(r)
    BY <1>1, <2>1, <2>5, SameStatus
  <2>7. ShutOK' /\ (Over' <=> Over) BY <1>7, <2>2, <2>3
  <2>8. UNCHANGED Abstract!vars BY <1>1, <2>6, Stutters
  <2>9. QED BY <2>4, <2>7, <2>8 DEF Refines, RInv
<1>9. CASE RunBegins
  <2>1. /\ Top.pc = "run" /\ UNCHANGED finished
        /\ starts' = [starts EXCEPT ![h] = @ + 1]
    BY <1>2, <1>9 DEF RunBegins, At
  <2>2. PICK to \in {"skipped", "running"} : stack' = Moved(to, h)
    BY <1>2, <1>9 DEF RunBegins
  <2>3. PICK x \in Call : Goes(x) /\ x.op = "update" /\ x.pc = to /\ x.of = h
    BY <1>1, <2>2, MovedGoes
  <2>4. /\ starts[h] = 0 /\ starts'[h] = 1
        /\ \A r \in Runnables \ {h} : starts'[r] = starts[r]
    BY <1>1, <1>4, <2>1
  <2>5. UpdateOK(x)' /\ Holds(x, h) /\ ~Rests(x) /\ h \notin finished'
    BY <1>2, <1>4, <2>1, <2>3, <2>4 DEF UpdateOK, Holds, Rests
  <2>6. /\ HandsOK' /\ Hand(h)'
        /\ \A r \in Runnables \ {h} : Hand(r)' <=> Hand(r)
    BY <1>1, <1>2, <1>3, <2>1, <2>3, <2>4, <2>5, HandsMove DEF RInv
  <2>7. \A r \in Runnables \ {h} : StatusOf(r)' = StatusOf(r)
    <3>1. \A r \in Runnables \ {h} : Waiting(r)' <=> Waiting(r)
      BY <1>6, <2>6 DEF Waiting
    <3>2. QED BY <1>1, <2>1, <2>4, <3>1, SameStatus
  <2>8. StatusOf(h) = "pending" /\ StatusOf(h)' = "running"
    <3>1. h \in Queued \cup Held BY <1>1, <1>3, StatusIs DEF Waiting
    <3>2. QED BY <1>1, <1>2, <1>4, <2>1, <2>4, <3>1 DEF StatusOf
  <2>9. ShutOK' /\ (Over' <=> Over) /\ ~Over BY <1>7, <2>3, <2>5
  <2>10. Abstract!Next BY <1>1, <2>7, <2>8, OneMoves
  <2>11. QED BY <2>6, <2>9, <2>10 DEF Refines, RInv
<1>10. CASE RunReturns
  <2>1. /\ stack' = Moved("ran", None) /\ finished' = finished \cup {h}
        /\ Top.pc \in {"running", "skipped"} /\ UNCHANGED starts
    BY <1>2, <1>10 DEF RunReturns, At
  <2>2. PICK x \in Call : Goes(x) /\ x.op = "update" /\ x.pc = "ran" /\ x.of = None
    BY <1>1, <2>1, MovedGoes
  <2>3. UpdateOK(x)' /\ Empty(x) /\ ~Rests(x) /\ h \in finished' /\ starts'[h] > 0
    BY <1>2, <1>4, <2>1, <2>2 DEF UpdateOK, Empty, Rests
  <2>4. HandsOK' /\ \A r \in Runnables \ {h} : Hand(r)' <=> Hand(r)
    BY <1>1, <1>2, <1>3, <2>1, <2>2, <2>3, HandsMove DEF RInv
  <2>5. \A r \in Runnables \ {h} : StatusOf(r)' = StatusOf(r)
    <3>1. \A r \in Runnables \ {h} : Waiting(r)' <=> Waiting(r)
      BY <1>6, <2>4 DEF Waiting
    <3>2. QED BY <1>1, <2>1, <3>1, SameStatus
  <2>6. StatusOf(h) = "running" /\ StatusOf(h)' = "done"
    BY <1>1, <1>2, <1>4, <2>1, <2>3 DEF StatusOf
  <2>7. ShutOK' /\ (Over' <=> Over) BY <1>7, <2>2, <2>3
  <2>8. Abstract!Next BY <1>1, <2>5, <2>6, OneMoves
  <2>9. QED BY <2>4, <2>7, <2>8 DEF Refines, RInv
<1>11. QED BY <1>8, <1>9, <1>10

\* A runnable that waits no longer is dropped.
LEMMA DropStatus ==
  ASSUME stack \in Seq(Call), stack' \in Seq(Call), NEW r \in Runnables,
         cpc' = cpc, starts' = starts, finished' = finished, Waiting(r)' => Waiting(r)
  PROVE  \/ StatusOf(r)' = StatusOf(r)
         \/ StatusOf(r) = "pending" /\ StatusOf(r)' = "dropped"
BY StatusIs DEF StatusOf

\* After ShutdownNow, the update lets go of what it has polled.
LEMMA CheckEndsRefines ==
  ASSUME IInv, IInv', RInv, CheckEnds
  PROVE  Refines
<1>1. /\ stack \in Seq(Call) /\ stack' \in Seq(Call) /\ stack # <<>> /\ Pops
      /\ Top.op = "update" /\ Top.pc = "check" /\ (Top.of = None \/ mode = 2)
      /\ UNCHANGED <<queue, canAdd, mode, interrupted, cpc, cancelled, finished, spc,
                     starts, order, early, stopped>>
  BY ReturnedPops DEF IInv, StackOK, CheckEnds, At
<1>2. ShutsOK' BY <1>1, ShutsKept DEF RInv, ShutOK
<1>3. CASE Top.of = None
  <2>1. KeepsRest BY <1>1, <1>3, StepsKeep DEF Rests
  <2>2. QED BY <1>1, <1>2, <2>1, QuietRefines
<1>4. CASE Top.of # None
  <2>1. PICK h \in Runnables : h = Top.of BY <1>1, <1>4, HandIs
  <2>2. starts[h] = 0
    <3>1. starts[h] \in Nat BY DEF IInv, TypeOK
    <3>2. QED BY <1>1, <1>4, <2>1, <3>1, TopHand DEF RInv, UpdateOK
  <2>3. /\ HandsOK'
        /\ \A r \in Runnables : Hand(r)' => Hand(r)
        /\ \A r \in Runnables \ {h} : Hand(r)' <=> Hand(r)
    BY <1>1, <2>1, <2>2, HandsDrop DEF RInv
  <2>4. Queued' = Queued BY <1>1 DEF Queued
  <2>5. \A r \in Runnables : \/ StatusOf(r)' = StatusOf(r)
                             \/ StatusOf(r) = "pending" /\ StatusOf(r)' = "dropped"
    BY <1>1, <2>3, <2>4, DropStatus DEF Waiting
  <2>6. ~Over BY <1>1, <1>4, BusyTop DEF Rests, Over
  <2>7. Abstract!Next BY <1>1, <1>4, <2>5, SomeDropped
  <2>8. ShutOK' BY <1>1, <1>2 DEF RInv, ShutOK, ClosedOK
  <2>9. QED BY <2>3, <2>6, <2>7, <2>8 DEF Refines, RInv
<1>5. QED BY <1>3, <1>4

\* An update ends after its runnable, or goes on.
LEMMA UpdateEndsRefines ==
  ASSUME IInv, IInv', RInv, UpdateEnds \/ UpdateGoesOn
  PROVE  Refines
<1>1. /\ stack \in Seq(Call) /\ stack' \in Seq(Call) /\ stack # <<>>
      /\ Top.op = "update" /\ Top.pc = "ran"
      /\ UNCHANGED <<queue, canAdd, mode, interrupted, cpc, cancelled, finished, spc,
                     starts, order, early, stopped>>
  BY DEF IInv, StackOK, UpdateEnds, UpdateGoesOn, At
<1>2. ~Rests(Top) /\ Empty(Top)
  BY <1>1, TopHand DEF RInv, UpdateOK, Rests, Empty
<1>3. ~Over BY <1>1, <1>2, BusyTop DEF Over
<1>4. KeepsHands /\ ShutsOK'
  <2>1. CASE UpdateEnds
    <3>1. Pops BY <1>1, <2>1, ReturnedPops DEF UpdateEnds
    <3>2. QED BY <1>1, <1>2, <3>1, StepsKeep, ShutsKept DEF RInv, ShutOK
  <2>2. CASE UpdateGoesOn
    <3>1. stack' = Moved("poll", None) BY <2>2 DEF UpdateGoesOn
    <3>2. PICK x \in Call : Goes(x) /\ x.op = "update" /\ x.pc = "poll" /\ x.of = None
      BY <1>1, <3>1, MovedGoes
    <3>3. Empty(x) /\ ~Shuts(x) BY <3>2 DEF Empty, Shuts
    <3>4. KeepsHands BY <1>1, <1>2, <3>2, <3>3, StepsKeep
    <3>5. ShutsOK' BY <1>1, <3>2, <3>3, ShutsKept DEF RInv, ShutOK
    <3>6. QED BY <3>4, <3>5
  <2>3. QED BY <1>1, <2>1, <2>2
<1>5. HandsOK' /\ \A r \in Runnables : Hand(r)' <=> Hand(r)
  BY <1>1, <1>4, HandsKept DEF RInv
<1>6. Queued' = Queued BY <1>1 DEF Queued
<1>7. \A r \in Runnables : Waiting(r)' <=> Waiting(r) BY <1>5, <1>6 DEF Waiting
<1>8. \A r \in Runnables : StatusOf(r)' = StatusOf(r) BY <1>1, <1>7, SameStatus
<1>9. ShutOK' BY <1>1, <1>4 DEF RInv, ShutOK, ClosedOK
<1>10. UNCHANGED Abstract!vars BY <1>1, <1>8, Stutters
<1>11. QED BY <1>3, <1>5, <1>9, <1>10 DEF Refines, RInv

(***************************************************************************)
(* Wait, Shutdown and ShutdownNow, for the executor.                       *)
(***************************************************************************)

\* A queue that is cleared drops its runnables.
LEMMA ClearRefines ==
  ASSUME IInv, IInv', RInv, KeepsRest, ShutsOK', mode # 0, queue' = <<>>, canAdd' = FALSE,
         UNCHANGED <<mode, cpc, finished, starts>>, stopped' \in {stopped, TRUE},
         \A s \in Stoppers : spc'[s] = "clear" => spc[s] = "clear"
  PROVE  Refines
<1>1. stack \in Seq(Call) /\ stack' \in Seq(Call) /\ stopped \in BOOLEAN
  BY DEF IInv, StackOK, TypeOK
<1>2. KeepsHands /\ (Idle' <=> Idle) BY <1>1, RestKept
<1>3. HandsOK' /\ \A r \in Runnables : Hand(r)' <=> Hand(r)
  BY <1>1, <1>2, HandsKept DEF RInv
<1>4. ShutOK' BY DEF RInv, ShutOK, ClosedOK
<1>5. Queued' = {} BY DEF Queued
<1>6. \A r \in Runnables : Waiting(r)' => Waiting(r) BY <1>3, <1>5 DEF Waiting
<1>7. \A r \in Runnables : \/ StatusOf(r)' = StatusOf(r)
                           \/ StatusOf(r) = "pending" /\ StatusOf(r)' = "dropped"
  BY <1>1, <1>6, DropStatus
<1>8. Over => Over' BY <1>1, <1>2 DEF Over
<1>9. Abstract!Next BY <1>7, SomeDropped
<1>10. QED BY <1>3, <1>4, <1>8, <1>9 DEF Refines, RInv

\* A call is made where the owner may make one.
LEMMA BeginsRefine ==
  ASSUME IInv, IInv', RInv, UpdateBegins \/ WaitBegins \/ ShutdownBegins
  PROVE  Refines
<1>1. /\ UNCHANGED <<queue, canAdd, mode, cpc, cancelled, finished, spc, starts,
                     order, early, stopped>>
      /\ stack \in Seq(Call) /\ stack' \in Seq(Call)
  BY DEF IInv, StackOK, UpdateBegins, WaitBegins, ShutdownBegins
<1>2. PICK c \in Call : Calls(c) /\ Rests(c) /\ (Shuts(c) => c.pc = "set")
  <2>1. CASE UpdateBegins
    <3>1. PICK slice \in BOOLEAN : Calls(NewUpdate(slice)) BY <2>1 DEF UpdateBegins
    <3>2. PICK c \in Call : c = NewUpdate(slice) /\ c.op = "update" /\ c.pc = "poll"
                           /\ c.of = None
      BY NewUpdateOK
    <3>3. Rests(c) /\ ~Shuts(c) BY <3>2 DEF Rests, Shuts
    <3>4. QED BY <3>1, <3>2, <3>3
  <2>2. CASE WaitBegins
    <3>1. PICK r \in Runnables, timed \in BOOLEAN :
            Calls([op |-> "wait", pc |-> "test", of |-> r, time |-> timed,
                   cut |-> FALSE])
      BY <2>2 DEF WaitBegins
    <3>2. PICK c : c = [op |-> "wait", pc |-> "test", of |-> r, time |-> timed,
                        cut |-> FALSE]
      OBVIOUS
    <3>3. c \in Call /\ Rests(c) /\ ~Shuts(c) BY <3>2 DEF Call, Rests, Shuts
    <3>4. QED BY <3>1, <3>2, <3>3
  <2>3. CASE ShutdownBegins
    <3>1. PICK op \in {"Shutdown", "ShutdownNow"} :
            Calls([op |-> op, pc |-> "set", of |-> None, time |-> FALSE,
                   cut |-> FALSE])
      BY <2>3, CooperativeAssumption DEF ShutdownBegins
    <3>2. PICK c : c = [op |-> op, pc |-> "set", of |-> None, time |-> FALSE,
                        cut |-> FALSE]
      OBVIOUS
    <3>3. c \in Call /\ Rests(c) /\ c.pc = "set" BY <3>2 DEF Call, Rests
    <3>4. QED BY <3>1, <3>2, <3>3
  <2>4. QED BY <2>1, <2>2, <2>3
<1>3. Pushes(c) BY <1>1, <1>2, CallsPushes
<1>4. KeepsRest BY <1>1, <1>2, <1>3, StepsKeep
<1>5. stack # <<>> => ~Shuts(Top)
  BY <1>2 DEF Calls, OwnerFree, At, Shuts
<1>6. ShutsOK' BY <1>1, <1>2, <1>3, <1>5, ShutsKept DEF RInv, ShutOK
<1>7. QED BY <1>1, <1>4, <1>6, QuietRefines

LEMMA WaitRefines ==
  ASSUME IInv, IInv', RInv, WaitEnds \/ WaitUpdates
  PROVE  Refines
<1>1. /\ stack \in Seq(Call) /\ stack' \in Seq(Call) /\ stack # <<>>
      /\ Top.op = "wait" /\ Rests(Top) /\ ~Shuts(Top)
      /\ UNCHANGED <<queue, canAdd, mode, cpc, cancelled, finished, spc, starts,
                     order, early, stopped>>
  BY DEF IInv, StackOK, WaitEnds, WaitUpdates, At, Rests, Shuts
<1>2. CASE WaitEnds
  <2>1. Pops BY <1>1, <1>2, ReturnedPops DEF WaitEnds
  <2>2. KeepsRest BY <1>1, <2>1, StepsKeep
  <2>3. ShutsOK' BY <1>1, <2>1, ShutsKept DEF RInv, ShutOK
  <2>4. QED BY <1>1, <2>2, <2>3, QuietRefines
<1>3. CASE WaitUpdates
  <2>1. stack' = stack \o <<NewUpdate(FALSE)>> BY <1>3 DEF WaitUpdates
  <2>2. PICK c \in Call : c = NewUpdate(FALSE) /\ c.op = "update" /\ c.pc = "poll"
                         /\ c.of = None
    BY NewUpdateOK
  <2>3. Rests(c) /\ ~Shuts(c) BY <2>2 DEF Rests, Shuts
  <2>4. Pushes(c)
    <3>1. /\ Len(stack') = Len(stack) + 1 /\ stack'[Len(stack) + 1] = c
          /\ \A i \in 1 .. Len(stack) : stack'[i] = stack[i]
      BY <1>1, <2>1, <2>2, Puts
    <3>2. QED BY <3>1 DEF Pushes, AlikeTo, Alike
  <2>5. KeepsRest BY <1>1, <2>3, <2>4, StepsKeep
  <2>6. ShutsOK' BY <1>1, <2>3, <2>4, ShutsKept DEF RInv, ShutOK
  <2>7. QED BY <1>1, <2>5, <2>6, QuietRefines
<1>4. QED BY <1>2, <1>3

\* InterruptUpdate marks a call for the history only.
LEMMA InterruptRefines ==
  ASSUME IInv, IInv', RInv, InterruptUpdate
  PROVE  Refines
<1>1. /\ stack \in Seq(Call) /\ stack' \in Seq(Call) /\ stack # <<>>
      /\ UNCHANGED <<queue, canAdd, mode, cpc, cancelled, finished, spc, starts,
                     order, early, stopped>>
  BY DEF IInv, StackOK, InterruptUpdate
<1>2. CASE stack' = stack
  <2>1. Stays BY <1>2 DEF Stays, AlikeTo, Alike
  <2>2. KeepsRest BY <1>1, <2>1, StepsKeep
  <2>3. ShutsOK' BY <1>1, <1>2, <2>1, ShutsKept DEF RInv, ShutOK
  <2>4. QED BY <1>1, <2>2, <2>3, QuietRefines
<1>3. CASE At("update", "running") /\ stack' = Pop \o <<[Top EXCEPT !.cut = TRUE]>>
  <2>1. PICK t \in Call : t = Top BY <1>1, TopIs
  <2>2. PICK x \in Call : x = [t EXCEPT !.cut = TRUE] BY DEF Call
  <2>3. Alike(x, Top) /\ x.op = "update" BY <1>3, <2>1, <2>2 DEF Alike, Call, At
  <2>4. Goes(x) BY <1>1, <1>3, <2>1, <2>2, GoesOn
  <2>5. Stays
    <3>1. PICK n \in Nat \ {0} : n = Len(stack) /\ Top = stack[n] BY <1>1, TopIs
    <3>2. \A i \in 1 .. n : i = n \/ i \in 1 .. n - 1 BY <3>1
    <3>3. QED BY <2>3, <2>4, <3>1, <3>2 DEF Goes, Stays, AlikeTo
  <2>6. KeepsRest BY <1>1, <2>5, StepsKeep
  <2>7. ~Shuts(x) BY <2>3 DEF Shuts
  <2>8. ShutsOK' BY <1>1, <2>4, <2>7, ShutsKept DEF RInv, ShutOK
  <2>9. QED BY <1>1, <2>6, <2>8, QuietRefines
<1>4. QED BY <1>2, <1>3 DEF InterruptUpdate

LEMMA ShutdownRefines ==
  ASSUME IInv, IInv', RInv, ShutdownSets \/ ShutdownNowSets \/ ShutdownReturns
  PROVE  Refines
<1>1. /\ stack \in Seq(Call) /\ stack' \in Seq(Call) /\ stack # <<>>
      /\ Top.op \in {"Shutdown", "ShutdownNow"} /\ Rests(Top) /\ Shuts(Top)
      /\ UNCHANGED <<cpc, finished, spc, starts>>
  BY DEF IInv, StackOK, ShutdownSets, ShutdownNowSets, ShutdownReturns, At, Rests, Shuts
<1>2. CASE ShutdownSets
  <2>1. /\ mode' = 1 /\ Top.op = "Shutdown" /\ UNCHANGED <<queue, canAdd, stopped>>
    BY <1>2 DEF ShutdownSets, At
  <2>2. PICK slice \in BOOLEAN :
          stack' = Moved("update", None) \o <<NewUpdate(slice)>>
    BY <1>2 DEF ShutdownSets
  <2>3. PICK t \in Call : t = Top BY <1>1, TopIs
  <2>4. PICK x \in Call : x = [t EXCEPT !.pc = "update", !.of = None] BY DEF Call
  <2>5. Alike(x, Top) BY <2>1, <2>3, <2>4 DEF Alike, Call
  <2>6. PICK c \in Call : c = NewUpdate(slice) /\ c.op = "update" /\ c.pc = "poll"
                         /\ c.of = None
    BY NewUpdateOK
  <2>7. stack' = (Pop \o <<x>>) \o <<c>> BY <2>2, <2>3, <2>4, <2>6 DEF Moved
  <2>8. Pushes(c) BY <1>1, <2>5, <2>7, PushesOn
  <2>9. Rests(c) BY <2>6 DEF Rests
  <2>10. KeepsRest BY <1>1, <2>8, <2>9, StepsKeep
  <2>11. QED BY <1>1, <2>1, <2>10, ModeRefines
<1>3. CASE ShutdownNowSets
  <2>1. /\ mode' = 2 /\ stack' = Moved("clear", None) /\ Top.op = "ShutdownNow"
        /\ UNCHANGED <<queue, canAdd, stopped>>
    BY <1>3 DEF ShutdownNowSets, At
  <2>2. PICK x \in Call : Goes(x) /\ x.op = "ShutdownNow"
    BY <1>1, <2>1, MovedGoes
  <2>3. Rests(x) BY <2>2 DEF Rests
  <2>4. KeepsRest BY <1>1, <2>2, <2>3, StepsKeep
  <2>5. QED BY <1>1, <2>1, <2>4, ModeRefines
<1>4. CASE ShutdownReturns
  <2>1. /\ Top.pc = "clear" /\ stack' = Returned /\ queue' = <<>> /\ canAdd' = FALSE
        /\ stopped' = TRUE /\ UNCHANGED mode
    BY <1>4 DEF ShutdownReturns, InvalidateQueue, At
  <2>2. mode # 0 BY <1>1, <2>1, ShutTop DEF RInv, ShutOK
  <2>3. Pops BY <1>1, <2>1, ReturnedPops
  <2>4. KeepsRest BY <1>1, <2>3, StepsKeep
  <2>5. ShutsOK' BY <1>1, <2>1, <2>3, ShutsKept DEF RInv, ShutOK
  <2>6. QED BY <1>1, <2>1, <2>2, <2>4, <2>5, ClearRefines
<1>5. QED BY <1>2, <1>3, <1>4

LEMMA NowRefines ==
  ASSUME IInv, IInv', RInv, NEW s \in Stoppers, NowBegins(s) \/ NowSets(s) \/ NowReturns(s)
  PROVE  Refines
<1>1. /\ stack \in Seq(Call) /\ stack' \in Seq(Call) /\ stack' = stack
      /\ spc \in [Stoppers -> {"out", "set", "clear"}]
      /\ UNCHANGED <<cpc, finished, starts, stopped>>
  BY DEF IInv, StackOK, TypeOK, NowBegins, NowSets, NowReturns
<1>2. Stays BY <1>1 DEF Stays, AlikeTo, Alike
<1>3. KeepsRest BY <1>1, <1>2, StepsKeep
<1>4. UNCHANGED mode => ShutsOK' BY <1>1, <1>2, ShutsKept DEF RInv, ShutOK
<1>5. CASE NowBegins(s)
  <2>1. UNCHANGED <<queue, canAdd, mode>> /\ spc' = [spc EXCEPT ![s] = "set"]
    BY <1>5 DEF NowBegins
  <2>2. \A t \in Stoppers : spc'[t] = "clear" => spc[t] = "clear" BY <1>1, <2>1
  <2>3. QED BY <1>1, <1>3, <1>4, <2>1, <2>2, QuietRefines
<1>6. CASE NowSets(s)
  BY <1>1, <1>3, <1>6, ModeRefines DEF NowSets
<1>7. CASE NowReturns(s)
  <2>1. /\ spc[s] = "clear" /\ queue' = <<>> /\ canAdd' = FALSE /\ UNCHANGED mode
        /\ spc' = [spc EXCEPT ![s] = "out"]
    BY <1>7 DEF NowReturns, InvalidateQueue
  <2>2. mode # 0 BY <2>1 DEF RInv, ShutOK, ClosedOK
  <2>3. \A t \in Stoppers : spc'[t] = "clear" => spc[t] = "clear" BY <1>1, <2>1
  <2>4. QED BY <1>1, <1>3, <1>4, <2>1, <2>2, <2>3, ClearRefines
<1>8. QED BY <1>5, <1>6, <1>7

\* Every step keeps the invariant, is a step of the executor, and does not end the
\* rest that follows the owner's shutdown.
LEMMA StepRefines ==
  ASSUME IInv, IInv', RInv, [Next]_vars
  PROVE  Refines
<1>1. stack \in Seq(Call) /\ stack' \in Seq(Call) BY DEF IInv, StackOK
<1>2. ASSUME stack' = stack, UNCHANGED <<queue, canAdd, mode, cpc, finished, spc,
                                        starts, stopped>>
      PROVE  Refines
  <2>1. Stays BY <1>2 DEF Stays, AlikeTo, Alike
  <2>2. KeepsRest BY <1>1, <2>1, StepsKeep
  <2>3. ShutsOK' BY <1>1, <1>2, <2>1, ShutsKept DEF RInv, ShutOK
  <2>4. QED BY <1>2, <2>2, <2>3, QuietRefines
<1>3. CASE UNCHANGED vars BY <1>2, <1>3 DEF vars
<1>4. CASE Owner
  BY <1>4, PollRefines, CheckEndsRefines, RunsRefine, UpdateEndsRefines, WaitRefines,
     ShutdownRefines DEF Owner
<1>5. CASE UpdateBegins \/ WaitBegins \/ ShutdownBegins BY <1>5, BeginsRefine
<1>6. CASE InterruptUpdate BY <1>6, InterruptRefines
<1>7. ASSUME NEW r \in Runnables, Submit(r) PROVE Refines BY <1>7, SubmitRefines
<1>8. ASSUME NEW r \in Runnables, Cancel(r) PROVE Refines BY <1>2, <1>8 DEF Cancel
<1>9. ASSUME NEW s \in Stoppers, NowBegins(s) \/ Stopper(s) PROVE Refines
  BY <1>9, NowRefines DEF Stopper
<1>10. QED BY <1>3, <1>4, <1>5, <1>6, <1>7, <1>8, <1>9 DEF Next

\* The cooperative executor implements Executor with a GetIsTerminated that waits for
\* nothing, any of its shutdowns may throw runnables away: a runnable is refused only
\* after a shutdown, started at most once however updates nest, and lost only to a
\* shutdown.
THEOREM CooperativeIsExecutor == Spec => ImplementsExecutor
<1>1. Init => Abstract!Init
  <2>1. Init => [r \in Runnables |-> StatusOf(r)] = [r \in Runnables |-> "new"]
    BY DEF Init, StatusOf
  <2>2. Init => GetIsShutdown = FALSE /\ GetIsTerminated = FALSE
    BY DEF Init, GetIsShutdown, GetIsTerminated
  <2>3. QED BY <2>1, <2>2 DEF Abstract!Init
<1>2. Init => RInv BY HandsInit, ShutInit DEF RInv
<1>3. IInv /\ IInv' /\ RInv /\ [Next]_vars
        => RInv' /\ [Abstract!Next]_Abstract!vars
  BY StepRefines DEF Refines
<1>4. QED
  BY <1>1, <1>2, <1>3, Invariant, PTL DEF Spec, ImplementsExecutor, Abstract!Spec

\* Once a shutdown of the owner has returned and no update is busy with a runnable,
\* no update gets hold of one again, whatever is submitted and called later.
THEOREM StoppedIsIdle == Spec => StoppedStaysIdle
<1>1. Init => RInv BY HandsInit, ShutInit DEF RInv
<1>2. IInv /\ IInv' /\ RInv /\ [Next]_vars
        => RInv' /\ [stopped /\ Idle => Idle']_vars
  BY StepRefines DEF Refines, Over
<1>3. QED BY <1>1, <1>2, Invariant, PTL DEF Spec, StoppedStaysIdle
=============================================================================
