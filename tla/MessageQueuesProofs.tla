------------------------- MODULE MessageQueuesProofs -------------------------
(***************************************************************************)
(* Proofs about the message queues: types, one queue for each thread, no   *)
(* lost message, for every program; and, for a program that keeps to the   *)
(* contract below, that no deleted queue is used.                          *)
(*                                                                         *)
(* The invariant says what each thread's call knows of the queue it is     *)
(* about, above all that the two mutexes, taken in either order, keep the  *)
(* table, the queue's flag and its owner in agreement.                     *)
(***************************************************************************)
EXTENDS MessageQueues, SequenceTheorems, TLAPS

Unregistering(t) == pc[t] \in {"unregister", "unregister deleted"}

\* A call that sends has a message; a call about a queue has one that exists.
CallOK(t) ==
  /\ pc[t] \in {"lookup", "add"} <=> msg[t] # None
  /\ pc[t] \in {"out", "lookup"} <=> on[t] = None
  /\ on[t] # None => owner[on[t]] # None
  /\ pc[t] = "add" => /\ owner[on[t]] = Home[msg[t]]
                      /\ registry[Home[msg[t]]] = on[t]
                      /\ tableLock = t
  /\ Unregistering(t) => /\ lock[on[t]] = t
                         /\ ~canAdd[on[t]]
                         /\ registry[owner[on[t]]] = on[t]

CallsOK == \A t \in Threads : CallOK(t)

\* The table's entries belong to their threads.
EntriesOK == \A t \in Threads : registry[t] # None => owner[registry[t]] = t

\* A queue is open only where the table has it; one that is closed and is there is
\* held by the thread that will unregister it.
QueueOK(q) ==
  /\ canAdd[q] => owner[q] # None /\ registry[owner[q]] = q
  /\ owner[q] # None /\ ~canAdd[q] /\ registry[owner[q]] = q => lock[q] # None
  /\ lock[q] # None => Unregistering(lock[q]) /\ on[lock[q]] = q

QueuesOK == \A q \in Queues : QueueOK(q)

\* A closed queue is empty; an open one's event tells whether it is; and nobody
\* sleeps on one that is not.
ItemsOK ==
  /\ \A q \in Queues :
       /\ ~canAdd[q] => items[q] = <<>>
       /\ canAdd[q] => (hasMessage[q] <=> items[q] # <<>>)
       /\ owner[q] = None => ~hasMessage[q] /\ refs[q] = {} /\ q \notin freed
  /\ \A t \in Threads : pc[t] = "blocked" => items[on[t]] = <<>>

IInv == TypeOK /\ CallsOK /\ EntriesOK /\ QueuesOK /\ ItemsOK

\* What the types say of each thread and queue.
Typed ==
  /\ \A t \in Threads : /\ registry[t] \in Queues \/ registry[t] = None
                        /\ on[t] \in Queues \/ on[t] = None
                        /\ msg[t] \in Messages \/ msg[t] = None
                        /\ t # None
  /\ \A q \in Queues : /\ owner[q] \in Threads \/ owner[q] = None
                       /\ lock[q] \in Threads \/ lock[q] = None
                       /\ q # None
  /\ \A m \in Messages : Home[m] \in Threads /\ m # None

LEMMA TypesArePointwise == TypeOK => Typed
BY MessageAssumption DEF TypeOK, Typed

LEMMA RoomIsNatural == 0 <= MaxItems
<1>1. MaxItems \in Nat BY MessageAssumption
<1>2. QED BY <1>1

LEMMA InitInv == Init => IInv
<1> SUFFICES ASSUME Init PROVE IInv OBVIOUS
<1> USE MessageAssumption DEF Init
<1>1. TypeOK BY DEF TypeOK
<1>2. CallsOK BY DEF CallsOK, CallOK, Unregistering
<1>3. EntriesOK /\ QueuesOK BY DEF EntriesOK, QueuesOK, QueueOK
<1>4. ItemsOK BY DEF ItemsOK
<1>5. QED BY <1>1, <1>2, <1>3, <1>4 DEF IInv

\* Any queue that is made is new.
LEMMA CreateInv ==
  ASSUME IInv, NEW t \in Threads, CreateMessageQueue(t)
  PROVE  IInv'
<1> USE MessageAssumption
<1>1. PICK q \in Queues :
        /\ owner[q] = None
        /\ owner' = [owner EXCEPT ![q] = t]
        /\ canAdd' = [canAdd EXCEPT ![q] = TRUE]
        /\ registry' = [registry EXCEPT ![t] = q]
        /\ refs' = [refs EXCEPT ![q] = {t}]
  BY DEF CreateMessageQueue, NewQueue
<1>2. /\ pc[t] = "out" /\ tableLock = None /\ registry[t] = None
      /\ UNCHANGED <<tableLock, lock, items, hasMessage, freed, pc, on, msg, sent,
                     handled>>
  BY DEF CreateMessageQueue, threadVars
<1>3. TypeOK /\ Typed /\ CallsOK /\ EntriesOK /\ QueuesOK /\ ItemsOK
  BY TypesArePointwise DEF IInv
<1>4. TypeOK' BY <1>1, <1>2, <1>3 DEF TypeOK
<1>5. /\ \A u \in Threads : registry'[u] = IF u = t THEN q ELSE registry[u]
      /\ \A r \in Queues : /\ owner'[r] = IF r = q THEN t ELSE owner[r]
                           /\ canAdd'[r] <=> (r = q \/ canAdd[r])
                           /\ refs'[r] = IF r = q THEN {t} ELSE refs[r]
  BY <1>1, <1>3 DEF TypeOK
<1>6. ~canAdd[q] /\ items[q] = <<>> /\ ~hasMessage[q]
  BY <1>1, <1>3 DEF QueuesOK, QueueOK, ItemsOK
<1>7. \A u \in Threads : on[u] # q /\ registry[u] # q
  BY <1>1, <1>3 DEF CallsOK, CallOK, EntriesOK
<1>8. lock[q] = None
  BY <1>3, <1>7 DEF Typed, QueuesOK, QueueOK
<1>9. CallsOK'
  <2>1. SUFFICES ASSUME NEW u \in Threads PROVE CallOK(u)'
    BY DEF CallsOK
  <2>2. on[u] # None => /\ on[u] \in Queues /\ on[u] # q
                        /\ owner'[on[u]] = owner[on[u]]
                        /\ canAdd'[on[u]] <=> canAdd[on[u]]
    BY <1>3, <1>5, <1>7 DEF Typed
  <2>3. pc[u] = "add" => u # t /\ msg[u] \in Messages
    BY <1>2, <1>3 DEF Typed, CallsOK, CallOK
  <2>4. Unregistering(u) => owner[on[u]] \in Threads /\ owner[on[u]] # t
    <3>1. CallOK(u) BY <1>3 DEF CallsOK
    <3>2. Unregistering(u) => on[u] \in Queues /\ registry[owner[on[u]]] = on[u]
      BY <2>2, <3>1 DEF CallOK, Unregistering
    <3>3. on[u] # None => owner[on[u]] \in Threads
      BY <1>3, <2>2, <3>1 DEF Typed, CallOK
    <3>4. QED BY <1>2, <1>3, <2>2, <3>2, <3>3 DEF Typed
  <2>5. CallOK(u) BY <1>3 DEF CallsOK
  <2>6. pc[u] = "add" => /\ Home[msg[u]] \in Threads /\ Home[msg[u]] # t
                         /\ on[u] # None
    BY <1>2, <1>3, <2>3, <2>5 DEF Typed, CallOK
  <2>7. QED BY <1>2, <1>5, <2>2, <2>4, <2>5, <2>6 DEF CallOK, Unregistering
<1>10. EntriesOK' BY <1>1, <1>3, <1>5, <1>7 DEF Typed, EntriesOK
<1>11. QueuesOK'
  <2>1. SUFFICES ASSUME NEW r \in Queues PROVE QueueOK(r)'
    BY DEF QueuesOK
  <2>2. CASE r = q BY <1>1, <1>2, <1>5, <1>8, <2>2 DEF QueueOK
  <2>3. CASE r # q
    <3>1. owner'[r] = owner[r] /\ (canAdd'[r] <=> canAdd[r])
      BY <1>5, <2>3
    <3>2. owner[r] # None => registry'[owner[r]] = IF owner[r] = t THEN q ELSE registry[owner[r]]
      BY <1>3, <1>5 DEF Typed
    <3>3. QueueOK(r) /\ r # None BY <1>3 DEF QueuesOK, Typed
    <3>4. QED BY <1>2, <2>3, <3>1, <3>2, <3>3 DEF QueueOK, Unregistering
  <2>4. QED BY <2>2, <2>3
<1>12. ItemsOK' BY <1>2, <1>3, <1>5, <1>6 DEF Typed, ItemsOK
<1>13. QED BY <1>4, <1>9, <1>10, <1>11, <1>12 DEF IInv

LEMMA GetInv ==
  ASSUME IInv, NEW t \in Threads, NEW o \in Threads, GetMessageQueue(t, o)
  PROVE  IInv'
<1> USE MessageAssumption DEF GetMessageQueue, tableVars, queueVars, threadVars
<1>1. TypeOK /\ Typed /\ CallsOK /\ EntriesOK /\ QueuesOK /\ ItemsOK
  BY TypesArePointwise DEF IInv
<1>2. TypeOK' BY <1>1 DEF TypeOK
<1>3. CallsOK' BY <1>1 DEF CallsOK, CallOK, Unregistering
<1>4. EntriesOK' /\ QueuesOK'
  BY <1>1 DEF EntriesOK, QueuesOK, QueueOK, Unregistering
<1>5. ItemsOK'
  <2>1. owner[registry[o]] # None /\ registry[o] \in Queues
    BY <1>1 DEF Typed, EntriesOK
  <2>2. \A q \in Queues :
          refs'[q] = IF q = registry[o] THEN refs[q] \cup {t} ELSE refs[q]
    BY <1>1, <2>1 DEF TypeOK
  <2>3. QED BY <1>1, <2>1, <2>2 DEF ItemsOK
<1>6. QED BY <1>2, <1>3, <1>4, <1>5 DEF IInv

LEMMA SendDirectlyInv ==
  ASSUME IInv, NEW t \in Threads, NEW m \in Messages, SendDirectly(t, m)
  PROVE  IInv'
<1> USE DEF SendDirectly, tableVars, queueVars, objectVars, threadVars
<1>1. TypeOK /\ CallsOK /\ EntriesOK /\ QueuesOK /\ ItemsOK BY DEF IInv
<1>2. TypeOK'
  <2>1. Append(handled[t], m) \in Seq(Messages)
    <3>1. handled[t] \in Seq(Messages) BY <1>1 DEF TypeOK
    <3>2. QED BY <3>1
  <2>2. handled' \in [Threads -> Seq(Messages)] BY <1>1, <2>1 DEF TypeOK
  <2>3. QED BY <1>1, <2>2 DEF TypeOK
<1>3. CallsOK' BY <1>1 DEF CallsOK, CallOK, Unregistering
<1>4. EntriesOK' /\ QueuesOK'
  BY <1>1 DEF EntriesOK, QueuesOK, QueueOK, Unregistering
<1>5. ItemsOK' BY <1>1 DEF ItemsOK
<1>6. QED BY <1>2, <1>3, <1>4, <1>5 DEF IInv

LEMMA QueueMessageInv ==
  ASSUME IInv, NEW t \in Threads, NEW m \in Messages, QueueMessage(t, m)
  PROVE  IInv'
<1> USE DEF QueueMessage, Goes, tableVars, queueVars, objectVars
<1>1. TypeOK /\ Typed /\ CallsOK /\ EntriesOK /\ QueuesOK /\ ItemsOK
  BY TypesArePointwise DEF IInv
<1>2. TypeOK' BY <1>1 DEF TypeOK
<1>3. \A u \in Threads : /\ pc'[u] = IF u = t THEN "lookup" ELSE pc[u]
                         /\ msg'[u] = IF u = t THEN m ELSE msg[u]
  BY <1>1 DEF TypeOK
<1>4. CallsOK'
  <2>1. SUFFICES ASSUME NEW u \in Threads PROVE CallOK(u)' BY DEF CallsOK
  <2>2. CallOK(u) /\ m # None BY <1>1 DEF CallsOK, Typed
  <2>3. CASE u = t
    <3>1. pc'[u] = "lookup" /\ msg'[u] = m /\ on'[u] = None
      BY <1>3, <2>2, <2>3 DEF CallOK
    <3>2. QED BY <2>2, <3>1 DEF CallOK, Unregistering
  <2>4. CASE u # t BY <1>3, <2>2, <2>4 DEF CallOK, Unregistering
  <2>5. QED BY <2>3, <2>4
<1>5. EntriesOK' BY <1>1 DEF EntriesOK
<1>6. QueuesOK'
  <2>1. SUFFICES ASSUME NEW q \in Queues PROVE QueueOK(q)' BY DEF QueuesOK
  <2>2. QueueOK(q) BY <1>1 DEF QueuesOK
  <2>3. lock[q] # None => lock[q] \in Threads /\ lock[q] # t
    BY <1>1, <2>2 DEF Typed, QueueOK, Unregistering
  <2>4. QED BY <1>3, <2>2, <2>3 DEF QueueOK, Unregistering
<1>7. ItemsOK' BY <1>1, <1>3 DEF ItemsOK
<1>8. QED BY <1>2, <1>4, <1>5, <1>6, <1>7 DEF IInv

LEMMA WaitInv ==
  ASSUME IInv, NEW t \in Threads, NEW q \in Queues, WaitForMessage(t, q)
  PROVE  IInv'
<1> USE DEF WaitForMessage, Owns, Goes, tableVars, queueVars, objectVars
<1>1. TypeOK /\ Typed /\ CallsOK /\ EntriesOK /\ QueuesOK /\ ItemsOK
  BY TypesArePointwise DEF IInv
<1>2. TypeOK' BY <1>1 DEF TypeOK
<1>3. \A u \in Threads : /\ pc'[u] = IF u = t THEN "blocked" ELSE pc[u]
                         /\ on'[u] = IF u = t THEN q ELSE on[u]
  BY <1>1 DEF TypeOK
<1>4. CallsOK'
  <2>1. SUFFICES ASSUME NEW u \in Threads PROVE CallOK(u)' BY DEF CallsOK
  <2>2. CallOK(u) BY <1>1 DEF CallsOK
  <2>3. CASE u = t
    <3>1. pc'[u] = "blocked" /\ msg'[u] = None /\ on'[u] = q
      BY <1>3, <2>2, <2>3 DEF CallOK
    <3>2. owner[q] # None /\ q # None BY <1>1 DEF Typed
    <3>3. QED BY <3>1, <3>2 DEF CallOK, Unregistering
  <2>4. CASE u # t BY <1>3, <2>2, <2>4 DEF CallOK, Unregistering
  <2>5. QED BY <2>3, <2>4
<1>5. EntriesOK' BY <1>1 DEF EntriesOK
<1>6. QueuesOK'
  <2>1. SUFFICES ASSUME NEW r \in Queues PROVE QueueOK(r)' BY DEF QueuesOK
  <2>2. QueueOK(r) BY <1>1 DEF QueuesOK
  <2>3. lock[r] # None => lock[r] \in Threads /\ lock[r] # t
    BY <1>1, <2>2 DEF Typed, QueueOK, Unregistering
  <2>4. QED BY <1>3, <2>2, <2>3 DEF QueueOK, Unregistering
<1>7. ItemsOK'
  <2>1. items[q] = <<>> BY <1>1 DEF ItemsOK
  <2>2. QED BY <1>1, <1>3, <2>1 DEF ItemsOK
<1>8. QED BY <1>2, <1>4, <1>5, <1>6, <1>7 DEF IInv

\* A thread whose call ends without a change to the queues: time out, no queue.
LEMMA EndOfCall ==
  ASSUME IInv, NEW t \in Threads, ~Unregistering(t), pc[t] # "add" \/ tableLock' = None,
         pc' = [u \in Threads |-> IF u \in {t} THEN "out" ELSE pc[u]],
         on' = [u \in Threads |-> IF u \in {t} THEN None ELSE on[u]],
         msg' = [msg EXCEPT ![t] = None],
         tableLock' \in {tableLock, None},
         pc[t] # "add" => UNCHANGED tableLock,
         UNCHANGED <<registry, queueVars>>
  PROVE  CallsOK' /\ EntriesOK' /\ QueuesOK'
<1> USE DEF queueVars
<1>1. TypeOK /\ Typed /\ CallsOK /\ EntriesOK /\ QueuesOK
  BY TypesArePointwise DEF IInv
<1>2. \A u \in Threads : /\ pc'[u] = IF u = t THEN "out" ELSE pc[u]
                         /\ on'[u] = IF u = t THEN None ELSE on[u]
                         /\ msg'[u] = IF u = t THEN None ELSE msg[u]
  BY <1>1 DEF TypeOK
<1>3. CallsOK'
  <2>1. SUFFICES ASSUME NEW u \in Threads PROVE CallOK(u)' BY DEF CallsOK
  <2>2. CallOK(u) /\ CallOK(t) BY <1>1 DEF CallsOK
  <2>3. CASE u = t BY <1>2, <2>2, <2>3 DEF CallOK, Unregistering
  <2>4. CASE u # t
    <3>1. pc[u] = "add" => pc[t] # "add" BY <2>2, <2>4 DEF CallOK
    <3>2. QED BY <1>2, <2>2, <2>4, <3>1 DEF CallOK, Unregistering
  <2>5. QED BY <2>3, <2>4
<1>4. EntriesOK' BY <1>1 DEF EntriesOK
<1>5. QueuesOK'
  <2>1. SUFFICES ASSUME NEW r \in Queues PROVE QueueOK(r)' BY DEF QueuesOK
  <2>2. QueueOK(r) BY <1>1 DEF QueuesOK
  <2>3. lock[r] # None => lock[r] \in Threads /\ lock[r] # t
    BY <1>1, <2>2 DEF Typed, QueueOK
  <2>4. QED BY <1>2, <2>2, <2>3 DEF QueueOK, Unregistering
<1>6. QED BY <1>3, <1>4, <1>5

LEMMA TimeOutInv ==
  ASSUME IInv, NEW t \in Threads, WaitTimesOut(t)
  PROVE  IInv'
<1> USE DEF WaitTimesOut, Return, tableVars, queueVars, objectVars
<1>1. TypeOK /\ Typed /\ CallsOK /\ ItemsOK BY TypesArePointwise DEF IInv
<1>2. TypeOK' BY <1>1 DEF TypeOK
<1>3. msg[t] = None BY <1>1 DEF CallsOK, CallOK
<1>4. msg' = [msg EXCEPT ![t] = None] BY <1>1, <1>3 DEF TypeOK
<1>5. CallsOK' /\ EntriesOK' /\ QueuesOK' BY <1>4, EndOfCall DEF Unregistering
<1>6. ItemsOK' BY <1>1 DEF ItemsOK
<1>7. QED BY <1>2, <1>5, <1>6 DEF IInv

LEMMA OutcomeType ==
  ASSUME TypeOK, NEW t \in Threads, NEW s \in {"refused", "accepted"}, Outcome(t, s)
  PROVE  /\ sent' \in [Messages -> {"new", "sending", "refused", "accepted", "direct"}]
         /\ msg' \in [Threads -> Messages \cup {None}]
BY DEF TypeOK, Outcome

LEMMA NoQueueInv ==
  ASSUME IInv, NEW t \in Threads, NoQueue(t)
  PROVE  IInv'
<1> USE DEF NoQueue, Return, tableVars, queueVars, objectVars
<1>1. TypeOK /\ ItemsOK BY DEF IInv
<1>2. TypeOK' BY <1>1, OutcomeType DEF TypeOK
<1>3. msg' = [msg EXCEPT ![t] = None] BY DEF Outcome
<1>4. CallsOK' /\ EntriesOK' /\ QueuesOK' BY <1>3, EndOfCall DEF Unregistering
<1>5. ItemsOK' BY <1>1 DEF ItemsOK
<1>6. QED BY <1>2, <1>4, <1>5 DEF IInv

LEMMA AddRefusedInv ==
  ASSUME IInv, NEW t \in Threads, AddRefused(t)
  PROVE  IInv'
<1> USE DEF AddRefused, Return, queueVars, objectVars
<1>1. TypeOK /\ ItemsOK BY DEF IInv
<1>2. TypeOK' BY <1>1, OutcomeType DEF TypeOK
<1>3. msg' = [msg EXCEPT ![t] = None] BY DEF Outcome
<1>4. CallsOK' /\ EntriesOK' /\ QueuesOK' BY <1>3, EndOfCall DEF Unregistering
<1>5. ItemsOK' BY <1>1 DEF ItemsOK
<1>6. QED BY <1>2, <1>4, <1>5 DEF IInv

LEMMA AlreadyClosedInv ==
  ASSUME IInv, NEW t \in Threads, AlreadyClosed(t)
  PROVE  IInv'
<1> USE DEF AlreadyClosed, Closed, Return, tableVars, queueVars
<1>1. TypeOK /\ Typed /\ CallsOK /\ ItemsOK BY TypesArePointwise DEF IInv
<1>2. on[t] \in Queues /\ owner[on[t]] # None /\ msg[t] = None
  BY <1>1 DEF Typed, CallsOK, CallOK
<1>3. TypeOK' BY <1>1, <1>2 DEF TypeOK
<1>4. msg' = [msg EXCEPT ![t] = None] BY <1>1, <1>2 DEF TypeOK
<1>5. CallsOK' /\ EntriesOK' /\ QueuesOK' BY <1>4, EndOfCall DEF Unregistering
<1>6. ItemsOK' BY <1>1, <1>2 DEF ItemsOK
<1>7. QED BY <1>3, <1>5, <1>6 DEF IInv

LEMMA FindQueueInv ==
  ASSUME IInv, NEW t \in Threads, FindQueue(t)
  PROVE  IInv'
<1> USE DEF FindQueue, Goes, queueVars, objectVars
<1>1. TypeOK /\ Typed /\ CallsOK /\ EntriesOK /\ QueuesOK /\ ItemsOK
  BY TypesArePointwise DEF IInv
<1> DEFINE q == registry[Home[msg[t]]]
<1>2. msg[t] \in Messages BY <1>1 DEF Typed, CallsOK, CallOK
<1>3. q \in Queues /\ owner[q] = Home[msg[t]] /\ q # None /\ owner[q] # None
  BY <1>1, <1>2 DEF Typed, EntriesOK
<1>4. TypeOK' BY <1>1, <1>3 DEF TypeOK
<1>5. \A u \in Threads : /\ pc'[u] = IF u = t THEN "add" ELSE pc[u]
                         /\ on'[u] = IF u = t THEN q ELSE on[u]
  BY <1>1 DEF TypeOK
<1>6. CallsOK'
  <2>1. SUFFICES ASSUME NEW u \in Threads PROVE CallOK(u)' BY DEF CallsOK
  <2>2. CallOK(u) /\ u # None BY <1>1 DEF CallsOK, Typed
  <2>3. CASE u = t
    <3>1. pc'[u] = "add" /\ on'[u] = q /\ tableLock' = t /\ UNCHANGED <<msg, registry, owner>>
      BY <1>5, <2>3
    <3>2. QED BY <1>2, <1>3, <2>2, <2>3, <3>1 DEF CallOK, Unregistering
  <2>4. CASE u # t BY <1>5, <2>2, <2>4 DEF CallOK, Unregistering
  <2>5. QED BY <2>3, <2>4
<1>7. EntriesOK' BY <1>1 DEF EntriesOK
<1>8. QueuesOK'
  <2>1. SUFFICES ASSUME NEW r \in Queues PROVE QueueOK(r)' BY DEF QueuesOK
  <2>2. QueueOK(r) BY <1>1 DEF QueuesOK
  <2>3. lock[r] # None => lock[r] \in Threads /\ lock[r] # t
    BY <1>1, <2>2 DEF Typed, QueueOK, Unregistering
  <2>4. QED BY <1>5, <2>2, <2>3 DEF QueueOK, Unregistering
<1>9. ItemsOK' BY <1>1, <1>5 DEF ItemsOK
<1>10. QED BY <1>4, <1>6, <1>7, <1>8, <1>9 DEF IInv

LEMMA InvalidateInv ==
  ASSUME IInv, NEW t \in Threads, NEW q \in Queues,
         \/ Invalidate(t, q)
         \/ Release(t, q) /\ refs[q] = {t}
  PROVE  IInv'
<1> USE DEF Invalidate, Release, Goes, tableVars, queueVars, objectVars
<1>1. TypeOK /\ Typed /\ CallsOK /\ EntriesOK /\ QueuesOK /\ ItemsOK
  BY TypesArePointwise DEF IInv
<1>2. PICK p \in {"close", "delete"} :
        /\ pc[t] = "out" /\ pc' = [pc EXCEPT ![t] = p] /\ on' = [on EXCEPT ![t] = q]
        /\ UNCHANGED <<tableVars, queueVars, freed, msg, sent, handled>>
        /\ refs' = refs \/ refs' = [refs EXCEPT ![q] = @ \ {t}]
        /\ t \in refs[q]
  OBVIOUS
<1>3. owner[q] # None BY <1>1, <1>2 DEF ItemsOK
<1>4. TypeOK'
  <2>1. refs' \in [Queues -> SUBSET Threads]
    <3>1. refs \in [Queues -> SUBSET Threads] BY <1>1 DEF TypeOK
    <3>2. refs[q] \ {t} \in SUBSET Threads BY <3>1
    <3>3. QED BY <1>2, <3>1, <3>2
  <2>2. pc' \in [Threads -> {"out", "lookup", "add", "blocked", "close", "delete",
                             "unregister", "unregister deleted"}]
    BY <1>1, <1>2 DEF TypeOK
  <2>3. on' \in [Threads -> Queues \cup {None}] BY <1>1, <1>2 DEF TypeOK
  <2>4. QED BY <1>1, <1>2, <2>1, <2>2, <2>3 DEF TypeOK
<1>5. \A u \in Threads : /\ pc'[u] = IF u = t THEN p ELSE pc[u]
                         /\ on'[u] = IF u = t THEN q ELSE on[u]
  BY <1>1, <1>2 DEF TypeOK
<1>6. CallsOK'
  <2>1. SUFFICES ASSUME NEW u \in Threads PROVE CallOK(u)' BY DEF CallsOK
  <2>2. CallOK(u) BY <1>1 DEF CallsOK
  <2>3. CASE u = t
    <3>1. pc'[u] \in {"close", "delete"} /\ msg'[u] = None /\ on'[u] = q
      BY <1>2, <1>5, <2>2, <2>3 DEF CallOK
    <3>2. q # None BY <1>1 DEF Typed
    <3>3. QED BY <1>2, <1>3, <3>1, <3>2 DEF CallOK, Unregistering
  <2>4. CASE u # t BY ZenonT(40), <1>2, <1>5, <2>2, <2>4 DEF CallOK, Unregistering
  <2>5. QED BY <2>3, <2>4
<1>7. EntriesOK' BY <1>1, <1>2 DEF EntriesOK
<1>8. QueuesOK'
  <2>1. SUFFICES ASSUME NEW r \in Queues PROVE QueueOK(r)' BY DEF QueuesOK
  <2>2. QueueOK(r) BY <1>1 DEF QueuesOK
  <2>3. lock[r] # None => lock[r] \in Threads /\ lock[r] # t
    BY <1>1, <1>2, <2>2 DEF Typed, QueueOK, Unregistering
  <2>4. QED BY <1>2, <1>5, <2>2, <2>3 DEF QueueOK, Unregistering
<1>9. ItemsOK'
  <2>1. \A r \in Queues : owner[r] = None => refs'[r] = refs[r]
    BY <1>1, <1>2, <1>3 DEF TypeOK
  <2>2. QED BY <1>1, <1>2, <1>5, <2>1 DEF ItemsOK
<1>10. QED BY <1>4, <1>6, <1>7, <1>8, <1>9 DEF IInv

LEMMA ReleaseInv ==
  ASSUME IInv, NEW t \in Threads, NEW q \in Queues, Release(t, q)
  PROVE  IInv'
<1>1. CASE refs[q] = {t} BY <1>1, InvalidateInv
<1>2. CASE refs[q] # {t}
  <2> USE <1>2 DEF Release, tableVars, queueVars
  <2>1. TypeOK /\ CallsOK /\ EntriesOK /\ QueuesOK /\ ItemsOK BY DEF IInv
  <2>2. TypeOK' BY <2>1 DEF TypeOK
  <2> UNCHANGED <<on, pc, msg, owner, registry, tableLock, lock, canAdd>>
    OBVIOUS
  <2>3. CallsOK'
    <3>1. SUFFICES ASSUME NEW u \in Threads PROVE CallOK(u)' BY DEF CallsOK
    <3>2. CallOK(u) BY <2>1 DEF CallsOK
    <3>3. QED BY <3>2 DEF CallOK, Unregistering
  <2>4. EntriesOK' /\ QueuesOK'
    BY ZenonT(40), <2>1 DEF EntriesOK, QueuesOK, QueueOK, Unregistering
  <2>5. owner[q] # None BY <2>1 DEF ItemsOK
  <2>6. \A r \in Queues : owner[r] = None => refs'[r] = refs[r]
    BY <2>1, <2>5 DEF TypeOK
  <2>7. ItemsOK' BY <2>1, <2>6 DEF ItemsOK
  <2>8. QED BY <2>2, <2>3, <2>4, <2>7 DEF IInv
<1>3. QED BY <1>1, <1>2

\* The signal of Add wakes all who sleep on the queue it fills.
LEMMA AddInv ==
  ASSUME IInv, NEW t \in Threads, Add(t)
  PROVE  IInv'
<1> DEFINE q == on[t]
           W == {t} \cup Waiting(q)
<1>1. /\ pc[t] = "add" /\ lock[q] = None /\ canAdd[q] /\ ~IsFull(q)
      /\ items' = [items EXCEPT ![q] = Append(@, msg[t])]
      /\ hasMessage' = [hasMessage EXCEPT ![q] = TRUE]
      /\ Outcome(t, "accepted")
      /\ pc' = [u \in Threads |-> IF u \in W THEN "out" ELSE pc[u]]
      /\ on' = [u \in Threads |-> IF u \in W THEN None ELSE on[u]]
      /\ tableLock' = None
      /\ UNCHANGED <<registry, owner, lock, canAdd, refs, freed, handled>>
  BY DEF Add, Return, objectVars
<1>2. TypeOK /\ Typed /\ CallsOK /\ EntriesOK /\ QueuesOK /\ ItemsOK
  BY TypesArePointwise DEF IInv
<1>3. q \in Queues /\ msg[t] \in Messages
  BY <1>1, <1>2 DEF Typed, CallsOK, CallOK
<1>4. items[q] \in Seq(Messages) /\ Append(items[q], msg[t]) \in Seq(Messages)
  <2>1. items[q] \in Seq(Messages) BY <1>2, <1>3 DEF TypeOK
  <2>2. QED BY <1>3, <2>1
<1>5. /\ Append(items[q], msg[t]) # <<>>
      /\ Len(Append(items[q], msg[t])) <= MaxItems
  <2>1. Len(items[q]) < MaxItems /\ MaxItems \in Nat
    BY <1>1, <1>4, MessageAssumption DEF IsFull
  <2>2. Len(Append(items[q], msg[t])) = Len(items[q]) + 1
    BY <1>3, <1>4, AppendProperties
  <2>3. Append(items[q], msg[t]) # <<>> BY <1>3, <1>4, AppendProperties
  <2> HIDE DEF q
  <2>4. QED BY <1>4, <2>1, <2>2, <2>3
<1>6. /\ \A r \in Queues :
           /\ items'[r] = IF r = q THEN Append(items[q], msg[t]) ELSE items[r]
           /\ hasMessage'[r] <=> (r = q \/ hasMessage[r])
      /\ \A u \in Threads : /\ pc'[u] = IF u \in W THEN "out" ELSE pc[u]
                            /\ on'[u] = IF u \in W THEN None ELSE on[u]
                            /\ msg'[u] = IF u = t THEN None ELSE msg[u]
  BY <1>1, <1>2, <1>3 DEF TypeOK, Outcome
<1>7. \A u \in Threads : u \in W => u = t \/ (pc[u] = "blocked" /\ on[u] = q)
  BY DEF Waiting
<1>8. \A u \in Threads : pc[u] = "blocked" /\ on[u] = q => u \in W
  BY DEF Waiting
<1>9. TypeOK'
  <2>1. items' \in [Queues -> Seq(Messages)] BY <1>1, <1>2, <1>3, <1>4 DEF TypeOK
  <2>2. \A r \in Queues : Len(items'[r]) <= MaxItems BY <1>2, <1>5, <1>6 DEF TypeOK
  <2>3. pc' \in [Threads -> {"out", "lookup", "add", "blocked", "close", "delete",
                             "unregister", "unregister deleted"}]
    BY <1>1, <1>2 DEF TypeOK
  <2>4. on' \in [Threads -> Queues \cup {None}] BY <1>1, <1>2 DEF TypeOK
  <2>5. hasMessage' \in [Queues -> BOOLEAN] BY <1>1, <1>2 DEF TypeOK
  <2>6. QED BY <1>1, <1>2, <2>1, <2>2, <2>3, <2>4, <2>5, OutcomeType DEF TypeOK
<1> HIDE DEF q, W
<1>10. CallsOK'
  <2>1. SUFFICES ASSUME NEW u \in Threads PROVE CallOK(u)' BY DEF CallsOK
  <2>2. CallOK(u) /\ CallOK(t) BY <1>2 DEF CallsOK
  <2>3. CASE u \in W
    <3>1. pc'[u] = "out" /\ on'[u] = None /\ msg'[u] = None
      BY <1>6, <1>7, <2>2, <2>3 DEF CallOK
    <3>2. QED BY <3>1 DEF CallOK, Unregistering
  <2>4. CASE u \notin W
    <3>1. t \in W BY DEF W
    <3>2. pc[u] # "add" BY <1>1, <2>2, <2>4, <3>1 DEF CallOK
    <3>3. pc'[u] = pc[u] /\ on'[u] = on[u] /\ msg'[u] = msg[u]
      BY <1>6, <2>4, <3>1
    <3>4. QED BY <1>1, <2>2, <3>2, <3>3 DEF CallOK, Unregistering
  <2>5. QED BY <2>3, <2>4
<1>11. EntriesOK' BY <1>1, <1>2 DEF EntriesOK
<1>12. QueuesOK'
  <2>1. SUFFICES ASSUME NEW r \in Queues PROVE QueueOK(r)' BY DEF QueuesOK
  <2>2. QueueOK(r) BY <1>2 DEF QueuesOK
  <2>3. lock[r] # None => lock[r] \in Threads /\ lock[r] \notin W
    BY <1>1, <1>2, <1>7, <2>2 DEF Typed, QueueOK, Unregistering
  <2>4. QED BY <1>1, <1>6, <2>2, <2>3 DEF QueueOK, Unregistering
<1>13. ItemsOK'
  <2>1. \A u \in Threads : pc'[u] = "blocked" =>
           pc[u] = "blocked" /\ on'[u] = on[u] /\ on[u] # q
    BY <1>6, <1>8
  <2>2. \A u \in Threads : pc[u] = "blocked" => on[u] \in Queues
    BY <1>2 DEF Typed, CallsOK, CallOK
  <2>3. \A u \in Threads : pc'[u] = "blocked" => items'[on'[u]] = <<>>
    BY <1>2, <1>6, <2>1, <2>2 DEF ItemsOK
  <2>4. owner[q] # None BY <1>1, <1>2, <1>3 DEF QueuesOK, QueueOK
  <2>5. ASSUME NEW r \in Queues
        PROVE  /\ ~canAdd'[r] => items'[r] = <<>>
               /\ canAdd'[r] => (hasMessage'[r] <=> items'[r] # <<>>)
               /\ owner'[r] = None => ~hasMessage'[r] /\ refs'[r] = {} /\ r \notin freed'
    <3>1. CASE r = q
      <4>1. items'[r] # <<>> /\ hasMessage'[r] BY <1>5, <1>6, <3>1
      <4>2. QED BY <1>1, <2>4, <3>1, <4>1
    <3>2. CASE r # q
      <4>1. items'[r] = items[r] /\ (hasMessage'[r] <=> hasMessage[r])
        BY <1>6, <3>2
      <4>2. QED BY <1>1, <1>2, <4>1 DEF ItemsOK
    <3>3. QED BY <3>1, <3>2
  <2>6. QED BY <2>3, <2>5 DEF ItemsOK
<1>14. QED BY <1>9, <1>10, <1>11, <1>12, <1>13 DEF IInv

LEMMA PollInv ==
  ASSUME IInv, NEW t \in Threads, NEW q \in Queues, PollAndDispatch(t, q)
  PROVE  IInv'
<1> USE DEF PollAndDispatch, tableVars, objectVars, threadVars
<1>1. TypeOK /\ Typed /\ CallsOK /\ EntriesOK /\ QueuesOK /\ ItemsOK
  BY TypesArePointwise DEF IInv
<1>2. items[q] \in Seq(Messages) /\ handled[t] \in Seq(Messages)
      /\ Len(items[q]) <= MaxItems
  BY <1>1 DEF TypeOK
<1>3. /\ Tail(items[q]) \in Seq(Messages) /\ Len(Tail(items[q])) <= MaxItems
      /\ Append(handled[t], Head(items[q])) \in Seq(Messages)
  BY <1>2, MessageAssumption
<1>4. \A r \in Queues :
        /\ items'[r] = IF r = q THEN Tail(items[q]) ELSE items[r]
        /\ hasMessage'[r] <=> IF r = q THEN hasMessage[q] /\ Tail(items[q]) # <<>>
                              ELSE hasMessage[r]
  BY <1>1 DEF TypeOK
<1>5. TypeOK'
  <2>1. items' \in [Queues -> Seq(Messages)] BY <1>1, <1>3 DEF TypeOK
  <2>2. \A r \in Queues : Len(items'[r]) <= MaxItems BY <1>1, <1>3, <1>4 DEF TypeOK
  <2>3. handled' \in [Threads -> Seq(Messages)] BY <1>1, <1>3 DEF TypeOK
  <2>4. hasMessage' \in [Queues -> BOOLEAN] BY <1>1 DEF TypeOK
  <2>5. QED BY <1>1, <2>1, <2>2, <2>3, <2>4 DEF TypeOK
<1>6. CallsOK' BY <1>1 DEF CallsOK, CallOK, Unregistering
<1>7. EntriesOK' /\ QueuesOK'
  BY <1>1 DEF EntriesOK, QueuesOK, QueueOK, Unregistering
<1>8. canAdd[q] /\ hasMessage[q] /\ \A u \in Threads : pc[u] = "blocked" => on[u] # q
  BY <1>1 DEF ItemsOK
<1>9. ItemsOK'
  <2>1. owner[q] # None BY <1>1, <1>8 DEF QueuesOK, QueueOK
  <2>2. \A u \in Threads : pc[u] = "blocked" => on[u] \in Queues
    BY <1>1 DEF Typed, CallsOK, CallOK
  <2>3. \A u \in Threads : pc'[u] = "blocked" => items'[on'[u]] = <<>>
    BY <1>1, <1>4, <1>8, <2>2 DEF ItemsOK
  <2>4. ASSUME NEW r \in Queues
        PROVE  /\ ~canAdd'[r] => items'[r] = <<>>
               /\ canAdd'[r] => (hasMessage'[r] <=> items'[r] # <<>>)
               /\ owner'[r] = None => ~hasMessage'[r] /\ refs'[r] = {} /\ r \notin freed'
    <3>1. CASE r = q
      <4>1. hasMessage'[r] <=> items'[r] # <<>> BY <1>4, <1>8, <3>1
      <4>2. QED BY <1>8, <2>1, <3>1, <4>1
    <3>2. CASE r # q
      <4>1. items'[r] = items[r] /\ (hasMessage'[r] <=> hasMessage[r])
        BY <1>4, <3>2
      <4>2. QED BY <1>1, <4>1 DEF ItemsOK
    <3>3. QED BY <3>1, <3>2
  <2>5. QED BY <2>3, <2>4 DEF ItemsOK
<1>10. QED BY <1>5, <1>6, <1>7, <1>9 DEF IInv

\* The flag goes first; the queue's mutex is kept for the table.
LEMMA CloseInv ==
  ASSUME IInv, NEW t \in Threads, Close(t)
  PROVE  IInv'
<1> DEFINE q == on[t]
<1>1. PICK p \in {"unregister", "unregister deleted"} :
        /\ pc[t] \in {"close", "delete"} /\ lock[q] = None /\ canAdd[q]
        /\ lock' = [lock EXCEPT ![q] = t]
        /\ canAdd' = [canAdd EXCEPT ![q] = FALSE]
        /\ items' = [items EXCEPT ![q] = <<>>]
        /\ pc' = [pc EXCEPT ![t] = p]
        /\ UNCHANGED <<registry, tableLock, owner, hasMessage, refs, freed, on, msg,
                       sent, handled>>
  BY DEF Close, Goes, tableVars, objectVars
<1>2. TypeOK /\ Typed /\ CallsOK /\ EntriesOK /\ QueuesOK /\ ItemsOK
  BY TypesArePointwise DEF IInv
<1>3. q \in Queues /\ msg[t] = None /\ on[t] # None
  BY <1>1, <1>2 DEF Typed, CallsOK, CallOK
<1>4. /\ \A r \in Queues :
           /\ lock'[r] = IF r = q THEN t ELSE lock[r]
           /\ canAdd'[r] <=> (r # q /\ canAdd[r])
           /\ items'[r] = IF r = q THEN <<>> ELSE items[r]
      /\ \A u \in Threads : pc'[u] = IF u = t THEN p ELSE pc[u]
  BY <1>1, <1>2, <1>3 DEF TypeOK
<1>5. TypeOK'
  <2>1. <<>> \in Seq(Messages) BY EmptySeq
  <2>2. items' \in [Queues -> Seq(Messages)] BY <1>1, <1>2, <2>1 DEF TypeOK
  <2>3. \A r \in Queues : Len(items'[r]) <= MaxItems
    <3>1. SUFFICES ASSUME NEW r \in Queues PROVE Len(items'[r]) <= MaxItems
      OBVIOUS
    <3>2. CASE r = q
      <4>1. Len(items'[r]) = 0 BY <1>4, <3>2, EmptySeq
      <4>2. QED BY <4>1, RoomIsNatural, Zenon
    <3>3. CASE r # q BY <1>2, <1>4, <3>3 DEF TypeOK
    <3>4. QED BY <3>2, <3>3
  <2>4. pc' \in [Threads -> {"out", "lookup", "add", "blocked", "close", "delete",
                             "unregister", "unregister deleted"}]
    BY <1>1, <1>2 DEF TypeOK
  <2>5. QED BY <1>1, <1>2, <2>2, <2>3, <2>4 DEF TypeOK
<1>6. owner[q] # None /\ registry[owner[q]] = q
  BY <1>1, <1>2, <1>3 DEF QueuesOK, QueueOK
<1>7. CallsOK'
  <2>1. SUFFICES ASSUME NEW u \in Threads PROVE CallOK(u)' BY DEF CallsOK
  <2>2. CallOK(u) BY <1>2 DEF CallsOK
  <2>3. CASE u = t
    <3>1. Unregistering(u)' /\ on'[u] = q /\ msg'[u] = None
      BY <1>1, <1>3, <1>4, <2>3 DEF Unregistering
    <3>2. lock'[q] = t /\ ~canAdd'[q] BY <1>3, <1>4
    <3>3. q # None BY <1>3
    <3> HIDE DEF q
    <3>4. QED BY <1>1, <1>6, <2>3, <3>1, <3>2, <3>3 DEF CallOK, Unregistering
  <2>4. CASE u # t
    <3>1. Unregistering(u) => on[u] \in Queues /\ on[u] # q
      BY <1>1, <1>2, <2>2 DEF Typed, CallOK, Unregistering
    <3>2. QED BY ZenonT(40), <1>1, <1>4, <2>2, <2>4, <3>1 DEF CallOK, Unregistering
  <2>5. QED BY <2>3, <2>4
<1>8. EntriesOK' BY <1>1, <1>2 DEF EntriesOK
<1>9. QueuesOK'
  <2>1. SUFFICES ASSUME NEW r \in Queues PROVE QueueOK(r)' BY DEF QueuesOK
  <2>2. QueueOK(r) BY <1>2 DEF QueuesOK
  <2>3. CASE r = q
    <3>1. lock'[r] = t /\ ~canAdd'[r] /\ t # None BY <1>2, <1>4, <2>3 DEF Typed
    <3>2. Unregistering(t)' /\ on'[t] = r BY <1>1, <1>4, <2>3 DEF Unregistering
    <3>3. QED BY <3>1, <3>2 DEF QueueOK, Unregistering
  <2>4. CASE r # q
    <3>1. lock[r] # None => lock[r] \in Threads /\ lock[r] # t
      BY <1>1, <1>2, <2>2 DEF Typed, QueueOK, Unregistering
    <3>2. lock[r] # None => Unregistering(lock[r])' /\ on'[lock[r]] = r
      <4>1. SUFFICES ASSUME lock[r] # None
            PROVE  Unregistering(lock[r])' /\ on'[lock[r]] = r
        OBVIOUS
      <4>2. Unregistering(lock[r]) /\ on[lock[r]] = r BY <2>2, <4>1 DEF QueueOK
      <4>3. pc'[lock[r]] = pc[lock[r]] BY <1>4, <3>1, <4>1
      <4>4. lock'[r] = lock[r] BY <1>4, <2>4
      <4>5. QED BY <1>1, <4>2, <4>3, <4>4 DEF Unregistering
    <3>3. lock'[r] = lock[r] /\ (canAdd'[r] <=> canAdd[r]) BY <1>4, <2>4
    <3> HIDE DEF q
    <3>4. QED BY <1>1, <2>2, <3>2, <3>3 DEF QueueOK, Unregistering
  <2>5. QED BY <2>3, <2>4
<1>10. ItemsOK'
  <2>1. \A u \in Threads : pc'[u] = "blocked" =>
          pc[u] = "blocked" /\ on'[u] = on[u] /\ on[u] \in Queues
    <3>1. SUFFICES ASSUME NEW u \in Threads, pc'[u] = "blocked"
          PROVE  pc[u] = "blocked" /\ on'[u] = on[u] /\ on[u] \in Queues
      OBVIOUS
    <3>2. pc[u] = "blocked" BY <1>4, <3>1
    <3>3. on[u] # None BY <1>2, <3>2 DEF CallsOK, CallOK
    <3>4. QED BY <1>1, <1>2, <3>2, <3>3 DEF Typed
  <2>2. \A u \in Threads : pc'[u] = "blocked" => items'[on'[u]] = <<>>
    BY ZenonT(40), <1>2, <1>4, <2>1 DEF ItemsOK
  <2>3. ASSUME NEW r \in Queues
        PROVE  /\ ~canAdd'[r] => items'[r] = <<>>
               /\ canAdd'[r] => (hasMessage'[r] <=> items'[r] # <<>>)
               /\ owner'[r] = None => ~hasMessage'[r] /\ refs'[r] = {} /\ r \notin freed'
    <3>1. CASE r = q BY <1>1, <1>2, <1>4, <3>1 DEF ItemsOK
    <3>2. CASE r # q
      <4>1. items'[r] = items[r] /\ (canAdd'[r] <=> canAdd[r]) BY <1>4, <3>2
      <4>2. QED BY <1>1, <1>2, <4>1 DEF ItemsOK
    <3>3. QED BY <3>1, <3>2
  <2>4. QED BY <2>2, <2>3 DEF ItemsOK
<1>11. QED BY <1>5, <1>7, <1>8, <1>9, <1>10 DEF IInv

\* The table's entry of the owner is this queue, nothing newer.
LEMMA UnregisterInv ==
  ASSUME IInv, NEW t \in Threads, Unregister(t)
  PROVE  IInv'
<1> DEFINE q == on[t]
           o == owner[q]
<1>1. /\ Unregistering(t) /\ tableLock = None
      /\ registry' = [registry EXCEPT ![o] = None]
      /\ lock' = [lock EXCEPT ![q] = None]
      /\ freed' = freed \/ freed' = freed \cup {q}
      /\ pc' = [u \in Threads |-> IF u \in {t} THEN "out" ELSE pc[u]]
      /\ on' = [u \in Threads |-> IF u \in {t} THEN None ELSE on[u]]
      /\ UNCHANGED <<tableLock, owner, canAdd, items, hasMessage, refs, msg, sent,
                     handled>>
  BY DEF Unregister, Unregistering, Closed, Return
<1>2. TypeOK /\ Typed /\ CallsOK /\ EntriesOK /\ QueuesOK /\ ItemsOK
  BY TypesArePointwise DEF IInv
<1>3. /\ q \in Queues /\ msg[t] = None /\ o \in Threads /\ o # None
      /\ registry[o] = q /\ lock[q] = t /\ ~canAdd[q]
  BY ZenonT(40), <1>1, <1>2 DEF Typed, CallsOK, CallOK, Unregistering
<1>4. /\ \A r \in Queues : lock'[r] = IF r = q THEN None ELSE lock[r]
      /\ \A u \in Threads : /\ registry'[u] = IF u = o THEN None ELSE registry[u]
                            /\ pc'[u] = IF u = t THEN "out" ELSE pc[u]
                            /\ on'[u] = IF u = t THEN None ELSE on[u]
  BY <1>1, <1>2, <1>3 DEF TypeOK
<1>5. TypeOK'
  <2>1. freed' \subseteq Queues BY <1>1, <1>2, <1>3 DEF TypeOK
  <2>2. QED BY <1>1, <1>2, <1>3, <2>1 DEF TypeOK
<1>6. CallsOK'
  <2>1. SUFFICES ASSUME NEW u \in Threads PROVE CallOK(u)' BY DEF CallsOK
  <2>2. CallOK(u) /\ u # None BY <1>2 DEF CallsOK, Typed
  <2>3. CASE u = t
    <3>1. pc'[u] = "out" /\ on'[u] = None /\ msg'[u] = None BY <1>1, <1>3, <1>4, <2>3
    <3>2. QED BY <3>1 DEF CallOK, Unregistering
  <2>4. CASE u # t
    <3>1. pc[u] # "add" BY <1>1, <2>2 DEF CallOK
    <3>2. Unregistering(u) => /\ on[u] \in Queues /\ on[u] # q
                              /\ owner[on[u]] \in Threads /\ owner[on[u]] # o
      <4>1. SUFFICES ASSUME Unregistering(u)
            PROVE  /\ on[u] \in Queues /\ on[u] # q
                   /\ owner[on[u]] \in Threads /\ owner[on[u]] # o
        OBVIOUS
      <4>2. on[u] # None /\ owner[on[u]] # None /\ lock[on[u]] = u
            /\ registry[owner[on[u]]] = on[u]
        BY <2>2, <4>1 DEF CallOK, Unregistering
      <4>3. on[u] \in Queues BY <1>2, <4>2 DEF Typed
      <4>4. owner[on[u]] \in Threads BY <1>2, <4>2, <4>3 DEF Typed
      <4>5. on[u] # q BY <1>3, <2>4, <4>2
      <4>6. QED BY <1>3, <4>2, <4>3, <4>4, <4>5
    <3>3. QED BY <1>1, <1>4, <2>2, <2>4, <3>1, <3>2 DEF CallOK, Unregistering
  <2>5. QED BY <2>3, <2>4
<1>7. EntriesOK' BY <1>1, <1>2, <1>4 DEF EntriesOK
<1>8. QueuesOK'
  <2>1. SUFFICES ASSUME NEW r \in Queues PROVE QueueOK(r)' BY DEF QueuesOK
  <2>2. QueueOK(r) /\ r # None BY <1>2 DEF QueuesOK, Typed
  <2>3. owner[r] # None => owner[r] \in Threads BY <1>2 DEF Typed
  <2>4. CASE r = q
    <3>1. lock'[r] = None /\ registry'[owner[r]] = None /\ ~canAdd[r]
      BY <1>3, <1>4, <2>4
    <3>2. QED BY <1>1, <2>2, <3>1 DEF QueueOK
  <2>5. CASE r # q
    <3>1. lock[r] # None => lock[r] \in Threads /\ lock[r] # t
      BY <1>2, <2>2, <2>5 DEF Typed, QueueOK
    <3>2. owner[r] = o => ~canAdd[r] BY <1>3, <2>2, <2>5 DEF QueueOK
    <3>3. QED BY <1>1, <1>4, <2>2, <2>3, <2>5, <3>1, <3>2 DEF QueueOK, Unregistering
  <2>6. QED BY <2>4, <2>5
<1>9. ItemsOK' BY <1>1, <1>2, <1>3, <1>4 DEF ItemsOK
<1>10. QED BY <1>5, <1>6, <1>7, <1>8, <1>9 DEF IInv

LEMMA NextInv == IInv /\ [Next]_vars => IInv'
<1> SUFFICES ASSUME IInv, [Next]_vars PROVE IInv' OBVIOUS
<1>1. CASE UNCHANGED vars
  BY <1>1 DEF vars, tableVars, queueVars, objectVars, threadVars, IInv, TypeOK,
              CallsOK, CallOK, EntriesOK, QueuesOK, QueueOK, ItemsOK, Unregistering
<1>2. CASE Next
  <2>1. PICK t \in Threads : InCall(t) \/ Calls(t) \/ WaitTimesOut(t)
    BY <1>2 DEF Next
  <2>2. CASE InCall(t)
    BY <2>2, NoQueueInv, FindQueueInv, AddRefusedInv, AddInv, AlreadyClosedInv,
       CloseInv, UnregisterInv DEF InCall
  <2>3. CASE Calls(t)
    BY <2>3, CreateInv, GetInv, SendDirectlyInv, QueueMessageInv, WaitInv, PollInv,
       InvalidateInv, ReleaseInv DEF Calls
  <2>4. CASE WaitTimesOut(t) BY <2>4, TimeOutInv
  <2>5. QED BY <2>1, <2>2, <2>3, <2>4
<1>3. QED BY <1>1, <1>2

\* Types, for any number of threads, queues and messages (Concurrent.cpp,
\* MessageQueue and the table of sConcurrent).
THEOREM TypeCorrect == Spec => []TypeOK
<1>1. Init => IInv BY InitInv
<1>2. IInv /\ [Next]_vars => IInv' BY NextInv
<1>3. IInv => TypeOK BY DEF IInv
<1>4. QED BY <1>1, <1>2, <1>3, PTL DEF Spec

\* A thread has one open queue at most, the one the table has for it, although
\* Invalidate closes a queue before it takes it out of the table.
THEOREM OneQueue == Spec => []OneQueueEach
<1>1. Init => IInv BY InitInv
<1>2. IInv /\ [Next]_vars => IInv' BY NextInv
<1>3. IInv => OneQueueEach
  <2>1. SUFFICES ASSUME IInv, NEW q \in Queues
        PROVE  /\ canAdd[q] => registry[owner[q]] = q
               /\ owner[q] # None /\ ~canAdd[q] /\ registry[owner[q]] = q =>
                    \E t \in Threads : lock[q] = t /\ on[t] = q
    BY DEF OneQueueEach
  <2>2. Typed /\ QueueOK(q) BY <2>1, TypesArePointwise DEF IInv, QueuesOK
  <2>3. QED BY <2>2 DEF Typed, QueueOK
<1>4. QED BY <1>1, <1>2, <1>3, PTL DEF Spec

\* No thread sleeps on a queue that holds a message, and the event of an open queue
\* is set exactly while it does: the flag that _Add sets and Poll resets never
\* disagrees with the queue, whoever adds, polls and times out.
THEOREM NoMessageIsLost == Spec => []NoLostMessage
<1>1. Init => IInv BY InitInv
<1>2. IInv /\ [Next]_vars => IInv' BY NextInv
<1>3. IInv => NoLostMessage
  <2>1. SUFFICES ASSUME IInv PROVE NoLostMessage OBVIOUS
  <2>2. ItemsOK BY <2>1 DEF IInv
  <2>3. \A q \in Queues : items[q] # <<>> => Waiting(q) = {}
    BY <2>2 DEF ItemsOK, Waiting
  <2>4. QED BY <2>2, <2>3 DEF ItemsOK, NoLostMessage
<1>4. QED BY <1>1, <1>2, <1>3, PTL DEF Spec

(***************************************************************************)
(* Deleted queues.                                                         *)
(***************************************************************************)

\* What the program has to keep to: no thread gets the queue of another thread that
\* may give its own up.
Contract == \A t, o \in Threads : <<t, o>> \in Gets /\ o \in Closers => t = o

\* A thread that never gives up its queue holds it; nobody else holds the queue of
\* one that may.
RefsOK ==
  \A q \in Queues : owner[q] # None =>
    IF owner[q] \in Closers THEN refs[q] \subseteq {owner[q]} ELSE owner[q] \in refs[q]

Deleting(t) == pc[t] \in {"delete", "unregister deleted"}

\* A queue is deleted by its thread, the last to hold it; the other calls of a
\* queue's methods hold it.
UseOK(t) ==
  /\ Deleting(t) => refs[on[t]] = {} /\ owner[on[t]] = t /\ t \in Closers
  /\ pc[t] \in {"blocked", "close", "unregister"} => t \in refs[on[t]]

UsesOK == \A t \in Threads : UseOK(t)

FreedOK ==
  \A q \in freed : /\ owner[q] # None /\ refs[q] = {} /\ registry[owner[q]] # q
                   /\ \A t \in Threads : on[t] # q

HeldInv == RefsOK /\ UsesOK /\ FreedOK

\* A thread that sends holds the table, which has no deleted queue.
LEMMA AddersAreSafe ==
  ASSUME IInv, NEW t \in Threads, pc[t] = "add"
  PROVE  registry[owner[on[t]]] = on[t]
BY DEF IInv, CallsOK, CallOK

\* The steps that neither take nor drop a reference nor change the table.
LEMMA QuietSteps ==
  ASSUME IInv, IInv', HeldInv, UNCHANGED <<owner, refs, freed, registry>>,
         \A t \in Threads :
           \/ pc'[t] = pc[t] /\ on'[t] = on[t]
           \/ pc'[t] \in {"out", "lookup"}
           \/ pc'[t] = "add"
           \/ pc'[t] \in {"blocked", "close"} /\ t \in refs[on'[t]]
           \/ pc[t] = "close" /\ pc'[t] = "unregister" /\ on'[t] = on[t]
           \/ pc[t] = "delete" /\ pc'[t] = "unregister deleted" /\ on'[t] = on[t]
  PROVE  HeldInv'
<1>1. RefsOK' BY DEF HeldInv, RefsOK
<1>2. UsesOK'
  <2>1. SUFFICES ASSUME NEW t \in Threads PROVE UseOK(t)' BY DEF UsesOK
  <2>2. UseOK(t) BY DEF HeldInv, UsesOK
  <2>3. QED BY <2>2 DEF UseOK, Deleting
<1>3. FreedOK'
  <2>1. SUFFICES ASSUME NEW q \in freed, NEW t \in Threads PROVE on'[t] # q
    BY DEF HeldInv, FreedOK
  <2>2. /\ owner[q] # None /\ refs[q] = {} /\ registry[owner[q]] # q /\ on[t] # q
    BY DEF HeldInv, FreedOK
  <2> q \in Queues /\ q # None
    <3>1. q \in Queues BY DEF IInv, TypeOK
    <3>2. QED BY <3>1, MessageAssumption
  <2>3. CASE pc'[t] \in {"out", "lookup"}
    <3>1. CallOK(t)' BY DEF IInv, CallsOK
    <3>2. on'[t] = None BY <2>3, <3>1 DEF CallOK
    <3>3. QED BY <2>2, <3>2
  <2>4. CASE pc'[t] = "add"
    <3>1. CallOK(t)' BY DEF IInv, CallsOK
    <3>2. registry'[owner'[on'[t]]] = on'[t] BY <2>4, <3>1 DEF CallOK
    <3>3. QED BY <2>2, <3>2
  <2>5. QED BY <2>2, <2>3, <2>4
<1>4. QED BY <1>1, <1>2, <1>3 DEF HeldInv

LEMMA CallersHeld ==
  ASSUME IInv, IInv', HeldInv, NEW t \in Threads,
         \/ NoQueue(t) \/ FindQueue(t) \/ AddRefused(t) \/ Add(t) \/ Close(t)
         \/ WaitTimesOut(t)
         \/ \E m \in Messages : SendDirectly(t, m) \/ QueueMessage(t, m)
         \/ \E q \in Queues : \/ WaitForMessage(t, q) \/ PollAndDispatch(t, q)
                              \/ Invalidate(t, q)
  PROVE  HeldInv'
<1>1. TypeOK BY DEF IInv
<1>2. CASE \/ NoQueue(t) \/ AddRefused(t) \/ Add(t) \/ WaitTimesOut(t)
  <2>1. \A u \in Threads : (pc'[u] = pc[u] /\ on'[u] = on[u]) \/ pc'[u] = "out"
    BY ZenonT(40), <1>1, <1>2 DEF TypeOK, NoQueue, AddRefused, Add, WaitTimesOut, Return
  <2>2. UNCHANGED <<owner, refs, freed, registry>>
    BY <1>2 DEF NoQueue, AddRefused, Add, WaitTimesOut, tableVars, queueVars,
                objectVars
  <2>3. QED BY <2>1, <2>2, QuietSteps
<1>3. CASE FindQueue(t)
  <2>1. \A u \in Threads : (pc'[u] = pc[u] /\ on'[u] = on[u]) \/ pc'[u] = "add"
    BY <1>1, <1>3 DEF TypeOK, FindQueue, Goes
  <2>2. UNCHANGED <<owner, refs, freed, registry>>
    BY <1>3 DEF FindQueue, queueVars, objectVars
  <2>3. QED BY <2>1, <2>2, QuietSteps
<1>4. CASE Close(t)
  <2>1. \A u \in Threads :
          /\ on'[u] = on[u]
          /\ \/ pc'[u] = pc[u]
             \/ pc[u] = "close" /\ pc'[u] = "unregister"
             \/ pc[u] = "delete" /\ pc'[u] = "unregister deleted"
    BY <1>1, <1>4 DEF TypeOK, Close, Goes
  <2>2. UNCHANGED <<owner, refs, freed, registry>>
    BY <1>4 DEF Close, tableVars, objectVars
  <2>3. QED BY <2>1, <2>2, QuietSteps
<1>5. CASE \E m \in Messages : SendDirectly(t, m) \/ QueueMessage(t, m)
  <2>1. \A u \in Threads : (pc'[u] = pc[u] /\ on'[u] = on[u]) \/ pc'[u] = "lookup"
    BY <1>1, <1>5 DEF TypeOK, SendDirectly, QueueMessage, Goes, threadVars
  <2>2. UNCHANGED <<owner, refs, freed, registry>>
    BY <1>5 DEF SendDirectly, QueueMessage, tableVars, queueVars, objectVars
  <2>3. QED BY <2>1, <2>2, QuietSteps
<1>6. CASE \E q \in Queues : \/ WaitForMessage(t, q) \/ PollAndDispatch(t, q)
                             \/ Invalidate(t, q)
  <2>1. \A u \in Threads : \/ pc'[u] = pc[u] /\ on'[u] = on[u]
                           \/ pc'[u] \in {"blocked", "close"} /\ u \in refs[on'[u]]
    BY ZenonT(40), <1>1, <1>6 DEF TypeOK, WaitForMessage, PollAndDispatch, Invalidate, Owns, Goes,
                      threadVars
  <2>2. UNCHANGED <<owner, refs, freed, registry>>
    BY <1>6 DEF WaitForMessage, PollAndDispatch, Invalidate, tableVars, queueVars,
                objectVars
  <2>3. QED BY <2>1, <2>2, QuietSteps
<1>7. QED BY <1>2, <1>3, <1>4, <1>5, <1>6

LEMMA CreateHeld ==
  ASSUME IInv, HeldInv, NEW t \in Threads, CreateMessageQueue(t)
  PROVE  HeldInv'
<1>1. PICK q \in Queues :
        /\ owner[q] = None
        /\ owner' = [owner EXCEPT ![q] = t]
        /\ registry' = [registry EXCEPT ![t] = q]
        /\ refs' = [refs EXCEPT ![q] = {t}]
        /\ UNCHANGED <<freed, pc, on>>
  BY DEF CreateMessageQueue, NewQueue, threadVars
<1>2. TypeOK /\ Typed /\ CallsOK BY TypesArePointwise DEF IInv
<1>3. /\ \A u \in Threads : registry'[u] = IF u = t THEN q ELSE registry[u]
      /\ \A r \in Queues : /\ owner'[r] = IF r = q THEN t ELSE owner[r]
                           /\ refs'[r] = IF r = q THEN {t} ELSE refs[r]
  BY <1>1, <1>2 DEF TypeOK
<1>4. RefsOK' BY <1>3 DEF HeldInv, RefsOK
<1>5. UsesOK'
  <2>1. SUFFICES ASSUME NEW u \in Threads PROVE UseOK(u)' BY DEF UsesOK
  <2>2. UseOK(u) BY DEF HeldInv, UsesOK
  <2>3. CASE on[u] = None
    <3>1. pc[u] \in {"out", "lookup"} BY <1>2, <2>3 DEF CallsOK, CallOK
    <3>2. QED BY <1>1, <3>1 DEF UseOK, Deleting
  <2>4. CASE on[u] # None
    <3>1. on[u] \in Queues /\ on[u] # q
      BY <1>1, <1>2, <2>4 DEF Typed, CallsOK, CallOK
    <3>2. QED BY <1>1, <1>3, <2>2, <3>1 DEF UseOK, Deleting
  <2>5. QED BY <2>3, <2>4
<1>6. FreedOK'
  <2>1. SUFFICES ASSUME NEW r \in freed
        PROVE  /\ owner'[r] # None /\ refs'[r] = {} /\ registry'[owner'[r]] # r
               /\ \A u \in Threads : on'[u] # r
    BY <1>1 DEF FreedOK
  <2>2. /\ owner[r] # None /\ refs[r] = {} /\ registry[owner[r]] # r
        /\ \A u \in Threads : on[u] # r
        /\ r \in Queues
    BY <1>2 DEF HeldInv, FreedOK, TypeOK
  <2>3. owner[r] \in Threads BY <1>2, <2>2 DEF Typed
  <2>4. r # q BY <1>1, <2>2
  <2>5. QED BY <1>1, <1>3, <2>2, <2>3, <2>4
<1>7. QED BY <1>4, <1>5, <1>6 DEF HeldInv

LEMMA GetHeld ==
  ASSUME Contract, IInv, HeldInv, NEW t \in Threads, NEW o \in Threads,
         GetMessageQueue(t, o)
  PROVE  HeldInv'
<1> DEFINE q == registry[o]
<1>1. /\ <<t, o>> \in Gets /\ pc[t] = "out" /\ q # None
      /\ refs' = [refs EXCEPT ![q] = @ \cup {t}]
      /\ UNCHANGED <<owner, registry, freed, pc, on>>
  BY DEF GetMessageQueue, tableVars, queueVars, threadVars
<1>2. TypeOK /\ Typed /\ CallsOK /\ EntriesOK BY TypesArePointwise DEF IInv
<1>3. q \in Queues /\ owner[q] = o BY <1>1, <1>2 DEF Typed, EntriesOK
<1>4. \A r \in Queues : refs'[r] = IF r = q THEN refs[r] \cup {t} ELSE refs[r]
  BY <1>1, <1>2, <1>3 DEF TypeOK
<1>5. o \in Closers => t = o BY <1>1 DEF Contract
<1> HIDE DEF q
<1>6. RefsOK' BY <1>1, <1>3, <1>4, <1>5 DEF HeldInv, RefsOK
<1>7. UsesOK'
  <2>1. SUFFICES ASSUME NEW u \in Threads PROVE UseOK(u)' BY DEF UsesOK
  <2>2. UseOK(u) BY DEF HeldInv, UsesOK
  <2>3. CASE on[u] = None
    <3>1. pc[u] \in {"out", "lookup"} BY <1>2, <2>3 DEF CallsOK, CallOK
    <3>2. QED BY <1>1, <3>1 DEF UseOK, Deleting
  <2>4. CASE on[u] # None
    <3>1. on[u] \in Queues BY <1>2, <2>4 DEF Typed
    <3>2. Deleting(u) => on[u] # q
      BY <1>1, <1>3, <1>5, <2>2 DEF UseOK, Deleting
    <3>3. /\ pc'[u] = pc[u] /\ on'[u] = on[u] /\ owner' = owner
          /\ refs[on[u]] \subseteq refs'[on[u]]
          /\ Deleting(u) => refs'[on[u]] = refs[on[u]]
      BY <1>1, <1>4, <3>1, <3>2
    <3>4. QED BY <2>2, <3>3 DEF UseOK, Deleting
  <2>5. QED BY <2>3, <2>4
<1>8. FreedOK'
  <2>1. freed \subseteq Queues /\ q \notin freed
    BY <1>2, <1>3 DEF HeldInv, FreedOK, TypeOK, q
  <2>2. QED BY <1>1, <1>4, <2>1 DEF HeldInv, FreedOK
<1>9. QED BY <1>6, <1>7, <1>8 DEF HeldInv

LEMMA ReleaseHeld ==
  ASSUME IInv, HeldInv, NEW t \in Threads, NEW q \in Queues, Release(t, q)
  PROVE  HeldInv'
<1>1. /\ t \in Closers /\ pc[t] = "out" /\ t \in refs[q]
      /\ refs' = [refs EXCEPT ![q] = @ \ {t}]
      /\ \/ /\ refs[q] = {t}
            /\ pc' = [pc EXCEPT ![t] = "delete"] /\ on' = [on EXCEPT ![t] = q]
         \/ refs[q] # {t} /\ UNCHANGED <<on, pc>>
      /\ UNCHANGED <<owner, registry, freed>>
  BY DEF Release, Goes, tableVars, queueVars
<1>2. TypeOK /\ Typed /\ CallsOK /\ ItemsOK BY TypesArePointwise DEF IInv
<1>3. \A r \in Queues : refs'[r] = IF r = q THEN refs[r] \ {t} ELSE refs[r]
  BY <1>1, <1>2 DEF TypeOK
<1>4. owner[q] # None BY <1>1, <1>2 DEF ItemsOK
<1>5. RefsOK' BY <1>1, <1>3, <1>4 DEF HeldInv, RefsOK
<1>6. refs[q] = {t} => owner[q] = t BY <1>1, <1>4 DEF HeldInv, RefsOK
<1>7. \A u \in Threads : refs[q] = {t} =>
        /\ pc'[u] = IF u = t THEN "delete" ELSE pc[u]
        /\ on'[u] = IF u = t THEN q ELSE on[u]
  BY <1>1, <1>2 DEF TypeOK
<1>8. UsesOK'
  <2>1. SUFFICES ASSUME NEW u \in Threads PROVE UseOK(u)' BY DEF UsesOK
  <2>2. UseOK(u) BY DEF HeldInv, UsesOK
  <2>3. CASE u = t /\ refs[q] = {t}
    <3>1. pc'[u] = "delete" /\ on'[u] = q /\ refs'[q] = {} BY <1>3, <1>7, <2>3
    <3>2. QED BY <1>1, <1>6, <2>3, <3>1 DEF UseOK, Deleting
  <2>4. CASE u = t /\ refs[q] # {t}
    <3>1. pc'[u] = "out" BY <1>1, <2>4
    <3>2. QED BY <3>1 DEF UseOK, Deleting
  <2>5. CASE u # t
    <3>1. pc'[u] = pc[u] /\ on'[u] = on[u] BY <1>1, <1>7, <2>5
    <3>2. CASE on[u] = None
      <4>1. pc[u] \in {"out", "lookup"} BY <1>2, <3>2 DEF CallsOK, CallOK
      <4>2. QED BY <3>1, <4>1 DEF UseOK, Deleting
    <3>3. CASE on[u] # None
      <4>1. on[u] \in Queues BY <1>2, <3>3 DEF Typed
      <4>2. /\ refs[on[u]] = {} => refs'[on[u]] = {}
            /\ u \in refs[on[u]] => u \in refs'[on[u]]
        BY <1>3, <2>5, <4>1
      <4>3. QED BY <1>1, <2>2, <3>1, <4>2 DEF UseOK, Deleting
    <3>4. QED BY <3>2, <3>3
  <2>6. QED BY <2>3, <2>4, <2>5
<1>9. FreedOK'
  <2>1. freed \subseteq Queues /\ q \notin freed
    BY <1>1, <1>2 DEF HeldInv, FreedOK, TypeOK
  <2>2. SUFFICES ASSUME NEW r \in freed
        PROVE  /\ owner[r] # None /\ refs'[r] = {} /\ registry[owner[r]] # r
               /\ \A u \in Threads : on'[u] # r
    BY <1>1 DEF FreedOK
  <2>3. \A u \in Threads : on'[u] = on[u] \/ on'[u] = q BY <1>1, <1>7
  <2>4. QED BY <1>3, <2>1, <2>3 DEF HeldInv, FreedOK
<1>10. QED BY <1>5, <1>8, <1>9 DEF HeldInv

\* Invalidate, or the destructor, ends: the last use of a queue that is deleted.
LEMMA ClosedHeld ==
  ASSUME IInv, IInv', HeldInv, NEW t \in Threads, AlreadyClosed(t) \/ Unregister(t)
  PROVE  HeldInv'
<1> DEFINE q == on[t]
<1>1. /\ pc[t] \in {"close", "delete", "unregister", "unregister deleted"}
      /\ freed' = IF Deleting(t) THEN freed \cup {q} ELSE freed
      /\ pc' = [u \in Threads |-> IF u \in {t} THEN "out" ELSE pc[u]]
      /\ on' = [u \in Threads |-> IF u \in {t} THEN None ELSE on[u]]
      /\ UNCHANGED <<owner, refs, canAdd>>
  BY DEF AlreadyClosed, Unregister, Closed, Return, Deleting, queueVars
<1>2. TypeOK /\ Typed /\ CallsOK /\ QueuesOK BY TypesArePointwise DEF IInv
<1>3. \A u \in Threads : /\ pc'[u] = IF u = t THEN "out" ELSE pc[u]
                         /\ on'[u] = IF u = t THEN None ELSE on[u]
  BY <1>1
<1>4. q \in Queues /\ owner[q] \in Threads /\ q # None /\ owner[q] # None
  BY <1>1, <1>2 DEF Typed, CallsOK, CallOK
<1>5. registry' = registry \/ registry' = [registry EXCEPT ![owner[q]] = None]
  BY DEF AlreadyClosed, Unregister, tableVars
<1>6. registry'[owner[q]] # q
  <2>1. CASE Unregister(t)
    BY <1>2, <1>4, <2>1 DEF Unregister, TypeOK
  <2>2. CASE AlreadyClosed(t)
    BY <1>2, <1>4, <2>2 DEF AlreadyClosed, QueuesOK, QueueOK, tableVars
  <2>3. QED BY <2>1, <2>2
<1>7. RefsOK' BY <1>1 DEF HeldInv, RefsOK
<1>8. UsesOK'
  <2>1. SUFFICES ASSUME NEW u \in Threads PROVE UseOK(u)' BY DEF UsesOK
  <2>2. UseOK(u) BY DEF HeldInv, UsesOK
  <2>3. QED BY <1>1, <1>3, <2>2 DEF UseOK, Deleting
<1>9. \A r \in freed : /\ owner[r] # None /\ refs[r] = {} /\ registry'[owner[r]] # r
                       /\ \A u \in Threads : on'[u] # r
  <2>1. SUFFICES ASSUME NEW r \in freed
        PROVE  /\ owner[r] # None /\ refs[r] = {} /\ registry'[owner[r]] # r
               /\ \A u \in Threads : on'[u] # r
    OBVIOUS
  <2>2. /\ owner[r] # None /\ refs[r] = {} /\ registry[owner[r]] # r
        /\ \A u \in Threads : on[u] # r
    BY DEF HeldInv, FreedOK
  <2>3. r \in Queues BY <1>2 DEF TypeOK
  <2>4. r # None /\ owner[r] \in Threads BY <1>2, <2>2, <2>3 DEF Typed
  <2>5. registry'[owner[r]] # r
    BY <1>2, <1>4, <1>5, <2>2, <2>4 DEF TypeOK
  <2>6. QED BY <1>3, <2>2, <2>4, <2>5
<1>10. Deleting(t) =>
        /\ owner[q] # None /\ refs[q] = {} /\ registry'[owner[q]] # q
        /\ \A u \in Threads : on'[u] # q
  <2>1. SUFFICES ASSUME Deleting(t)
        PROVE  refs[q] = {} /\ \A u \in Threads : on'[u] # q
    BY <1>4, <1>6
  <2>2. refs[q] = {} /\ owner[q] = t BY <2>1 DEF HeldInv, UsesOK, UseOK
  <2>3. SUFFICES ASSUME NEW u \in Threads, u # t, on[u] = q PROVE FALSE
    BY <1>3, <1>4, <2>2
  <2>4. UseOK(u) /\ CallOK(u) /\ CallOK(u)'
    BY <1>2 DEF HeldInv, UsesOK, IInv, CallsOK
  <2>5. pc[u] = "add"
    <3>1. pc[u] \notin {"out", "lookup"} BY <1>4, <2>3, <2>4 DEF CallOK
    <3>2. pc[u] \notin {"blocked", "close", "unregister"} BY <2>2, <2>3, <2>4 DEF UseOK
    <3>3. ~Deleting(u) BY <2>2, <2>3, <2>4 DEF UseOK
    <3>4. pc[u] \in {"out", "lookup", "add", "blocked", "close", "delete",
                     "unregister", "unregister deleted"}
      BY <1>2 DEF TypeOK
    <3>5. QED BY <3>1, <3>2, <3>3, <3>4 DEF Deleting
  <2>6. registry'[owner'[on'[u]]] = on'[u]
    <3>1. pc'[u] = "add" BY <1>3, <2>3, <2>5
    <3>2. QED BY <2>4, <3>1 DEF CallOK
  <2>7. QED BY <1>1, <1>3, <1>6, <2>3, <2>6
<1> HIDE DEF q
<1>11. FreedOK' BY <1>1, <1>9, <1>10 DEF FreedOK
<1>12. QED BY <1>7, <1>8, <1>11 DEF HeldInv

LEMMA NextHeld ==
  ASSUME Contract, IInv, HeldInv, [Next]_vars
  PROVE  HeldInv'
<1>1. IInv' BY NextInv
<1>2. CASE UNCHANGED vars
  BY <1>2 DEF vars, tableVars, queueVars, objectVars, threadVars, HeldInv, RefsOK,
              UsesOK, UseOK, Deleting, FreedOK
<1>3. CASE Next
  <2>1. PICK t \in Threads : InCall(t) \/ Calls(t) \/ WaitTimesOut(t)
    BY <1>3 DEF Next
  <2>2. CASE InCall(t)
    BY <1>1, <2>2, CallersHeld, ClosedHeld DEF InCall
  <2>3. CASE Calls(t)
    BY <1>1, <2>3, CallersHeld, CreateHeld, GetHeld, ReleaseHeld DEF Calls
  <2>4. CASE WaitTimesOut(t) BY <1>1, <2>4, CallersHeld
  <2>5. QED BY <2>1, <2>2, <2>3, <2>4
<1>4. QED BY <1>2, <1>3

\* A queue that is deleted is in nobody's hands, if no thread gets the queue of
\* another thread that may give its own up: neither in the table, whose pointers are
\* not counted, nor in a call under way.
THEOREM FreedQueuesAreUnused ==
  ASSUME Contract
  PROVE  Spec => []FreedIsUnused
<1>1. Init => IInv /\ HeldInv
  BY InitInv DEF Init, HeldInv, RefsOK, UsesOK, UseOK, Deleting, FreedOK
<1>2. IInv /\ HeldInv /\ [Next]_vars => (IInv /\ HeldInv)' BY NextInv, NextHeld
<1>3. IInv /\ HeldInv => FreedIsUnused
  <2>1. SUFFICES ASSUME IInv, HeldInv, NEW q \in freed
        PROVE  refs[q] = {} /\ \A t \in Threads : registry[t] # q /\ on[t] # q
    BY DEF FreedIsUnused
  <2>2. /\ owner[q] # None /\ refs[q] = {} /\ registry[owner[q]] # q
        /\ \A t \in Threads : on[t] # q
    BY <2>1 DEF HeldInv, FreedOK
  <2>3. q \in Queues BY <2>1 DEF IInv, TypeOK
  <2>4. EntriesOK /\ q # None BY <2>1, <2>3, TypesArePointwise DEF IInv, Typed
  <2>5. QED BY <2>2, <2>4 DEF EntriesOK
<1>4. QED BY <1>1, <1>2, <1>3, PTL DEF Spec

(***************************************************************************)
(* The refinement.                                                         *)
(***************************************************************************)

\* A message in a queue was accepted; one that was handled was accepted or sent
\* directly; one that is being sent is being sent by one thread.
SentOK ==
  /\ \A q \in Queues : \A i \in DOMAIN items[q] : sent[items[q][i]] = "accepted"
  /\ \A t \in Threads : \A i \in DOMAIN handled[t] :
       sent[handled[t][i]] \in {"accepted", "direct"}
  /\ \A t \in Threads : msg[t] # None =>
       /\ sent[msg[t]] = "sending"
       /\ \A u \in Threads : msg[u] = msg[t] => u = t

\* What was said of the others stays so when a call decides about message m.
LEMMA SentMoves ==
  ASSUME IInv, SentOK, NEW m \in Messages, sent[m] \in {"new", "sending"},
         \A n \in Messages : n # m => sent'[n] = sent[n]
  PROVE  /\ \A q \in Queues : \A i \in DOMAIN items[q] : sent'[items[q][i]] = "accepted"
         /\ \A t \in Threads : \A i \in DOMAIN handled[t] :
              sent'[handled[t][i]] \in {"accepted", "direct"}
<1>1. TypeOK BY DEF IInv
<1>2. \A q \in Queues : \A i \in DOMAIN items[q] : items[q][i] \in Messages
  <2>1. ASSUME NEW q \in Queues PROVE items[q] \in Seq(Messages) BY <1>1 DEF TypeOK
  <2>2. QED BY <2>1, ElementOfSeq
<1>3. \A t \in Threads : \A i \in DOMAIN handled[t] : handled[t][i] \in Messages
  <2>1. ASSUME NEW t \in Threads PROVE handled[t] \in Seq(Messages)
    BY <1>1 DEF TypeOK
  <2>2. QED BY <2>1, ElementOfSeq
<1>4. QED BY <1>2, <1>3 DEF SentOK

LEMMA SendDirectlySent ==
  ASSUME IInv, SentOK, NEW t \in Threads, NEW m \in Messages, SendDirectly(t, m)
  PROVE  SentOK'
<1>1. /\ sent[m] = "new" /\ sent' = [sent EXCEPT ![m] = "direct"]
      /\ handled' = [handled EXCEPT ![t] = Append(@, m)]
      /\ UNCHANGED <<items, msg>>
  BY DEF SendDirectly, queueVars, threadVars
<1>2. TypeOK /\ Typed BY TypesArePointwise DEF IInv
<1>3. /\ \A q \in Queues : \A i \in DOMAIN items[q] : sent'[items[q][i]] = "accepted"
      /\ \A u \in Threads : \A i \in DOMAIN handled[u] :
           sent'[handled[u][i]] \in {"accepted", "direct"}
      /\ \A n \in Messages : sent'[n] = IF n = m THEN "direct" ELSE sent[n]
  <2>1. \A n \in Messages : sent'[n] = IF n = m THEN "direct" ELSE sent[n]
    BY <1>1, <1>2 DEF TypeOK
  <2>2. QED BY <1>1, <2>1, SentMoves
<1>4. handled[t] \in Seq(Messages) BY <1>2 DEF TypeOK
<1>5. \A i \in DOMAIN Append(handled[t], m) :
        sent'[Append(handled[t], m)[i]] \in {"accepted", "direct"}
  <2>1. SUFFICES ASSUME NEW i \in DOMAIN Append(handled[t], m)
        PROVE  sent'[Append(handled[t], m)[i]] \in {"accepted", "direct"}
    OBVIOUS
  <2>2. \/ i \in DOMAIN handled[t] /\ Append(handled[t], m)[i] = handled[t][i]
        \/ Append(handled[t], m)[i] = m
    BY <1>4
  <2>3. QED BY <1>3, <2>2
<1>6. \A u \in Threads : handled'[u] = IF u = t THEN Append(handled[t], m) ELSE handled[u]
  BY <1>1, <1>2 DEF TypeOK
<1>7. \A u \in Threads : \A i \in DOMAIN handled'[u] :
        sent'[handled'[u][i]] \in {"accepted", "direct"}
  BY <1>3, <1>5, <1>6
<1>8. \A u \in Threads : msg[u] # None => sent'[msg[u]] = sent[msg[u]]
  BY <1>1, <1>2, <1>3 DEF SentOK, Typed
<1>9. QED BY <1>1, <1>3, <1>7, <1>8 DEF SentOK

LEMMA QueueMessageSent ==
  ASSUME IInv, SentOK, NEW t \in Threads, NEW m \in Messages, QueueMessage(t, m)
  PROVE  SentOK'
<1>1. /\ sent[m] = "new" /\ sent' = [sent EXCEPT ![m] = "sending"]
      /\ msg' = [msg EXCEPT ![t] = m]
      /\ UNCHANGED <<items, handled>>
  BY DEF QueueMessage, queueVars
<1>2. TypeOK /\ Typed BY TypesArePointwise DEF IInv
<1>3. /\ \A q \in Queues : \A i \in DOMAIN items[q] : sent'[items[q][i]] = "accepted"
      /\ \A u \in Threads : \A i \in DOMAIN handled[u] :
           sent'[handled[u][i]] \in {"accepted", "direct"}
      /\ \A n \in Messages : sent'[n] = IF n = m THEN "sending" ELSE sent[n]
  <2>1. \A n \in Messages : sent'[n] = IF n = m THEN "sending" ELSE sent[n]
    BY <1>1, <1>2 DEF TypeOK
  <2>2. QED BY <1>1, <2>1, SentMoves
<1>4. \A u \in Threads : msg'[u] = IF u = t THEN m ELSE msg[u]
  BY <1>1, <1>2 DEF TypeOK
<1>5. \A u \in Threads : msg[u] # None => msg[u] # m /\ sent'[msg[u]] = "sending"
  BY <1>1, <1>2, <1>3 DEF SentOK, Typed
<1>6. m # None BY <1>2 DEF Typed
<1>7. \A u \in Threads : msg'[u] # None =>
        /\ sent'[msg'[u]] = "sending"
        /\ \A v \in Threads : msg'[v] = msg'[u] => v = u
  BY <1>3, <1>4, <1>5, <1>6 DEF SentOK
<1>8. QED BY <1>1, <1>3, <1>7 DEF SentOK

\* The end of a call that sends.
LEMMA OutcomeSent ==
  ASSUME IInv, SentOK, NEW t \in Threads, NoQueue(t) \/ AddRefused(t) \/ Add(t)
  PROVE  SentOK'
<1>1. TypeOK /\ Typed /\ CallsOK BY TypesArePointwise DEF IInv
<1>2. PICK m \in Messages : m = msg[t] /\ m # None /\ sent[m] = "sending"
  BY <1>1 DEF NoQueue, AddRefused, Add, CallsOK, CallOK, Typed, SentOK
<1>3. PICK s \in {"refused", "accepted"} :
        /\ sent' = [sent EXCEPT ![m] = s] /\ msg' = [msg EXCEPT ![t] = None]
        /\ UNCHANGED handled
        /\ \/ items' = items
           \/ /\ s = "accepted" /\ on[t] \in Queues
              /\ items' = [items EXCEPT ![on[t]] = Append(@, m)]
  <2>1. CASE NoQueue(t) \/ AddRefused(t)
    BY <1>2, <2>1 DEF NoQueue, AddRefused, Outcome, queueVars
  <2>2. CASE Add(t)
    <3>1. on[t] \in Queues BY <1>1, <2>2 DEF Add, CallsOK, CallOK, Typed
    <3>2. QED BY <1>2, <2>2, <3>1 DEF Add, Outcome
  <2>3. QED BY <2>1, <2>2
<1>4. /\ \A q \in Queues : \A i \in DOMAIN items[q] : sent'[items[q][i]] = "accepted"
      /\ \A u \in Threads : \A i \in DOMAIN handled[u] :
           sent'[handled[u][i]] \in {"accepted", "direct"}
      /\ \A n \in Messages : sent'[n] = IF n = m THEN s ELSE sent[n]
  <2>1. \A n \in Messages : sent'[n] = IF n = m THEN s ELSE sent[n]
    BY <1>1, <1>3 DEF TypeOK
  <2>2. QED BY <1>2, <2>1, SentMoves
<1>5. \A u \in Threads : msg'[u] = IF u = t THEN None ELSE msg[u]
  BY <1>1, <1>3 DEF TypeOK
<1>6. \A u \in Threads : u # t /\ msg[u] # None => msg[u] # m BY <1>2 DEF SentOK
<1>7. \A u \in Threads : msg'[u] # None =>
        /\ sent'[msg'[u]] = "sending"
        /\ \A v \in Threads : msg'[v] = msg'[u] => v = u
  BY <1>1, <1>4, <1>5, <1>6 DEF SentOK, Typed
<1>8. \A q \in Queues : \A i \in DOMAIN items'[q] : sent'[items'[q][i]] = "accepted"
  <2>1. CASE items' = items BY <1>4, <2>1
  <2>2. CASE /\ s = "accepted" /\ on[t] \in Queues
             /\ items' = [items EXCEPT ![on[t]] = Append(@, m)]
    <3>1. SUFFICES ASSUME NEW q \in Queues, NEW i \in DOMAIN items'[q]
          PROVE  sent'[items'[q][i]] = "accepted"
      OBVIOUS
    <3>2. items[q] \in Seq(Messages) BY <1>1 DEF TypeOK
    <3>3. items'[q] = items[q] \/ items'[q] = Append(items[q], m)
      BY <1>1, <2>2 DEF TypeOK
    <3>4. \/ i \in DOMAIN items[q] /\ items'[q][i] = items[q][i]
          \/ items'[q][i] = m
      BY <1>2, <3>2, <3>3
    <3>5. sent'[m] = "accepted" BY <1>2, <1>4, <2>2
    <3>6. QED BY <1>4, <3>4, <3>5
  <2>3. QED BY <1>3, <2>1, <2>2
<1>9. QED BY <1>3, <1>4, <1>7, <1>8 DEF SentOK

LEMMA PollSent ==
  ASSUME IInv, SentOK, NEW t \in Threads, NEW q \in Queues, PollAndDispatch(t, q)
  PROVE  SentOK'
<1>1. /\ items[q] # <<>>
      /\ handled' = [handled EXCEPT ![t] = Append(@, Head(items[q]))]
      /\ items' = [items EXCEPT ![q] = Tail(@)]
      /\ UNCHANGED <<sent, msg>>
  BY DEF PollAndDispatch, threadVars
<1>2. TypeOK BY DEF IInv
<1>3. items[q] \in Seq(Messages) /\ handled[t] \in Seq(Messages)
  BY <1>2 DEF TypeOK
<1>4. Head(items[q]) = items[q][1] /\ 1 \in DOMAIN items[q] BY <1>1, <1>3
<1>5. /\ \A r \in Queues : items'[r] = IF r = q THEN Tail(items[q]) ELSE items[r]
      /\ \A u \in Threads : handled'[u] = IF u = t THEN Append(handled[t], items[q][1])
                                          ELSE handled[u]
  BY <1>1, <1>2, <1>4 DEF TypeOK
<1>6. \A i \in DOMAIN Tail(items[q]) : sent[Tail(items[q])[i]] = "accepted"
  <2>1. \A i \in DOMAIN Tail(items[q]) :
          i + 1 \in DOMAIN items[q] /\ Tail(items[q])[i] = items[q][i + 1]
    BY <1>1, <1>3
  <2>2. QED BY <2>1 DEF SentOK
<1>7. \A i \in DOMAIN Append(handled[t], items[q][1]) :
        sent[Append(handled[t], items[q][1])[i]] \in {"accepted", "direct"}
  <2>1. SUFFICES ASSUME NEW i \in DOMAIN Append(handled[t], items[q][1])
        PROVE sent[Append(handled[t], items[q][1])[i]] \in {"accepted", "direct"}
    OBVIOUS
  <2>2. \/ /\ i \in DOMAIN handled[t]
           /\ Append(handled[t], items[q][1])[i] = handled[t][i]
        \/ Append(handled[t], items[q][1])[i] = items[q][1]
    BY <1>3
  <2>3. QED BY <1>4, <2>2 DEF SentOK
<1>8. \A r \in Queues : \A i \in DOMAIN items'[r] : sent'[items'[r][i]] = "accepted"
  BY <1>1, <1>5, <1>6 DEF SentOK
<1>9. \A u \in Threads : \A i \in DOMAIN handled'[u] :
        sent'[handled'[u][i]] \in {"accepted", "direct"}
  BY <1>1, <1>5, <1>7 DEF SentOK
<1>10. QED BY <1>1, <1>8, <1>9 DEF SentOK

LEMMA CloseSent ==
  ASSUME IInv, SentOK, NEW t \in Threads, Close(t)
  PROVE  SentOK'
<1>1. /\ items' = [items EXCEPT ![on[t]] = <<>>]
      /\ UNCHANGED <<sent, msg, handled>>
  BY DEF Close
<1>2. items \in [Queues -> Seq(Messages)] BY DEF IInv, TypeOK
<1>3. \A q \in Queues : items'[q] = items[q] \/ DOMAIN items'[q] = {}
  <2>1. \A q \in Queues : items'[q] = items[q] \/ items'[q] = <<>> BY <1>1, <1>2
  <2>2. DOMAIN <<>> = {} OBVIOUS
  <2>3. QED BY <2>1, <2>2
<1>4. QED BY <1>1, <1>3 DEF SentOK

LEMMA NextSent ==
  ASSUME IInv, SentOK, [Next]_vars
  PROVE  SentOK'
<1>1. CASE UNCHANGED <<items, handled, msg, sent>> BY <1>1 DEF SentOK
<1>2. CASE Next
  <2>1. PICK t \in Threads : InCall(t) \/ Calls(t) \/ WaitTimesOut(t)
    BY <1>2 DEF Next
  <2>2. CASE \/ CreateMessageQueue(t)
             \/ \E o \in Threads : GetMessageQueue(t, o)
             \/ \E q \in Queues : \/ WaitForMessage(t, q) \/ Invalidate(t, q)
                                  \/ Release(t, q)
             \/ FindQueue(t) \/ AlreadyClosed(t) \/ Unregister(t) \/ WaitTimesOut(t)
    BY <1>1, <2>2 DEF CreateMessageQueue, GetMessageQueue, WaitForMessage, Invalidate,
       Release, FindQueue, AlreadyClosed, Unregister, WaitTimesOut, queueVars,
       threadVars
  <2>3. QED
    BY <2>1, <2>2, SendDirectlySent, QueueMessageSent, OutcomeSent, PollSent, CloseSent
    DEF InCall, Calls
<1>3. QED BY <1>1, <1>2 DEF vars, queueVars, threadVars

\* A thread's box, in terms of the table.
HasOpen(t) == registry[t] # None /\ canAdd[registry[t]]

LEMMA OpenQueuesAre ==
  ASSUME TypeOK, EntriesOK, QueuesOK, NEW t \in Threads
  PROVE  OpenQueues(t) = IF HasOpen(t) THEN {registry[t]} ELSE {}
<1>1. Typed BY TypesArePointwise
<1>2. \A q \in OpenQueues(t) : q = registry[t] /\ q # None /\ canAdd[q]
  BY <1>1 DEF OpenQueues, QueuesOK, QueueOK, Typed
<1>3. HasOpen(t) => registry[t] \in OpenQueues(t)
  BY <1>1 DEF HasOpen, OpenQueues, EntriesOK, Typed
<1>4. QED BY <1>2, <1>3 DEF HasOpen

Opened == {t \in Threads : OpenQueues(t) # {}}
Box == [t \in Threads |-> IF OpenQueues(t) = {} THEN <<>>
                          ELSE items[CHOOSE q \in OpenQueues(t) : TRUE]]

Boxes ==
  /\ \A t \in Threads : t \in Opened <=> HasOpen(t)
  /\ Box = [t \in Threads |-> IF HasOpen(t) THEN items[registry[t]] ELSE <<>>]

LEMMA BoxesAre == IInv => Boxes
<1> SUFFICES ASSUME IInv PROVE Boxes OBVIOUS
<1>1. TypeOK /\ EntriesOK /\ QueuesOK BY DEF IInv
<1>2. ASSUME NEW t \in Threads
      PROVE  /\ OpenQueues(t) # {} <=> HasOpen(t)
             /\ HasOpen(t) => (CHOOSE q \in OpenQueues(t) : TRUE) = registry[t]
  <2>1. OpenQueues(t) = IF HasOpen(t) THEN {registry[t]} ELSE {}
    BY <1>1, OpenQueuesAre
  <2>2. QED BY <2>1
<1>3. \A t \in Threads : t \in Opened <=> HasOpen(t) BY <1>2 DEF Opened
<1>4. Box = [t \in Threads |-> IF HasOpen(t) THEN items[registry[t]] ELSE <<>>]
  <2>1. ASSUME NEW t \in Threads
        PROVE  (IF OpenQueues(t) = {} THEN <<>>
                ELSE items[CHOOSE q \in OpenQueues(t) : TRUE])
               = IF HasOpen(t) THEN items[registry[t]] ELSE <<>>
    <3>1. CASE HasOpen(t)
      <4> DEFINE c == CHOOSE q \in OpenQueues(t) : TRUE
      <4>1. OpenQueues(t) # {} /\ c = registry[t] BY <1>2, <3>1
      <4> HIDE DEF c
      <4>2. (IF OpenQueues(t) = {} THEN <<>> ELSE items[c]) = items[registry[t]]
        BY <4>1
      <4>3. QED BY <3>1, <4>2 DEF c
    <3>2. CASE ~HasOpen(t) BY <1>2, <3>2
    <3>3. QED BY <3>1, <3>2
  <2>2. QED BY <2>1, Zenon DEF Box
<1>5. QED BY <1>3, <1>4 DEF Boxes

LEMMA BoxesNext == IInv' => Boxes'
BY BoxesAre, PTL

\* The abstract actions, in terms of Opened and Box.
LEMMA AbstractBoxes ==
  ASSUME NEW t \in Threads
  PROVE  /\ Abstract!Open(t) <=> /\ t \notin Opened /\ Opened' = Opened \cup {t}
                                 /\ UNCHANGED <<Box, handled>>
         /\ Abstract!Close(t) <=> /\ t \in Opened /\ Opened' = Opened \ {t}
                                  /\ Box' = [Box EXCEPT ![t] = <<>>]
                                  /\ UNCHANGED handled
         /\ Abstract!Handle(t) <=>
              /\ Box[t] # <<>>
              /\ handled' = [handled EXCEPT ![t] = Append(@, Head(Box[t]))]
              /\ Box' = [Box EXCEPT ![t] = Tail(@)]
              /\ UNCHANGED Opened
BY DEF Abstract!Open, Abstract!Close, Abstract!Handle, Opened, Box

LEMMA AbstractMessages ==
  ASSUME NEW m \in Messages
  PROVE  /\ Abstract!Accept(m) <=>
              /\ Home[m] \in Opened /\ ~Abstract!Seen(m)
              /\ Len(Box[Home[m]]) < MaxItems
              /\ Box' = [Box EXCEPT ![Home[m]] = Append(@, m)]
              /\ UNCHANGED <<Opened, handled>>
         /\ Abstract!HandleAtOnce(m) <=>
              /\ ~Abstract!Seen(m)
              /\ handled' = [handled EXCEPT ![Home[m]] = Append(@, m)]
              /\ UNCHANGED <<Opened, Box>>
         /\ Abstract!Seen(m) <=>
              \E u \in Threads : \E s \in {Box[u], handled[u]} :
                \E i \in DOMAIN s : s[i] = m
BY DEF Abstract!Accept, Abstract!HandleAtOnce, Abstract!Seen, Opened, Box

LEMMA UnsentIsUnseen ==
  ASSUME IInv, SentOK, NEW m \in Messages, sent[m] \in {"new", "sending"}
  PROVE  ~Abstract!Seen(m)
<1>1. TypeOK /\ Typed /\ Boxes BY BoxesAre, TypesArePointwise DEF IInv
<1>2. SUFFICES ASSUME NEW u \in Threads, NEW s \in {Box[u], handled[u]},
                      NEW i \in DOMAIN s, s[i] = m
               PROVE  FALSE
  BY AbstractMessages
<1>3. CASE s = handled[u] BY <1>2, <1>3 DEF SentOK
<1>4. CASE s = Box[u]
  <2>1. CASE HasOpen(u)
    <3>1. Box[u] = items[registry[u]] /\ registry[u] \in Queues
      BY <1>1, <2>1 DEF Boxes, HasOpen, Typed
    <3>2. QED BY <1>2, <1>4, <3>1 DEF SentOK
  <2>2. CASE ~HasOpen(u)
    <3>1. DOMAIN Box[u] = {} BY <1>1, <2>2 DEF Boxes
    <3>2. QED BY <1>2, <1>4, <3>1
  <2>3. QED BY <2>1, <2>2
<1>5. QED BY <1>2, <1>3, <1>4

LEMMA CreateOpens ==
  ASSUME IInv, IInv', NEW t \in Threads, CreateMessageQueue(t)
  PROVE  Abstract!Open(t)
<1>1. PICK q \in Queues :
        /\ owner[q] = None
        /\ canAdd' = [canAdd EXCEPT ![q] = TRUE]
        /\ registry' = [registry EXCEPT ![t] = q]
        /\ registry[t] = None
        /\ UNCHANGED <<items, handled>>
  BY DEF CreateMessageQueue, NewQueue
<1>2. /\ TypeOK /\ Typed /\ EntriesOK /\ QueuesOK /\ ItemsOK /\ Boxes /\ Boxes'
      /\ q # None
  BY BoxesAre, BoxesNext, TypesArePointwise DEF IInv, Typed
<1>3. /\ \A u \in Threads : registry'[u] = IF u = t THEN q ELSE registry[u]
      /\ \A r \in Queues : canAdd'[r] <=> (r = q \/ canAdd[r])
  BY <1>1, <1>2 DEF TypeOK
<1>4. \A u \in Threads : registry[u] \in Queues \cup {None} /\ registry[u] # q
  BY <1>1, <1>2 DEF Typed, EntriesOK
<1>5. \A u \in Threads : HasOpen(u)' <=> u = t \/ HasOpen(u)
  BY <1>2, <1>3, <1>4 DEF HasOpen
<1>6. ~HasOpen(t) BY <1>1 DEF HasOpen
<1>7. t \notin Opened /\ Opened' = Opened \cup {t}
  BY <1>2, <1>5, <1>6 DEF Boxes, Opened
<1>8. Box' = Box
  <2>1. items'[q] = <<>> BY <1>1, <1>2 DEF QueuesOK, QueueOK, ItemsOK
  <2>2. ASSUME NEW u \in Threads
        PROVE  (IF HasOpen(u)' THEN items'[registry'[u]] ELSE <<>>)
               = IF HasOpen(u) THEN items[registry[u]] ELSE <<>>
    <3>1. CASE u = t
      <4>1. HasOpen(u)' /\ ~HasOpen(u) /\ registry'[u] = q BY <1>3, <1>5, <1>6, <3>1
      <4>2. QED BY <2>1, <4>1
    <3>2. CASE u # t
      <4>1. (HasOpen(u)' <=> HasOpen(u)) /\ registry'[u] = registry[u]
        BY <1>3, <1>5, <3>2
      <4>2. QED BY <1>1, <4>1
    <3>3. QED BY <3>1, <3>2
  <2>3. QED BY <1>2, <2>2, Zenon DEF Boxes
<1>9. QED BY <1>1, <1>7, <1>8, AbstractBoxes

\* Boxes, in the steps that leave the table alone.
LEMMA SameTable ==
  ASSUME IInv, IInv', UNCHANGED registry, NEW q \in Queues, NEW o \in Threads,
         registry[o] = q, \A r \in Queues : r # q => items'[r] = items[r] /\ (canAdd'[r] <=> canAdd[r])
  PROVE  /\ HasOpen(o) <=> canAdd[q]
         /\ HasOpen(o)' <=> canAdd'[q]
         /\ canAdd[q] => Box[o] = items[q]
         /\ \A u \in Threads : u # o => (HasOpen(u)' <=> HasOpen(u))
         /\ Box' = [Box EXCEPT ![o] = IF canAdd'[q] THEN items'[q] ELSE <<>>]
<1>1. /\ TypeOK /\ Typed /\ EntriesOK /\ Boxes /\ Boxes'
  BY BoxesAre, BoxesNext, TypesArePointwise DEF IInv
<1>2. q # None BY <1>1 DEF Typed
<1>3. (HasOpen(o) <=> canAdd[q]) /\ (HasOpen(o)' <=> canAdd'[q])
  BY <1>2 DEF HasOpen
<1>4. canAdd[q] => Box[o] = items[q] BY <1>1, <1>3 DEF Boxes
<1>5. ASSUME NEW u \in Threads, u # o, registry[u] # None
      PROVE  registry[u] \in Queues /\ registry[u] # q
  BY <1>1, <1>2, <1>5 DEF Typed, EntriesOK
<1>6. \A u \in Threads : u # o => (HasOpen(u)' <=> HasOpen(u))
  BY <1>5 DEF HasOpen
<1>7. ASSUME NEW u \in Threads
      PROVE  (IF HasOpen(u)' THEN items'[registry'[u]] ELSE <<>>)
             = IF u = o THEN (IF canAdd'[q] THEN items'[q] ELSE <<>>) ELSE Box[u]
  <2>1. CASE u = o BY <1>3, <2>1
  <2>2. CASE u # o
    <3>1. Box[u] = IF HasOpen(u) THEN items[registry[u]] ELSE <<>> BY <1>1 DEF Boxes
    <3>2. HasOpen(u) => items'[registry'[u]] = items[registry[u]]
      BY <1>5, <2>2 DEF HasOpen
    <3>3. QED BY <1>6, <2>2, <3>1, <3>2
  <2>3. QED BY <2>1, <2>2
<1>8. Box' = [u \in Threads |->
                IF u = o THEN (IF canAdd'[q] THEN items'[q] ELSE <<>>) ELSE Box[u]]
  BY <1>1, <1>7, Zenon DEF Boxes
<1>9. Box' = [Box EXCEPT ![o] = IF canAdd'[q] THEN items'[q] ELSE <<>>]
  <2>1. DOMAIN Box = Threads BY <1>1 DEF Boxes
  <2>2. Box \in [Threads -> {Box[u] : u \in Threads}] BY <1>1 DEF Boxes
  <2> HIDE DEF Box
  <2>3. QED BY <1>8, <2>1, <2>2
<1>10. QED BY <1>3, <1>4, <1>6, <1>9

LEMMA CloseCloses ==
  ASSUME IInv, IInv', NEW t \in Threads, Close(t)
  PROVE  \E o \in Threads : Abstract!Close(o)
<1>1. /\ TypeOK /\ Typed /\ CallsOK /\ QueuesOK /\ Boxes /\ Boxes'
  BY BoxesAre, BoxesNext, TypesArePointwise DEF IInv
<1>2. PICK q \in Queues, o \in Threads : q = on[t] /\ o = owner[q] /\ registry[o] = q
  <2>1. on[t] \in Queues /\ canAdd[on[t]]
    BY <1>1 DEF Close, Typed, CallsOK, CallOK
  <2>2. owner[on[t]] \in Threads /\ registry[owner[on[t]]] = on[t]
    BY <1>1, <2>1 DEF Typed, QueuesOK, QueueOK
  <2>3. QED BY <2>1, <2>2
<1>3. /\ canAdd[q] /\ canAdd' = [canAdd EXCEPT ![q] = FALSE]
      /\ items' = [items EXCEPT ![q] = <<>>]
      /\ UNCHANGED <<registry, handled>>
  BY <1>2 DEF Close, tableVars
<1>4. ~canAdd'[q] BY <1>1, <1>3 DEF TypeOK
<1>5. \A r \in Queues : r # q => items'[r] = items[r] /\ (canAdd'[r] <=> canAdd[r])
  BY <1>1, <1>3 DEF TypeOK
<1>6. /\ HasOpen(o) /\ ~HasOpen(o)'
      /\ \A u \in Threads : u # o => (HasOpen(u)' <=> HasOpen(u))
      /\ Box' = [Box EXCEPT ![o] = <<>>]
  <2>1. /\ HasOpen(o) <=> canAdd[q]
        /\ HasOpen(o)' <=> canAdd'[q]
        /\ \A u \in Threads : u # o => (HasOpen(u)' <=> HasOpen(u))
        /\ Box' = [Box EXCEPT ![o] = IF canAdd'[q] THEN items'[q] ELSE <<>>]
    BY <1>2, <1>3, <1>5, SameTable
  <2>2. (IF canAdd'[q] THEN items'[q] ELSE <<>>) = <<>> BY <1>4
  <2>3. QED BY <1>3, <1>4, <2>1, <2>2
<1>7. o \in Opened /\ Opened' = Opened \ {o}
  <2>1. Opened \subseteq Threads /\ Opened' \subseteq Threads BY DEF Opened
  <2>2. \A u \in Threads : (u \in Opened <=> HasOpen(u)) /\ (u \in Opened' <=> HasOpen(u)')
    BY <1>1 DEF Boxes
  <2>3. \A u \in Threads : u \in Opened' <=> u \in Opened /\ u # o
    BY <1>6, <2>2
  <2>4. o \in Opened BY <1>6, <2>2
  <2>5. QED BY <2>1, <2>3, <2>4
<1>8. QED BY <1>3, <1>6, <1>7, AbstractBoxes

LEMMA AddAccepts ==
  ASSUME IInv, IInv', SentOK, NEW t \in Threads, Add(t)
  PROVE  \E m \in Messages : Abstract!Accept(m)
<1> DEFINE q == on[t]
<1>1. /\ TypeOK /\ Typed /\ CallsOK /\ Boxes /\ Boxes'
  BY BoxesAre, BoxesNext, TypesArePointwise DEF IInv
<1>2. PICK m \in Messages : m = msg[t] /\ sent[m] = "sending"
  BY <1>1 DEF Add, CallsOK, CallOK, Typed, SentOK
<1>3. /\ canAdd[q] /\ ~IsFull(q)
      /\ items' = [items EXCEPT ![q] = Append(@, m)]
      /\ UNCHANGED <<registry, canAdd, handled>>
  BY <1>2 DEF Add
<1>4. q \in Queues /\ Home[m] \in Threads /\ registry[Home[m]] = q
  BY <1>1, <1>2 DEF Add, Typed, CallsOK, CallOK
<1>5. items'[q] = Append(items[q], m) BY <1>1, <1>3, <1>4 DEF TypeOK
<1>6. \A r \in Queues : r # q => items'[r] = items[r] /\ (canAdd'[r] <=> canAdd[r])
  BY <1>1, <1>3, <1>4 DEF TypeOK
<1>7. Len(items[q]) < MaxItems
  <2>1. Len(items[q]) \in Nat
    <3>1. items[q] \in Seq(Messages) BY <1>1, <1>4 DEF TypeOK
    <3>2. QED BY <3>1, LenProperties
  <2>2. MaxItems \in Nat BY MessageAssumption
  <2>3. QED BY <1>3, <2>1, <2>2 DEF IsFull
<1> HIDE DEF q
<1>8. /\ HasOpen(Home[m]) /\ Box[Home[m]] = items[q]
      /\ \A u \in Threads : HasOpen(u)' <=> HasOpen(u)
      /\ Box' = [Box EXCEPT ![Home[m]] = Append(Box[Home[m]], m)]
  BY <1>3, <1>4, <1>5, <1>6, SameTable
<1>9. Home[m] \in Opened /\ Opened' = Opened
  BY <1>1, <1>4, <1>8 DEF Boxes, Opened
<1>10. ~Abstract!Seen(m) BY <1>2, UnsentIsUnseen
<1>11. Len(Box[Home[m]]) < MaxItems BY <1>7, <1>8
<1>12. QED BY <1>3, <1>8, <1>9, <1>10, <1>11, AbstractMessages

LEMMA PollHandles ==
  ASSUME IInv, IInv', NEW t \in Threads, NEW q \in Queues, PollAndDispatch(t, q)
  PROVE  Abstract!Handle(t)
<1>1. /\ TypeOK /\ Typed /\ QueuesOK /\ ItemsOK /\ Boxes /\ Boxes'
  BY BoxesAre, BoxesNext, TypesArePointwise DEF IInv
<1>2. /\ owner[q] = t /\ items[q] # <<>>
      /\ handled' = [handled EXCEPT ![t] = Append(@, Head(items[q]))]
      /\ items' = [items EXCEPT ![q] = Tail(@)]
      /\ UNCHANGED <<registry, canAdd>>
  BY DEF PollAndDispatch, Owns, tableVars
<1>3. canAdd[q] /\ registry[t] = q
  BY <1>1, <1>2 DEF ItemsOK, QueuesOK, QueueOK
<1>4. items'[q] = Tail(items[q]) BY <1>1, <1>2 DEF TypeOK
<1>5. \A r \in Queues : r # q => items'[r] = items[r] /\ (canAdd'[r] <=> canAdd[r])
  BY <1>1, <1>2 DEF TypeOK
<1>6. /\ Box[t] = items[q]
      /\ \A u \in Threads : HasOpen(u)' <=> HasOpen(u)
      /\ Box' = [Box EXCEPT ![t] = Tail(Box[t])]
  <2>1. /\ HasOpen(t) <=> canAdd[q]
        /\ HasOpen(t)' <=> canAdd'[q]
        /\ canAdd[q] => Box[t] = items[q]
        /\ \A u \in Threads : u # t => (HasOpen(u)' <=> HasOpen(u))
        /\ Box' = [Box EXCEPT ![t] = IF canAdd'[q] THEN items'[q] ELSE <<>>]
    BY <1>2, <1>3, <1>5, SameTable
  <2>2. canAdd'[q] BY <1>2, <1>3
  <2>3. (IF canAdd'[q] THEN items'[q] ELSE <<>>) = Tail(Box[t])
    BY <1>3, <1>4, <2>1, <2>2
  <2>4. QED BY <1>3, <2>1, <2>2, <2>3
<1>7. Opened' = Opened BY <1>1, <1>6 DEF Boxes, Opened
<1>8. QED BY <1>2, <1>6, <1>7, AbstractBoxes

LEMMA DirectHandles ==
  ASSUME IInv, SentOK, NEW t \in Threads, NEW m \in Messages, SendDirectly(t, m)
  PROVE  Abstract!HandleAtOnce(m)
<1>1. /\ sent[m] = "new" /\ Home[m] = t
      /\ handled' = [handled EXCEPT ![t] = Append(@, m)]
      /\ UNCHANGED <<owner, canAdd, items>>
  BY DEF SendDirectly, queueVars
<1>2. Opened' = Opened /\ Box' = Box BY <1>1 DEF Opened, Box, OpenQueues
<1>3. ~Abstract!Seen(m) BY <1>1, UnsentIsUnseen
<1>4. QED BY <1>1, <1>2, <1>3, AbstractMessages

LEMMA StepRefines ==
  ASSUME IInv, IInv', SentOK, [Next]_vars
  PROVE  [Abstract!Next]_Abstract!vars
<1>1. CASE UNCHANGED <<owner, canAdd, items, handled>>
  <2>1. Opened' = Opened /\ Box' = Box BY <1>1 DEF Opened, Box, OpenQueues
  <2>2. QED BY <1>1, <2>1 DEF Abstract!vars, Opened, Box
<1>2. CASE Next
  <2>1. PICK t \in Threads : InCall(t) \/ Calls(t) \/ WaitTimesOut(t)
    BY <1>2 DEF Next
  <2>2. CASE \/ \E o \in Threads : GetMessageQueue(t, o)
             \/ \E m \in Messages : QueueMessage(t, m)
             \/ \E q \in Queues : \/ WaitForMessage(t, q) \/ Invalidate(t, q)
                                  \/ Release(t, q)
             \/ NoQueue(t) \/ AddRefused(t) \/ FindQueue(t) \/ AlreadyClosed(t)
             \/ Unregister(t) \/ WaitTimesOut(t)
    BY <1>1, <2>2 DEF GetMessageQueue, QueueMessage, WaitForMessage, Invalidate,
       Release, NoQueue, AddRefused, FindQueue, AlreadyClosed, Unregister,
       WaitTimesOut, queueVars
  <2>3. CASE \/ CreateMessageQueue(t)
             \/ \E m \in Messages : SendDirectly(t, m)
             \/ \E q \in Queues : PollAndDispatch(t, q)
             \/ Add(t) \/ Close(t)
    <3>1. \/ \E u \in Threads : Abstract!Open(u) \/ Abstract!Close(u) \/ Abstract!Handle(u)
          \/ \E m \in Messages : Abstract!Accept(m) \/ Abstract!HandleAtOnce(m)
      BY <2>3, CreateOpens, DirectHandles, PollHandles, AddAccepts, CloseCloses
    <3>2. QED BY <3>1 DEF Abstract!Next
  <2>4. QED BY <2>1, <2>2, <2>3 DEF InCall, Calls
<1>3. QED BY <1>1, <1>2 DEF vars, queueVars

LEMMA InitRefines == Init => Abstract!Init
<1> SUFFICES ASSUME Init PROVE Abstract!Init OBVIOUS
<1>1. \A t \in Threads : OpenQueues(t) = {} BY DEF Init, OpenQueues
<1>2. Opened = {} BY <1>1 DEF Opened
<1>3. Box = [t \in Threads |-> <<>>] BY <1>1 DEF Box
<1>4. handled = [t \in Threads |-> <<>>] BY DEF Init
<1>5. QED BY <1>2, <1>3, <1>4 DEF Abstract!Init, Opened, Box

\* The queues and their table implement the boxes that iConcurrent promises
\* (IConcurrent.h, Concurrent.cpp): one box for each thread, whose messages it handles
\* in the order in which they were accepted, each once, none lost but with the box;
\* for any number of threads, queues and messages, whoever gets and drops which queue.
THEOREM QueuesAreMailboxes == Spec => ImplementsMailboxes
<1>1. Init => IInv /\ SentOK
  <2>1. Init => SentOK BY EmptySeq DEF Init, SentOK
  <2>2. QED BY <2>1, InitInv
<1>2. IInv /\ SentOK /\ [Next]_vars => (IInv /\ SentOK)' BY NextInv, NextSent
<1>3. Init => Abstract!Init BY InitRefines
<1>4. IInv /\ IInv' /\ SentOK /\ [Next]_vars => [Abstract!Next]_Abstract!vars
  BY StepRefines
<1>5. QED
  BY <1>1, <1>2, <1>3, <1>4, PTL DEF Spec, ImplementsMailboxes, Abstract!Spec
==============================================================================
