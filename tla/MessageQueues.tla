---------------------------- MODULE MessageQueues ----------------------------
(***************************************************************************)
(* The message queues of niLang/src/Concurrent.cpp: MessageQueue, and the  *)
(* table _mqs of sConcurrent that finds the queue of a thread.             *)
(*                                                                         *)
(* Two mutexes nest, and in both orders: _QueueMessage holds the table's   *)
(* while _Add takes the queue's; Invalidate holds the queue's while        *)
(* _Unregister_MessageQueue takes the table's.  A step ends wherever a     *)
(* thread has to wait for a mutex.                                         *)
(*                                                                         *)
(* A queue is reference counted; the table does not count.  A thread's     *)
(* references to a queue count as one here.                                *)
(***************************************************************************)
EXTENDS Integers, Sequences, FiniteSets

CONSTANTS
  Threads,
  Queues,     \* bound: the queues created, over all the threads
  Messages,   \* bound: the messages, each sent once
  Home,       \* the thread of each message's handler
  Gets,       \* pairs <<t, o>>: thread t calls GetMessageQueue for thread o
  Closers,    \* the threads that invalidate queues and drop references
  MaxItems,   \* _maxItems
  None

ASSUME MessageAssumption ==
  /\ IsFiniteSet(Threads) /\ IsFiniteSet(Queues) /\ IsFiniteSet(Messages)
  /\ Home \in [Messages -> Threads]
  /\ Gets \subseteq Threads \X Threads
  /\ Closers \subseteq Threads
  /\ MaxItems \in Nat
  /\ None \notin Threads \cup Queues \cup Messages

VARIABLES
  registry,    \* sConcurrent::_mqs
  tableLock,   \* the thread that holds the mutex "mqs"
  owner,       \* MessageQueue::_threadID, None before the queue is created
  lock,        \* the thread that holds the queue's mutex
  canAdd,      \* MessageQueue::_canAdd
  items,       \* MessageQueue::_queue
  hasMessage,  \* MessageQueue::_hasMessage is set
  refs,        \* the threads that hold references
  freed,       \* the queues whose destructor has ended
  pc,          \* where each thread is
  on,          \* the queue its call is about
  msg,         \* the message it sends
  sent,        \* per message: what became of the call that sends it
  handled      \* history: the messages each thread handled

tableVars  == <<registry, tableLock>>
queueVars  == <<owner, lock, canAdd, items, hasMessage>>
objectVars == <<refs, freed>>
threadVars == <<pc, on, msg>>
vars == <<tableVars, queueVars, objectVars, threadVars, sent, handled>>

TypeOK ==
  /\ registry \in [Threads -> Queues \cup {None}]
  /\ tableLock \in Threads \cup {None}
  /\ owner \in [Queues -> Threads \cup {None}]
  /\ lock \in [Queues -> Threads \cup {None}]
  /\ canAdd \in [Queues -> BOOLEAN]
  /\ items \in [Queues -> Seq(Messages)]
  /\ \A q \in Queues : Len(items[q]) <= MaxItems
  /\ hasMessage \in [Queues -> BOOLEAN]
  /\ refs \in [Queues -> SUBSET Threads]
  /\ freed \subseteq Queues
  /\ pc \in [Threads -> {"out", "lookup", "add", "blocked", "close",
                         "delete", "unregister", "unregister deleted"}]
  /\ on \in [Threads -> Queues \cup {None}]
  /\ msg \in [Threads -> Messages \cup {None}]
  /\ sent \in [Messages -> {"new", "sending", "refused", "accepted", "direct"}]
  /\ handled \in [Threads -> Seq(Messages)]

Init ==
  /\ registry = [t \in Threads |-> None]
  /\ tableLock = None
  /\ owner = [q \in Queues |-> None]
  /\ lock = [q \in Queues |-> None]
  /\ canAdd = [q \in Queues |-> FALSE]
  /\ items = [q \in Queues |-> <<>>]
  /\ hasMessage = [q \in Queues |-> FALSE]
  /\ refs = [q \in Queues |-> {}]
  /\ freed = {}
  /\ pc = [t \in Threads |-> "out"]
  /\ on = [t \in Threads |-> None]
  /\ msg = [t \in Threads |-> None]
  /\ sent = [m \in Messages |-> "new"]
  /\ handled = [t \in Threads |-> <<>>]

\* Thread t's call comes to step p.
Goes(t, p) == pc' = [pc EXCEPT ![t] = p]

(***************************************************************************)
(* The table: CreateMessageQueue and GetMessageQueue.                      *)
(***************************************************************************)

\* The MessageQueue that niNew makes next, for thread t, and its entry.
NewQueue(t) ==
  LET unused == {q \in Queues : owner[q] = None}
      q == CHOOSE q \in unused : TRUE
  IN /\ unused # {}
     /\ owner' = [owner EXCEPT ![q] = t]
     /\ canAdd' = [canAdd EXCEPT ![q] = TRUE]
     /\ registry' = [registry EXCEPT ![t] = q]
     /\ refs' = [refs EXCEPT ![q] = {t}]

\* Mutant: the table is not looked at first.
CreateAnother(t) ==
  /\ pc[t] = "out"
  /\ tableLock = None
  /\ NewQueue(t)
  /\ UNCHANGED <<tableLock, lock, items, hasMessage, freed, threadVars, sent,
                 handled>>

\* GetOrCreateMessageQueue calls it for the current thread.  It fails, and
\* changes nothing, when the table has a queue for the thread.
CreateMessageQueue(t) ==
  /\ pc[t] = "out"
  /\ tableLock = None
  /\ registry[t] = None
  /\ NewQueue(t)
  /\ UNCHANGED <<tableLock, lock, items, hasMessage, freed, threadVars, sent,
                 handled>>

\* The pointer in the table becomes a counted reference, whatever the count.
GetMessageQueue(t, o) ==
  /\ <<t, o>> \in Gets
  /\ pc[t] = "out"
  /\ tableLock = None
  /\ registry[o] # None
  /\ t \notin refs[registry[o]]
  /\ refs' = [refs EXCEPT ![registry[o]] = @ \cup {t}]
  /\ UNCHANGED <<tableVars, queueVars, freed, threadVars, sent, handled>>

(***************************************************************************)
(* SendMessage and QueueMessage.                                           *)
(***************************************************************************)

\* SendMessage calls a handler of its own thread directly.
SendDirectly(t, m) ==
  /\ pc[t] = "out"
  /\ sent[m] = "new"
  /\ Home[m] = t
  /\ sent' = [sent EXCEPT ![m] = "direct"]
  /\ handled' = [handled EXCEPT ![t] = Append(@, m)]
  /\ UNCHANGED <<tableVars, queueVars, objectVars, threadVars>>

QueueMessage(t, m) ==
  /\ pc[t] = "out"
  /\ sent[m] = "new"
  /\ sent' = [sent EXCEPT ![m] = "sending"]
  /\ msg' = [msg EXCEPT ![t] = m]
  /\ Goes(t, "lookup")
  /\ UNCHANGED <<tableVars, queueVars, objectVars, on, handled>>

\* The threads of T return from their calls.
Return(T) ==
  /\ pc' = [t \in Threads |-> IF t \in T THEN "out" ELSE pc[t]]
  /\ on' = [t \in Threads |-> IF t \in T THEN None ELSE on[t]]

\* The call of thread t that sends its message has outcome s.
Outcome(t, s) ==
  /\ sent' = [sent EXCEPT ![msg[t]] = s]
  /\ msg' = [msg EXCEPT ![t] = None]

NoQueue(t) ==
  /\ pc[t] = "lookup"
  /\ tableLock = None
  /\ registry[Home[msg[t]]] = None
  /\ Outcome(t, "refused")
  /\ Return({t})
  /\ UNCHANGED <<tableVars, queueVars, objectVars, handled>>

\* The table stays locked while the queue is added to.
FindQueue(t) ==
  /\ pc[t] = "lookup"
  /\ tableLock = None
  /\ registry[Home[msg[t]]] # None
  /\ tableLock' = t
  /\ on' = [on EXCEPT ![t] = registry[Home[msg[t]]]]
  /\ Goes(t, "add")
  /\ UNCHANGED <<registry, queueVars, objectVars, msg, sent, handled>>

\* Mutant: the capacity is tested with > instead of >=.
IsFullLate(q) == Len(items[q]) > MaxItems

\* The test of a release build.  A debug build stops at the assertion before it,
\* one message earlier, although the message would be accepted.
IsFull(q) == Len(items[q]) >= MaxItems

AddRefused(t) ==
  /\ pc[t] = "add"
  /\ lock[on[t]] = None
  /\ ~canAdd[on[t]] \/ IsFull(on[t])
  /\ Outcome(t, "refused")
  /\ Return({t})
  /\ tableLock' = None
  /\ UNCHANGED <<registry, queueVars, objectVars, handled>>

\* The threads that wait on the event of q.
Waiting(q) == {t \in Threads : pc[t] = "blocked" /\ on[t] = q}

\* Mutant: the event is not signalled.
AddSilently(t) ==
  /\ pc[t] = "add"
  /\ lock[on[t]] = None
  /\ canAdd[on[t]] /\ ~IsFull(on[t])
  /\ items' = [items EXCEPT ![on[t]] = Append(@, msg[t])]
  /\ Outcome(t, "accepted")
  /\ Return({t})
  /\ tableLock' = None
  /\ UNCHANGED <<registry, owner, lock, canAdd, hasMessage, objectVars, handled>>

\* MessageQueue::_Add: the signal wakes whoever waits.
Add(t) ==
  /\ pc[t] = "add"
  /\ lock[on[t]] = None
  /\ canAdd[on[t]] /\ ~IsFull(on[t])
  /\ items' = [items EXCEPT ![on[t]] = Append(@, msg[t])]
  /\ hasMessage' = [hasMessage EXCEPT ![on[t]] = TRUE]
  /\ Outcome(t, "accepted")
  /\ Return({t} \cup Waiting(on[t]))
  /\ tableLock' = None
  /\ UNCHANGED <<registry, owner, lock, canAdd, objectVars, handled>>

(***************************************************************************)
(* The owner: WaitForMessage and PollAndDispatch.                          *)
(***************************************************************************)

\* Thread t may call a method of its queue q.
Owns(t, q) == pc[t] = "out" /\ t \in refs[q] /\ owner[q] = t

\* The event is not set.  (If it is, WaitForMessage returns at once.)
WaitForMessage(t, q) ==
  /\ Owns(t, q)
  /\ ~hasMessage[q]
  /\ on' = [on EXCEPT ![t] = q]
  /\ Goes(t, "blocked")
  /\ UNCHANGED <<tableVars, queueVars, objectVars, msg, sent, handled>>

WaitTimesOut(t) ==
  /\ pc[t] = "blocked"
  /\ Return({t})
  /\ UNCHANGED <<tableVars, queueVars, objectVars, msg, sent, handled>>

\* Mutant: any poll resets the event.
PollResets(t, q) ==
  /\ Owns(t, q)
  /\ lock[q] = None
  /\ items[q] # <<>>
  /\ handled' = [handled EXCEPT ![t] = Append(@, Head(items[q]))]
  /\ items' = [items EXCEPT ![q] = Tail(@)]
  /\ hasMessage' = [hasMessage EXCEPT ![q] = FALSE]
  /\ UNCHANGED <<tableVars, owner, lock, canAdd, objectVars, threadVars, sent>>

\* Mutant: the youngest message is taken.
PollLast(t, q) ==
  /\ Owns(t, q)
  /\ lock[q] = None
  /\ items[q] # <<>>
  /\ LET n == Len(items[q]) IN
     /\ handled' = [handled EXCEPT ![t] = Append(@, items[q][n])]
     /\ items' = [items EXCEPT ![q] = SubSeq(@, 1, n - 1)]
     /\ hasMessage' = [hasMessage EXCEPT ![q] = n > 1]
  /\ UNCHANGED <<tableVars, owner, lock, canAdd, objectVars, threadVars, sent>>

\* Poll takes the oldest message, and resets the event with the last one;
\* HandleMessage runs without any mutex.  A poll of an empty queue is nothing.
PollAndDispatch(t, q) ==
  /\ Owns(t, q)
  /\ lock[q] = None
  /\ items[q] # <<>>
  /\ handled' = [handled EXCEPT ![t] = Append(@, Head(items[q]))]
  /\ items' = [items EXCEPT ![q] = Tail(@)]
  /\ hasMessage' = [hasMessage EXCEPT ![q] = @ /\ Tail(items[q]) # <<>>]
  /\ UNCHANGED <<tableVars, owner, lock, canAdd, objectVars, threadVars, sent>>

(***************************************************************************)
(* The end of a queue: Invalidate, and the destructor, which calls it.     *)
(***************************************************************************)

Invalidate(t, q) ==
  /\ t \in Closers
  /\ pc[t] = "out"
  /\ t \in refs[q]
  /\ on' = [on EXCEPT ![t] = q]
  /\ Goes(t, "close")
  /\ UNCHANGED <<tableVars, queueVars, objectVars, msg, sent, handled>>

\* Mutant: the destructor does not call Invalidate.
ReleaseFrees(t, q) ==
  /\ t \in Closers
  /\ pc[t] = "out"
  /\ t \in refs[q]
  /\ refs' = [refs EXCEPT ![q] = @ \ {t}]
  /\ freed' = IF refs[q] = {t} THEN freed \cup {q} ELSE freed
  /\ UNCHANGED <<tableVars, queueVars, threadVars, sent, handled>>

\* Thread t drops its reference; the last one deletes the queue.
Release(t, q) ==
  /\ t \in Closers
  /\ pc[t] = "out"
  /\ t \in refs[q]
  /\ refs' = [refs EXCEPT ![q] = @ \ {t}]
  /\ IF refs[q] = {t}
     THEN on' = [on EXCEPT ![t] = q] /\ Goes(t, "delete")
     ELSE UNCHANGED <<on, pc>>
  /\ UNCHANGED <<tableVars, queueVars, freed, msg, sent, handled>>

\* Invalidate, or the destructor, is over.
Closed(t, deleting) ==
  /\ freed' = IF deleting THEN freed \cup {on[t]} ELSE freed
  /\ Return({t})

\* Invalidate of a queue that was invalidated before.
AlreadyClosed(t) ==
  /\ pc[t] \in {"close", "delete"}
  /\ lock[on[t]] = None
  /\ ~canAdd[on[t]]
  /\ Closed(t, pc[t] = "delete")
  /\ UNCHANGED <<tableVars, queueVars, refs, msg, sent, handled>>

\* The queue's mutex is held from here until the table's was had.
Close(t) ==
  /\ pc[t] \in {"close", "delete"}
  /\ lock[on[t]] = None
  /\ canAdd[on[t]]
  /\ lock' = [lock EXCEPT ![on[t]] = t]
  /\ canAdd' = [canAdd EXCEPT ![on[t]] = FALSE]
  /\ items' = [items EXCEPT ![on[t]] = <<>>]
  /\ Goes(t, IF pc[t] = "delete" THEN "unregister deleted" ELSE "unregister")
  /\ UNCHANGED <<tableVars, owner, hasMessage, objectVars, on, msg, sent, handled>>

\* _Unregister_MessageQueue.
Unregister(t) ==
  /\ pc[t] \in {"unregister", "unregister deleted"}
  /\ tableLock = None
  /\ registry' = [registry EXCEPT ![owner[on[t]]] = None]
  /\ lock' = [lock EXCEPT ![on[t]] = None]
  /\ Closed(t, pc[t] = "unregister deleted")
  /\ UNCHANGED <<tableLock, owner, canAdd, items, hasMessage, refs, msg, sent,
                 handled>>

(***************************************************************************)
(* The whole system.                                                       *)
(***************************************************************************)

\* What a thread does of itself once it is inside a call.
InCall(t) ==
  \/ NoQueue(t) \/ FindQueue(t) \/ AddRefused(t) \/ Add(t)
  \/ AlreadyClosed(t) \/ Close(t) \/ Unregister(t)

Calls(t) ==
  \/ CreateMessageQueue(t)
  \/ \E o \in Threads : GetMessageQueue(t, o)
  \/ \E m \in Messages : SendDirectly(t, m) \/ QueueMessage(t, m)
  \/ \E q \in Queues : \/ WaitForMessage(t, q) \/ PollAndDispatch(t, q)
                        \/ Invalidate(t, q) \/ Release(t, q)

Next == \E t \in Threads : InCall(t) \/ Calls(t) \/ WaitTimesOut(t)

Spec == Init /\ [][Next]_vars

\* A call that can go on goes on, and a thread that is not in a call polls its
\* queue when that is not empty, as the loops of niAppLib and of the tests do.
\* No wait needs to time out.
Fairness ==
  \A t \in Threads :
    /\ WF_vars(InCall(t))
    /\ WF_vars(\E q \in Queues : PollAndDispatch(t, q))

FairSpec == Spec /\ Fairness

(***************************************************************************)
(* What the queues keep.                                                   *)
(***************************************************************************)

\* A thread has one open queue at most, and it is the one the table has: no
\* message goes to a queue that its thread does not poll.  A queue that is
\* being closed stays in the table until its mutex was had.
OneQueueEach ==
  \A q \in Queues :
    /\ canAdd[q] => registry[owner[q]] = q
    /\ owner[q] # None /\ ~canAdd[q] /\ registry[owner[q]] = q =>
         \E t \in Threads : lock[q] = t /\ on[t] = q

\* No thread sleeps on a queue that holds a message, and an open queue's event
\* is set exactly while it does: WaitForMessage neither hangs nor spins.
NoLostMessage ==
  \A q \in Queues :
    /\ items[q] # <<>> => Waiting(q) = {}
    /\ canAdd[q] => (hasMessage[q] <=> items[q] # <<>>)

\* A deleted queue is in nobody's hands: not in the table, not referred to, not
\* used by a call under way, its own deletion included.
FreedIsUnused ==
  \A q \in freed :
    /\ refs[q] = {}
    /\ \A t \in Threads : registry[t] # q /\ on[t] # q

\* While no queue is closed, an accepted message is handled.
AcceptedIsHandled ==
  \A m \in Messages :
    sent[m] = "accepted" ~>
      \/ \E i \in DOMAIN handled[Home[m]] : handled[Home[m]][i] = m
      \/ \E q \in Queues : owner[q] # None /\ ~canAdd[q]

\* QueueMessage and SendMessage return, with true or false.
SendReturns == \A m \in Messages : sent[m] = "sending" ~> sent[m] # "sending"

(***************************************************************************)
(* The boxes the queues implement.                                         *)
(***************************************************************************)

OpenQueues(t) == {q \in Queues : owner[q] = t /\ canAdd[q]}

Abstract == INSTANCE Mailboxes WITH
  open <- {t \in Threads : OpenQueues(t) # {}},
  box <- [t \in Threads |->
            IF OpenQueues(t) = {} THEN <<>>
            ELSE items[CHOOSE q \in OpenQueues(t) : TRUE]]

\* Every thread has one box, whose messages it handles in the order in which
\* they were accepted, none twice and none lost but with the box.
ImplementsMailboxes == Abstract!Spec
=============================================================================
