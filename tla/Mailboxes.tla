------------------------------ MODULE Mailboxes ------------------------------
(***************************************************************************)
(* What iConcurrent and iMessageQueue (IConcurrent.h) promise about        *)
(* messages: each thread has at most one box, its messages are handled on  *)
(* their own thread in the order in which they were accepted, each once,   *)
(* and a message is lost only with the box it is in.                       *)
(***************************************************************************)
EXTENDS Integers, Sequences

CONSTANTS
  Threads,
  Messages,
  Home,       \* the thread of each message's handler
  MaxItems    \* the messages a box holds at most

VARIABLES
  open,       \* the threads that have a box
  box,        \* the messages in each box
  handled     \* the messages each thread has handled, in order

vars == <<open, box, handled>>

Init ==
  /\ open = {}
  /\ box = [t \in Threads |-> <<>>]
  /\ handled = [t \in Threads |-> <<>>]

\* No message is accepted twice: the boxes and histories hold each once.
Seen(m) == \E t \in Threads : \E s \in {box[t], handled[t]} :
             \E i \in DOMAIN s : s[i] = m

Open(t) ==
  /\ t \notin open
  /\ open' = open \cup {t}
  /\ UNCHANGED <<box, handled>>

Close(t) ==
  /\ t \in open
  /\ open' = open \ {t}
  /\ box' = [box EXCEPT ![t] = <<>>]
  /\ UNCHANGED handled

Accept(m) ==
  /\ Home[m] \in open
  /\ ~Seen(m)
  /\ Len(box[Home[m]]) < MaxItems
  /\ box' = [box EXCEPT ![Home[m]] = Append(@, m)]
  /\ UNCHANGED <<open, handled>>

Handle(t) ==
  /\ box[t] # <<>>
  /\ handled' = [handled EXCEPT ![t] = Append(@, Head(box[t]))]
  /\ box' = [box EXCEPT ![t] = Tail(@)]
  /\ UNCHANGED open

\* SendMessage to a handler of the calling thread calls it at once, ahead of
\* whatever its box holds.
HandleAtOnce(m) ==
  /\ ~Seen(m)
  /\ handled' = [handled EXCEPT ![Home[m]] = Append(@, m)]
  /\ UNCHANGED <<open, box>>

Next ==
  \/ \E t \in Threads : Open(t) \/ Close(t) \/ Handle(t)
  \/ \E m \in Messages : Accept(m) \/ HandleAtOnce(m)

Spec == Init /\ [][Next]_vars
=============================================================================
