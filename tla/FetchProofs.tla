----------------------------- MODULE FetchProofs -----------------------------
(***************************************************************************)
(* Proof that a fetch keeps its promise, whatever libcurl calls in which   *)
(* order, whatever the queue of the requester holds or refuses, and        *)
(* whether or not the runnable is thrown away: Fetch implements            *)
(* FetchRequest.                                                           *)
(*                                                                         *)
(* Messages reach the sink from two places, the requester's queue and then *)
(* what the runnable is about to send.  The invariant says what may come   *)
(* before what in both.                                                    *)
(***************************************************************************)
EXTENDS Fetch, SequenceTheorems, TLAPS

\* What the theorem assumes: the code of "none yet" is one.
ZeroCode == 0 \in Codes

Messages == [is : Kinds, code : Codes]
Final == {"Completed", "Failed"}

\* Message a may come before message b.
MayPrecede(a, b) ==
  /\ a.is \notin Final
  /\ b.is = "Started" => a.is = "ResponseCode"

InOrder ==
  /\ \A i, j \in DOMAIN queue : i < j => MayPrecede(queue[i], queue[j])
  /\ \A i, j \in DOMAIN out : i < j => MayPrecede(out[i], out[j])
  /\ \A i \in DOMAIN queue, j \in DOMAIN out : MayPrecede(queue[i], out[j])

\* What the messages on their way say of the request and the runnable.
Says(m) ==
  /\ m.is \in Final => pc \in {"set", "gone"}
  /\ m.is = "Started" => ready = "Unsent"

SaysTrue ==
  /\ \A i \in DOMAIN queue : Says(queue[i])
  /\ \A j \in DOMAIN out : Says(out[j])

\* Before the first callback nothing was sent; after the end nothing is left.
Ends ==
  /\ state = "none" => queue = <<>> /\ out = <<>> /\ ready = "Unsent"
  /\ outcome # "none" => queue = <<>> /\ out = <<>> /\ pc \in {"set", "gone"}
  /\ pc = "queued" => state = "none"

IInv ==
  /\ queue \in Seq(Messages) /\ out \in Seq(Messages) /\ code \in Codes
  /\ state \in Kinds \cup {"none"}
  /\ InOrder /\ SaysTrue /\ Ends

(***************************************************************************)
(* What the runnable sends at a time.                                      *)
(***************************************************************************)

\* Each of the two helpers gives one message at most.
LEMMA CodeMessagesIs ==
  ASSUME ZeroCode, NEW c \in Codes
  PROVE  \/ CodeMessages(c) = <<>>
         \/ CodeMessages(c) = <<Message("ResponseCode", c)>>
BY DEF CodeMessages

LEMMA StateMessagesIs ==
  ASSUME ZeroCode, code \in Codes, NEW s \in Kinds
  PROVE  \/ state = "none" /\ StateMessages(s) = <<Message("Started", 0)>>
         \/ state # "none" /\ StateMessages(s) = <<>>
         \/ state # "none" /\ \E c \in Codes : StateMessages(s) = <<Message(s, c)>>
<1> DEFINE c == IF s = "Completed" THEN code ELSE 0
<1>1. c \in Codes BY DEF ZeroCode
<1>2. state # "none" /\ state # s => StateMessages(s) = <<Message(s, c)>>
  BY DEF StateMessages, Message
<1>3. state = "none" => StateMessages(s) = <<Message("Started", 0)>>
  BY DEF StateMessages
<1>4. state # "none" /\ state = s => StateMessages(s) = <<>> BY DEF StateMessages
<1> HIDE DEF c
<1>5. QED BY <1>1, <1>2, <1>3, <1>4

\* What a sequence ms of messages has to be for the runnable to send it next.
Sendable(ms) ==
  /\ ms \in Seq(Messages)
  /\ \A i, j \in DOMAIN ms : i < j => MayPrecede(ms[i], ms[j])
  /\ \A j \in DOMAIN ms : ms[j].is = "Started" => state = "none"

NotFinal(ms) == \A j \in DOMAIN ms : ms[j].is \notin Final

\* Sequences of one and of two messages.
LEMMA SendableOne ==
  ASSUME NEW a \in Messages, a.is = "Started" => state = "none"
  PROVE  Sendable(<<a>>) /\ (a.is \notin Final => NotFinal(<<a>>))
BY DEF Sendable, NotFinal

LEMMA SendableTwo ==
  ASSUME NEW a \in Messages, NEW b \in Messages, MayPrecede(a, b),
         a.is # "Started", b.is = "Started" => state = "none"
  PROVE  /\ Sendable(<<a, b>>)
         /\ b.is \notin Final => NotFinal(<<a, b>>)
BY DEF Sendable, NotFinal, MayPrecede

LEMMA SendableStarted ==
  ASSUME NEW a \in Messages, NEW b \in Messages, state = "none",
         a.is = "Started", b.is = "Progress"
  PROVE  Sendable(<<a, b>>) /\ NotFinal(<<a, b>>)
BY DEF Sendable, NotFinal, MayPrecede, Final

LEMMA SendableNone == Sendable(<<>>) /\ NotFinal(<<>>)
BY DEF Sendable, NotFinal

\* Sequences of one message at most, put together.
LEMMA Together ==
  ASSUME NEW a \in Messages, NEW b \in Messages
  PROVE  /\ <<>> \o <<>> = <<>> /\ <<>> \o <<b>> = <<b>> /\ <<a>> \o <<>> = <<a>>
         /\ <<a>> \o <<b>> = <<a, b>>
<1>1. <<a>> \in Seq(Messages) /\ <<b>> \in Seq(Messages) /\ <<>> \in Seq(Messages)
  OBVIOUS
<1>2. <<>> \o <<>> = <<>> /\ <<>> \o <<b>> = <<b>> /\ <<a>> \o <<>> = <<a>>
  BY <1>1, ConcatEmptySeq
<1>3. /\ <<a>> \o <<b>> \in Seq(Messages) /\ Len(<<a>> \o <<b>>) = 2
      /\ (<<a>> \o <<b>>)[1] = a /\ (<<a>> \o <<b>>)[2] = b
  BY <1>1, ConcatProperties
<1>4. <<a>> \o <<b>> = <<a, b>>
  <2>1. <<a, b>> \in Seq(Messages) /\ Len(<<a, b>>) = 2 OBVIOUS
  <2>2. \A i \in 1..2 : (<<a>> \o <<b>>)[i] = <<a, b>>[i] BY <1>3
  <2>3. QED BY <1>3, <2>1, <2>2, SeqEqual
<1>5. QED BY <1>2, <1>4

\* The messages of a callback that reports state s and then perhaps progress.
LEMMA CallbackSendable ==
  ASSUME ZeroCode, code \in Codes, NEW c \in Codes, NEW s \in Kinds \ Final,
         s = "Started" => state = "none"
  PROVE  LET ms == CodeMessages(c) \o StateMessages(s)
         IN  Sendable(ms) /\ NotFinal(ms)
<1>1. \A k \in Kinds, d \in Codes :
        Message(k, d) \in Messages /\ Message(k, d).is = k
  BY DEF Message, Messages
<1> DEFINE first == Message("ResponseCode", c)
<1>2. first \in Messages /\ first.is = "ResponseCode" BY <1>1 DEF Kinds
<1>3. PICK sm : /\ StateMessages(s) = <<>> \/ StateMessages(s) = <<sm>>
                /\ sm \in Messages /\ sm.is \notin Final
                /\ sm.is = "Started" => state = "none"
  <2>1. CASE state = "none"
    BY <1>1, <2>1, StateMessagesIs DEF Kinds, Final, ZeroCode
  <2>2. CASE state # "none" /\ StateMessages(s) = <<>>
    BY <1>2, <2>2 DEF Final
  <2>3. CASE state # "none" /\ \E d \in Codes : StateMessages(s) = <<Message(s, d)>>
    <3>1. PICK d \in Codes : StateMessages(s) = <<Message(s, d)>> BY <2>3
    <3>2. QED BY <1>1, <3>1
  <2>4. QED BY <2>1, <2>2, <2>3, StateMessagesIs
<1>4. CodeMessages(c) = <<>> \/ CodeMessages(c) = <<first>> BY CodeMessagesIs
<1> HIDE DEF first
<1> DEFINE ms == CodeMessages(c) \o StateMessages(s)
<1>5. ms = <<>> \/ ms = <<first>> \/ ms = <<sm>> \/ ms = <<first, sm>>
  BY <1>2, <1>3, <1>4, Together
<1>6. <<first>> = <<first>> /\ Sendable(<<first>>) /\ NotFinal(<<first>>)
  BY <1>2, SendableOne DEF Final
<1>7. Sendable(<<sm>>) /\ NotFinal(<<sm>>) BY <1>3, SendableOne
<1>8. Sendable(<<first, sm>>) /\ NotFinal(<<first, sm>>)
  BY <1>2, <1>3, SendableTwo DEF MayPrecede, Final
<1> HIDE DEF ms
<1>9. Sendable(ms) /\ NotFinal(ms)
  BY <1>5, <1>6, <1>7, <1>8, SendableNone
<1>10. QED BY <1>9 DEF ms

\* The messages of a progress callback, whose first reports Started.
LEMMA ProgressSendable ==
  ASSUME ZeroCode, code \in Codes, NEW moved \in BOOLEAN
  PROVE  LET ms == (IF state = "none" THEN StateMessages("Started") ELSE <<>>)
                   \o (IF moved THEN <<Message("Progress", 0)>> ELSE <<>>)
         IN  Sendable(ms) /\ NotFinal(ms)
<1> DEFINE a == Message("Started", 0)
           b == Message("Progress", 0)
           ms == (IF state = "none" THEN StateMessages("Started") ELSE <<>>)
                 \o (IF moved THEN <<b>> ELSE <<>>)
<1>1. /\ a \in Messages /\ a.is = "Started"
      /\ b \in Messages /\ b.is = "Progress"
  BY DEF Message, Messages, Kinds, ZeroCode
<1>2. state = "none" => StateMessages("Started") = <<a>> BY DEF StateMessages
<1> HIDE DEF a, b
<1> DEFINE first == IF state = "none" THEN StateMessages("Started") ELSE <<>>
           second == IF moved THEN <<b>> ELSE <<>>
<1>3. \/ ms = <<>> \/ ms = <<b>>
      \/ state = "none" /\ ms = <<a>>
      \/ state = "none" /\ ms = <<a, b>>
  <2>1. second = <<>> \/ second = <<b>> OBVIOUS
  <2>2. first = <<>> \/ (state = "none" /\ first = <<a>>) BY <1>2
  <2>3. ms = first \o second OBVIOUS
  <2> HIDE DEF first, second, ms
  <2>4. QED BY <1>1, <2>1, <2>2, <2>3, Together
<1> HIDE DEF ms
<1>4. Sendable(<<b>>) /\ NotFinal(<<b>>) BY <1>1, SendableOne DEF Final
<1>5. state = "none" => Sendable(<<a>>) /\ NotFinal(<<a>>)
  BY <1>1, SendableOne DEF Final
<1>6. state = "none" => Sendable(<<a, b>>) /\ NotFinal(<<a, b>>)
  BY <1>1, SendableStarted
<1>7. Sendable(ms) /\ NotFinal(ms)
  BY <1>3, <1>4, <1>5, <1>6, SendableNone
<1>8. QED BY <1>7 DEF ms, b

\* Whatever a state change sends is a sequence of messages.
LEMMA StateMessagesType ==
  ASSUME ZeroCode, code \in Codes, NEW s \in Kinds
  PROVE  StateMessages(s) \in Seq(Messages)
<1>1. \A k \in Kinds, d \in Codes : Message(k, d) \in Messages
  BY DEF Message, Messages
<1>2. \A k \in Kinds, d \in Codes : <<Message(k, d)>> \in Seq(Messages)
  BY <1>1
<1>3. "Started" \in Kinds /\ <<>> \in Seq(Messages) BY DEF Kinds
<1>4. QED BY <1>2, <1>3, StateMessagesIs DEF ZeroCode

(***************************************************************************)
(* The invariant.                                                          *)
(***************************************************************************)

LEMMA InitInv == ASSUME ZeroCode PROVE Init => IInv
BY DEF ZeroCode, Init, IInv, InOrder, SaysTrue, Ends

\* A callback of libcurl, whatever it is.
LEMMA CallbackInv ==
  ASSUME IInv, NEW ms, CallsBack(ms), Sendable(ms), NotFinal(ms),
         state' \in Kinds, code' \in Codes
  PROVE  IInv'
<1> USE DEF IInv, CallsBack, requestVars
<1>1. \A i \in DOMAIN queue : queue[i].is \notin Final BY DEF SaysTrue, Says
<1>2. outcome = "none" BY DEF Ends
<1>3. InOrder'
  <2>1. \A i \in DOMAIN queue, j \in DOMAIN ms : MayPrecede(queue[i], ms[j])
    BY <1>1 DEF Ends, Sendable, MayPrecede
  <2>2. QED BY <2>1 DEF InOrder, Sendable
<1>4. SaysTrue' BY DEF SaysTrue, Says, Ends, Sendable, NotFinal
<1>5. Ends' BY <1>2 DEF Ends, Kinds
<1>6. QED BY <1>3, <1>4, <1>5 DEF Sendable

LEMMA CallbacksInv ==
  ASSUME ZeroCode, IInv,
         \/ ReadPostData \/ WriteRecvData
         \/ \E c \in Codes : WriteRecvHeader(c)
         \/ \E b \in BOOLEAN : Progress(b)
  PROVE  IInv'
<1>1. code \in Codes BY DEF IInv
<1>2. CASE ReadPostData
  <2>1. Sendable(StateMessages("Sending")) /\ NotFinal(StateMessages("Sending"))
    <3>1. CodeMessages(code) = <<>> BY DEF CodeMessages
    <3>2. StateMessages("Sending") \in Seq(Messages)
      BY <1>1, StateMessagesType DEF Kinds
    <3>3. <<>> \o StateMessages("Sending") = StateMessages("Sending")
      BY <3>2, ConcatEmptySeq
    <3>4. QED BY <1>1, <3>1, <3>3, CallbackSendable DEF Kinds, Final
  <2>2. QED BY <1>1, <1>2, <2>1, CallbackInv DEF ReadPostData, UpdateState, Kinds
<1>3. CASE WriteRecvData
  <2>1. /\ Sendable(StateMessages("ReceivingData"))
        /\ NotFinal(StateMessages("ReceivingData"))
    <3>1. CodeMessages(code) = <<>> BY DEF CodeMessages
    <3>2. StateMessages("ReceivingData") \in Seq(Messages)
      BY <1>1, StateMessagesType DEF Kinds
    <3>3. <<>> \o StateMessages("ReceivingData") = StateMessages("ReceivingData")
      BY <3>2, ConcatEmptySeq
    <3>4. QED BY <1>1, <3>1, <3>3, CallbackSendable DEF Kinds, Final
  <2>2. QED BY <1>1, <1>3, <2>1, CallbackInv DEF WriteRecvData, UpdateState, Kinds
<1>4. CASE \E c \in Codes : WriteRecvHeader(c)
  <2>1. PICK c \in Codes : WriteRecvHeader(c) BY <1>4
  <2>2. LET ms == CodeMessages(c) \o StateMessages("ReceivingHeader")
        IN  Sendable(ms) /\ NotFinal(ms)
    BY <1>1, CallbackSendable DEF Kinds, Final
  <2>3. QED BY <2>1, <2>2, CallbackInv DEF WriteRecvHeader, UpdateState, Kinds
<1>5. CASE \E b \in BOOLEAN : Progress(b)
  <2>1. PICK b \in BOOLEAN : Progress(b) BY <1>5
  <2>2. state' \in Kinds /\ code' = code
    BY <2>1 DEF Progress, UpdateState, Kinds, IInv
  <2> DEFINE ms == (IF state = "none" THEN StateMessages("Started") ELSE <<>>)
                   \o (IF b THEN <<Message("Progress", 0)>> ELSE <<>>)
  <2>3. CallsBack(ms) BY <2>1 DEF Progress
  <2>4. Sendable(ms) /\ NotFinal(ms) BY <1>1, ProgressSendable
  <2> HIDE DEF ms
  <2>5. QED BY <1>1, <2>2, <2>3, <2>4, CallbackInv
<1>6. QED BY <1>2, <1>3, <1>4, <1>5

\* The runnable starts, or is thrown away before it does.
LEMMA RunInv == IInv /\ (Run \/ ThrownAway) => IInv'
BY DEF Run, ThrownAway, IInv, InOrder, SaysTrue, Says, Ends, requestVars, fileVars

\* The end of the transfer: one message, which may be final.
LEMMA EndTransferInv ==
  ASSUME ZeroCode, IInv, NEW ok \in BOOLEAN, EndTransfer(ok)
  PROVE  IInv'
<1> DEFINE s == IF ok /\ data THEN "Completed" ELSE "Failed"
<1>1. /\ pc = "transfer" /\ out = <<>> /\ out' = StateMessages(s)
      /\ UpdateState(s) /\ pc' = "set"
      /\ UNCHANGED <<code, queue, ready, outcome>>
  BY DEF EndTransfer, requestVars
<1>2. s \in Final /\ s \in Kinds BY DEF Final, Kinds
<1> HIDE DEF s
<1>3. code \in Codes /\ out' \in Seq(Messages)
  BY <1>1, <1>2, StateMessagesType DEF IInv
<1>4. state' \in Kinds BY <1>1, <1>2 DEF UpdateState, Kinds
<1>5. /\ \A i, j \in DOMAIN out' : ~(i < j)
      /\ \A j \in DOMAIN out' :
           out'[j].is = "Started" => state = "none"
  <2>1. "Started" # s BY <1>2 DEF Final
  <2>2. \A k \in Kinds, d \in Codes :
          Message(k, d) \in Messages /\ Message(k, d).is = k
    BY DEF Message, Messages
  <2>3. CASE state = "none" /\ StateMessages(s) = <<Message("Started", 0)>>
    BY <1>1, <2>3
  <2>4. CASE StateMessages(s) = <<>>
    BY <1>1, <2>4
  <2>5. CASE \E c \in Codes : StateMessages(s) = <<Message(s, c)>>
    <3>1. PICK c \in Codes : StateMessages(s) = <<Message(s, c)>> BY <2>5
    <3>2. QED BY <1>1, <1>2, <2>1, <2>2, <3>1
  <2>6. QED BY <1>2, <1>3, <2>3, <2>4, <2>5, StateMessagesIs
<1>6. outcome = "none" BY <1>1 DEF IInv, Ends
<1>7. \A i \in DOMAIN queue : queue[i].is \notin Final
  BY <1>1 DEF IInv, SaysTrue, Says
<1>8. InOrder'
  <2>1. \A i \in DOMAIN queue, j \in DOMAIN out' : MayPrecede(queue[i], out'[j])
    BY <1>5, <1>7 DEF MayPrecede, IInv, Ends
  <2>2. QED BY <1>1, <1>5, <2>1 DEF InOrder, IInv
<1>9. SaysTrue' BY <1>1, <1>5 DEF SaysTrue, Says, IInv, Ends
<1>10. Ends' BY <1>1, <1>4, <1>6 DEF Ends, Kinds
<1>11. QED BY <1>1, <1>3, <1>4, <1>8, <1>9, <1>10 DEF IInv

\* What is sent next is the first of out; it joins the end of the queue or is
\* refused.
LEMMA SendInv ==
  ASSUME IInv, Send
  PROVE  IInv'
<1>1. /\ out # <<>> /\ out' = Tail(out)
      /\ queue' = Append(queue, Head(out)) \/ queue' = queue
      /\ UNCHANGED <<pc, state, code, ready, outcome>>
  BY DEF Send, requestVars
<1>2. queue \in Seq(Messages) /\ out \in Seq(Messages) BY DEF IInv
<1>3. /\ Head(out) \in Messages /\ Head(out) = out[1] /\ 1 \in DOMAIN out
      /\ Tail(out) \in Seq(Messages)
      /\ \A j \in DOMAIN Tail(out) :
           j \in Nat /\ j + 1 \in DOMAIN out /\ 1 < j + 1
           /\ Tail(out)[j] = out[j + 1]
  BY <1>1, <1>2
<1>4. state # "none" /\ outcome = "none" BY <1>1 DEF IInv, Ends
<1>5. InOrder /\ SaysTrue BY DEF IInv
<1>6. /\ \A i, j \in DOMAIN out' : i < j => MayPrecede(out'[i], out'[j])
      /\ \A j \in DOMAIN out' : Says(out'[j]) /\ MayPrecede(Head(out), out'[j])
      /\ \A i \in DOMAIN queue, j \in DOMAIN out' : MayPrecede(queue[i], out'[j])
  BY <1>1, <1>3, <1>5 DEF InOrder, SaysTrue
<1>7. Says(Head(out)) BY <1>3, <1>5 DEF SaysTrue
<1>8. \A i \in DOMAIN queue : MayPrecede(queue[i], Head(out))
  BY <1>3, <1>5 DEF InOrder
<1>9. /\ queue' \in Seq(Messages)
      /\ \A i, j \in DOMAIN queue' : i < j => MayPrecede(queue'[i], queue'[j])
      /\ \A i \in DOMAIN queue' : Says(queue'[i])
      /\ \A i \in DOMAIN queue', j \in DOMAIN out' : MayPrecede(queue'[i], out'[j])
  <2>1. CASE queue' = queue
    BY <1>2, <1>5, <1>6, <2>1 DEF InOrder, SaysTrue
  <2>2. CASE queue' = Append(queue, Head(out))
    <3>1. /\ queue' \in Seq(Messages)
          /\ DOMAIN queue' = 1..(Len(queue) + 1) /\ DOMAIN queue = 1..Len(queue)
          /\ \A i \in DOMAIN queue : queue'[i] = queue[i]
          /\ queue'[Len(queue) + 1] = Head(out)
      BY <1>2, <1>3, <2>2, AppendProperties
    <3>2. Len(queue) \in Nat BY <1>2
    <3>3. \A i \in DOMAIN queue' : i \in DOMAIN queue \/ i = Len(queue) + 1
      BY <3>1, <3>2
    <3>4. \A i, j \in DOMAIN queue' : i < j => i \in DOMAIN queue
      BY <3>1, <3>2
    <3>5. \A i, j \in DOMAIN queue' : i < j => MayPrecede(queue'[i], queue'[j])
      BY <1>5, <1>8, <3>1, <3>3, <3>4 DEF InOrder
    <3>6. QED BY <1>5, <1>6, <1>7, <3>1, <3>3, <3>5 DEF SaysTrue
  <2>3. QED BY <1>1, <2>1, <2>2
<1>10. InOrder' BY <1>6, <1>9 DEF InOrder
<1>11. SaysTrue' BY <1>1, <1>6, <1>9 DEF SaysTrue, Says
<1>12. Ends' BY <1>1, <1>4 DEF Ends, IInv
<1>13. QED BY <1>1, <1>3, <1>9, <1>10, <1>11, <1>12 DEF IInv

LEMMA SetValueInv == IInv /\ SetValue => IInv'
BY DEF SetValue, IInv, InOrder, SaysTrue, Says, Ends, requestVars, fileVars

\* The requester handles the first message of its queue.
LEMMA DispatchInv ==
  ASSUME IInv, Dispatch
  PROVE  IInv'
<1>1. /\ queue # <<>> /\ queue' = Tail(queue)
      /\ Handle(Head(queue).is, Head(queue).code)
      /\ UNCHANGED <<pc, state, code, out>>
  BY DEF Dispatch, workerVars
<1>2. queue \in Seq(Messages) /\ out \in Seq(Messages) BY DEF IInv
<1>3. InOrder /\ SaysTrue /\ Ends BY DEF IInv
<1>4. /\ Head(queue) \in Messages /\ Head(queue) = queue[1] /\ 1 \in DOMAIN queue
      /\ Tail(queue) \in Seq(Messages)
      /\ \A j \in DOMAIN Tail(queue) :
           j \in Nat /\ j + 1 \in DOMAIN queue /\ 1 < j + 1
           /\ Tail(queue)[j] = queue[j + 1]
  BY <1>1, <1>2
<1> DEFINE m == Head(queue)
<1>5. /\ Says(m)
      /\ \A j \in DOMAIN queue' : Says(queue'[j]) /\ MayPrecede(m, queue'[j])
      /\ \A j \in DOMAIN out : Says(out[j]) /\ MayPrecede(m, out[j])
  BY <1>1, <1>3, <1>4 DEF InOrder, SaysTrue
<1>6. InOrder'
  BY <1>1, <1>3, <1>4 DEF InOrder
<1> HIDE DEF m
<1>7. state # "none" /\ outcome = "none" BY <1>1, <1>3 DEF Ends
<1>8. \/ m.is = "ResponseCode" /\ ready' = ready
      \/ /\ \A j \in DOMAIN queue' : queue'[j].is # "Started"
         /\ \A j \in DOMAIN out : out[j].is # "Started"
  BY <1>1, <1>5 DEF Handle, MayPrecede, ReadyAfter, m
<1>9. SaysTrue' BY <1>1, <1>5, <1>8 DEF SaysTrue, Says
<1>10. outcome' # "none" => queue' = <<>> /\ out' = <<>> /\ pc' \in {"set", "gone"}
  <2>1. SUFFICES ASSUME outcome' # "none"
        PROVE  queue' = <<>> /\ out' = <<>> /\ pc' \in {"set", "gone"}
    OBVIOUS
  <2>2. m.is \in Final
    BY <1>1, <1>7, <2>1 DEF Handle, OutcomeAfter, Final, m
  <2>3. DOMAIN queue' = {} /\ DOMAIN out = {} BY <1>5, <2>2 DEF MayPrecede
  <2>4. queue' \in Seq(Messages) BY <1>1, <1>4
  <2>5. queue' = <<>> /\ out = <<>> BY <1>2, <2>3, <2>4
  <2>6. QED BY <1>1, <1>5, <2>2, <2>5 DEF Says
<1>11. Ends' BY <1>1, <1>3, <1>7, <1>10 DEF Ends
<1>12. QED BY <1>1, <1>2, <1>4, <1>6, <1>9, <1>11 DEF IInv

LEMMA NextInv ==
  ASSUME ZeroCode, IInv, [Next]_vars
  PROVE  IInv'
<1>1. CASE Worker
  BY <1>1, RunInv, CallbacksInv, EndTransferInv, SendInv, SetValueInv DEF Worker
<1>2. CASE ThrownAway BY <1>2, RunInv
<1>3. CASE Dispatch BY <1>3, DispatchInv
<1>4. CASE UNCHANGED vars
  BY <1>4 DEF IInv, InOrder, SaysTrue, Says, Ends, vars, workerVars, requestVars
<1>5. QED BY <1>1, <1>2, <1>3, <1>4 DEF Next

(***************************************************************************)
(* The refinement.                                                         *)
(***************************************************************************)

\* Handling a message is a step of the abstract request, or changes nothing of it.
LEMMA DispatchIsAStep ==
  ASSUME IInv, Dispatch
  PROVE  Request!Next \/ UNCHANGED Request!vars
<1> DEFINE m == Head(queue)
<1>1. queue # <<>> /\ Handle(m.is, m.code) BY DEF Dispatch
<1>2. m \in Messages /\ 1 \in DOMAIN queue /\ m = queue[1] BY <1>1 DEF IInv
<1>3. outcome = "none" BY <1>1 DEF IInv, Ends
<1>4. m.is = "Started" => ready = "Unsent" BY <1>2 DEF IInv, SaysTrue, Says
<1> HIDE DEF m
<1>5. m.is \in Kinds BY <1>2 DEF Messages
<1>6. CASE m.is = "Started"
  BY <1>1, <1>4, <1>6
  DEF Handle, ReadyAfter, OutcomeAfter, Request!Next, Request!Open
<1>7. CASE m.is \in {"ReceivingData", "Progress"}
  BY <1>1, <1>3, <1>7
  DEF Handle, ReadyAfter, OutcomeAfter, Request!Next, Request!Report
<1>8. CASE m.is \in {"Completed", "Failed"}
  BY <1>1, <1>3, <1>8
  DEF Handle, ReadyAfter, OutcomeAfter, Request!Next, Request!Finish
<1>9. CASE m.is \in {"ResponseCode", "Sending", "ReceivingHeader"}
  BY <1>1, <1>9 DEF Handle, ReadyAfter, OutcomeAfter, Request!vars
<1>10. QED BY <1>5, <1>6, <1>7, <1>8, <1>9 DEF Kinds

\* No other step touches what the abstract request sees.
LEMMA OthersStutter ==
  ASSUME Worker \/ ThrownAway \/ UNCHANGED vars
  PROVE  UNCHANGED Request!vars
BY DEF Worker, Run, ReadPostData, WriteRecvHeader, WriteRecvData, Progress,
       CallsBack, EndTransfer, Send, SetValue, ThrownAway, vars, requestVars,
       Request!vars

\* A fetch keeps its promise (CURL.cpp, IFetch.h): the request is opened once,
\* progress is reported while it has no outcome, it is Done once, with one call of
\* OnFetchSink_Success or OnFetchSink_Error, and nothing is reported after that,
\* for every set of status codes, every length of the queue and of the transfer, and
\* whichever messages the queue refuses.
THEOREM FetchImplementsRequest ==
  ASSUME ZeroCode
  PROVE  Spec => ImplementsRequest
<1>1. Init => IInv BY InitInv
<1>2. IInv /\ [Next]_vars => IInv' BY NextInv
<1>3. Init => Request!Init BY DEF Init, Request!Init
<1>4. IInv /\ [Next]_vars => [Request!Next]_Request!vars
  BY DispatchIsAStep, OthersStutter DEF Next
<1>5. QED BY <1>1, <1>2, <1>3, <1>4, PTL DEF Spec, ImplementsRequest, Request!Spec

(***************************************************************************)
(* The outcome.  What the requester has been told and what is still on its *)
(* way to it, in its queue and at the runnable, are one sequence: sending  *)
(* leaves it alone, dispatching takes its first, a callback adds to its    *)
(* end, and a full queue takes one out of its middle.  As long as none was *)
(* refused that tells of a code, the last of it that does tells the truth; *)
(* so with those of the outcome, and of data.                              *)
(***************************************************************************)

Travels == queue \o out

CodeKinds == {"ResponseCode", "Completed"}
NoCode(q) == \A i \in DOMAIN q : q[i].is \notin CodeKinds
CodeIs(q, c) ==
  \E i \in DOMAIN q :
    /\ q[i].is \in CodeKinds /\ q[i].code = c
    /\ \A j \in DOMAIN q : j > i => q[j].is \notin CodeKinds
HasData(q) == \E i \in DOMAIN q : q[i].is = "ReceivingData"

\* The last code told is the last code there was.
CodeTold == CodeIs(Travels, code) \/ (NoCode(Travels) /\ status = code)

\* The outcome told last is that of the transfer.
Ended == pc = "set" \/ future # "unset"
Verdict == IF good THEN "Completed" ELSE "Failed"
OutcomeTold ==
  Ended => IF Travels = <<>> THEN outcome = OutcomeAfter[Verdict]
           ELSE Travels[Len(Travels)].is = Verdict

\* The file of the headers is rewound after the first data, or will be.
RewindTold == data => position = 0 \/ HasData(Travels)

ToldOK ==
  /\ lost \cap CodeKinds = {} => CodeTold
  /\ calls > 0 /\ lost \cap Final = {} => OutcomeTold
  /\ "ReceivingData" \notin lost /\ ~trailed => RewindTold

\* Until the first data the file of the headers is written at its end.
FileOK ==
  /\ lines \in Nat
  /\ trailed => data
  /\ ~trailed => ~over
  /\ ~data => position = lines /\ state # "ReceivingData" /\ ~HasData(Travels)
  /\ lines > 0 => state # "none"

\* The first callback ends the state "none".
CallsOK == calls \in Nat /\ (calls > 0 => state # "none")

\* The future is set last, to the outcome; no success has no data.
FutureOK ==
  /\ pc \in {"queued", "transfer"} => state \notin Final /\ future = "unset"
  /\ future # "unset" =>
       pc = "gone" /\ out = <<>> /\ future = IF good THEN "true" ELSE "false"
  /\ Ended /\ good => data

TInv == ToldOK /\ FileOK /\ CallsOK /\ FutureOK

(***************************************************************************)
(* Sequences of messages: put together, and without their first.           *)
(***************************************************************************)

LEMMA ConcatIs ==
  ASSUME NEW q \in Seq(Messages), NEW m \in Seq(Messages)
  PROVE  /\ q \o m \in Seq(Messages) /\ Len(q \o m) = Len(q) + Len(m)
         /\ DOMAIN (q \o m) = 1 .. (Len(q) + Len(m))
         /\ DOMAIN q = 1 .. Len(q) /\ DOMAIN m = 1 .. Len(m)
         /\ Len(q) \in Nat /\ Len(m) \in Nat
         /\ \A i \in DOMAIN q : i \in DOMAIN (q \o m) /\ (q \o m)[i] = q[i]
         /\ \A j \in DOMAIN m : /\ Len(q) + j \in DOMAIN (q \o m)
                                /\ (q \o m)[Len(q) + j] = m[j]
         /\ \A i \in DOMAIN (q \o m) :
              i \in DOMAIN q \/ \E j \in DOMAIN m : i = Len(q) + j
<1>1. /\ q \o m \in Seq(Messages) /\ Len(q \o m) = Len(q) + Len(m)
      /\ \A i \in 1 .. Len(q) : (q \o m)[i] = q[i]
      /\ \A j \in 1 .. Len(m) : (q \o m)[Len(q) + j] = m[j]
  BY ConcatProperties
<1>2. /\ DOMAIN (q \o m) = 1 .. (Len(q) + Len(m))
      /\ DOMAIN q = 1 .. Len(q) /\ DOMAIN m = 1 .. Len(m)
      /\ Len(q) \in Nat /\ Len(m) \in Nat
  BY <1>1
<1>3. \A i \in DOMAIN (q \o m) :
        i \in DOMAIN q \/ (i - Len(q) \in DOMAIN m /\ i = Len(q) + (i - Len(q)))
  BY <1>2
<1>4. \A i \in DOMAIN q : i \in DOMAIN (q \o m) BY <1>2
<1>5. \A j \in DOMAIN m : Len(q) + j \in DOMAIN (q \o m) BY <1>2
<1>6. QED BY <1>1, <1>2, <1>3, <1>4, <1>5

LEMMA NoCodeConcat ==
  ASSUME NEW q \in Seq(Messages), NEW m \in Seq(Messages), NoCode(m)
  PROVE  /\ NoCode(q) => NoCode(q \o m)
         /\ \A c : CodeIs(q, c) => CodeIs(q \o m, c)
<1>1. NoCode(q) => NoCode(q \o m) BY ConcatIs DEF NoCode
<1>2. ASSUME NEW c, CodeIs(q, c) PROVE CodeIs(q \o m, c)
  <2>1. PICK i \in DOMAIN q :
          /\ q[i].is \in CodeKinds /\ q[i].code = c
          /\ \A j \in DOMAIN q : j > i => q[j].is \notin CodeKinds
    BY <1>2 DEF CodeIs
  <2>2. i \in DOMAIN (q \o m) /\ (q \o m)[i] = q[i] BY ConcatIs
  <2>3. ASSUME NEW j \in DOMAIN (q \o m), j > i
        PROVE  (q \o m)[j].is \notin CodeKinds
    <3>1. CASE j \in DOMAIN q BY <2>1, <2>3, <3>1, ConcatIs
    <3>2. CASE \E k \in DOMAIN m : j = Len(q) + k BY <3>2, ConcatIs DEF NoCode
    <3>3. QED BY <3>1, <3>2, ConcatIs
  <2>4. QED BY <2>1, <2>2, <2>3 DEF CodeIs
<1>3. QED BY <1>1, <1>2

LEMMA CodeConcat ==
  ASSUME NEW q \in Seq(Messages), NEW m \in Seq(Messages), NEW c, CodeIs(m, c)
  PROVE  CodeIs(q \o m, c)
<1>1. PICK k \in DOMAIN m :
        /\ m[k].is \in CodeKinds /\ m[k].code = c
        /\ \A j \in DOMAIN m : j > k => m[j].is \notin CodeKinds
  BY DEF CodeIs
<1>2. PICK i \in DOMAIN (q \o m) : i = Len(q) + k /\ (q \o m)[i] = m[k]
  BY ConcatIs
<1>3. ASSUME NEW j \in DOMAIN (q \o m), j > i
      PROVE  (q \o m)[j].is \notin CodeKinds
  <2>1. PICK l \in DOMAIN m : j = Len(q) + l
    <3>1. k \in Nat /\ k > 0 /\ \A p \in DOMAIN q : p <= Len(q) BY ConcatIs
    <3>2. j \notin DOMAIN q BY <1>2, <1>3, <3>1, ConcatIs
    <3>3. QED BY <3>2, ConcatIs
  <2>2. l > k BY <1>2, <1>3, <2>1, ConcatIs
  <2>3. QED BY <1>1, <2>1, <2>2, ConcatIs
<1>4. QED BY <1>1, <1>2, <1>3 DEF CodeIs

LEMMA DataConcat ==
  ASSUME NEW q \in Seq(Messages), NEW m \in Seq(Messages)
  PROVE  HasData(q \o m) <=> HasData(q) \/ HasData(m)
<1>1. ASSUME HasData(q) PROVE HasData(q \o m)
  <2>1. PICK i \in DOMAIN q : q[i].is = "ReceivingData" BY <1>1 DEF HasData
  <2>2. i \in DOMAIN (q \o m) /\ (q \o m)[i] = q[i] BY ConcatIs
  <2>3. QED BY <2>1, <2>2 DEF HasData
<1>2. ASSUME HasData(m) PROVE HasData(q \o m)
  <2>1. PICK j \in DOMAIN m : m[j].is = "ReceivingData" BY <1>2 DEF HasData
  <2>2. PICK k \in DOMAIN (q \o m) : k = Len(q) + j /\ (q \o m)[k] = m[j]
    BY ConcatIs
  <2>3. QED BY <2>1, <2>2 DEF HasData
<1>3. ASSUME HasData(q \o m) PROVE HasData(q) \/ HasData(m)
  <2>1. PICK i \in DOMAIN (q \o m) : (q \o m)[i].is = "ReceivingData"
    BY <1>3 DEF HasData
  <2>2. CASE i \in DOMAIN q BY <2>1, <2>2, ConcatIs DEF HasData
  <2>3. CASE \E j \in DOMAIN m : i = Len(q) + j
    <3>1. PICK j \in DOMAIN m : i = Len(q) + j BY <2>3
    <3>2. (q \o m)[i] = m[j] BY <3>1, ConcatIs
    <3>3. QED BY <2>1, <3>2 DEF HasData
  <2>4. QED BY <2>2, <2>3, ConcatIs
<1>4. QED BY <1>1, <1>2, <1>3

LEMMA TailIs ==
  ASSUME NEW q \in Seq(Messages), q # <<>>
  PROVE  /\ Head(q) = q[1] /\ 1 \in DOMAIN q /\ Head(q) \in Messages
         /\ Tail(q) \in Seq(Messages) /\ Len(Tail(q)) = Len(q) - 1
         /\ \A j \in DOMAIN Tail(q) : /\ j \in Nat /\ j + 1 \in DOMAIN q
                                      /\ Tail(q)[j] = q[j + 1]
         /\ \A i \in DOMAIN q :
              i = 1 \/ (i \in Nat /\ i - 1 \in DOMAIN Tail(q) /\ q[i] = Tail(q)[i - 1])
OBVIOUS

LEMMA CodeTail ==
  ASSUME NEW q \in Seq(Messages), q # <<>>
  PROVE  /\ NoCode(q) => NoCode(Tail(q)) /\ Head(q).is \notin CodeKinds
         /\ \A c : CodeIs(q, c) =>
              \/ CodeIs(Tail(q), c)
              \/ Head(q).is \in CodeKinds /\ Head(q).code = c /\ NoCode(Tail(q))
<1>1. NoCode(q) => NoCode(Tail(q)) /\ Head(q).is \notin CodeKinds
  BY TailIs DEF NoCode
<1>2. ASSUME NEW c, CodeIs(q, c)
      PROVE  \/ CodeIs(Tail(q), c)
             \/ Head(q).is \in CodeKinds /\ Head(q).code = c /\ NoCode(Tail(q))
  <2>1. PICK i \in DOMAIN q :
          /\ q[i].is \in CodeKinds /\ q[i].code = c
          /\ \A j \in DOMAIN q : j > i => q[j].is \notin CodeKinds
    BY <1>2 DEF CodeIs
  <2>2. CASE i = 1
    <3>1. \A j \in DOMAIN Tail(q) : j + 1 > 1 BY TailIs
    <3>2. QED BY <2>1, <2>2, <3>1, TailIs DEF NoCode
  <2>3. CASE i # 1
    <3>1. PICK k \in DOMAIN Tail(q) : k = i - 1 /\ Tail(q)[k] = q[i] /\ i \in Nat
      BY <2>3, TailIs
    <3>2. ASSUME NEW j \in DOMAIN Tail(q), j > k
          PROVE  Tail(q)[j].is \notin CodeKinds
      <4>1. j + 1 \in DOMAIN q /\ j + 1 > i /\ Tail(q)[j] = q[j + 1]
        BY <3>1, <3>2, TailIs
      <4>2. QED BY <2>1, <4>1
    <3>3. QED BY <2>1, <3>1, <3>2 DEF CodeIs
  <2>4. QED BY <2>2, <2>3
<1>3. QED BY <1>1, <1>2

LEMMA DataTail ==
  ASSUME NEW q \in Seq(Messages), q # <<>>
  PROVE  HasData(q) <=> (Head(q).is = "ReceivingData" \/ HasData(Tail(q)))
<1>1. ASSUME HasData(q)
      PROVE  Head(q).is = "ReceivingData" \/ HasData(Tail(q))
  <2>1. PICK i \in DOMAIN q : q[i].is = "ReceivingData" BY <1>1 DEF HasData
  <2>2. CASE i = 1 BY <2>1, <2>2, TailIs
  <2>3. CASE i # 1
    <3>1. PICK k \in DOMAIN Tail(q) : q[i] = Tail(q)[k] BY <2>3, TailIs
    <3>2. QED BY <2>1, <3>1 DEF HasData
  <2>4. QED BY <2>2, <2>3
<1>2. Head(q).is = "ReceivingData" => HasData(q) BY TailIs DEF HasData
<1>3. ASSUME HasData(Tail(q)) PROVE HasData(q)
  <2>1. PICK j \in DOMAIN Tail(q) : Tail(q)[j].is = "ReceivingData"
    BY <1>3 DEF HasData
  <2>2. PICK k \in DOMAIN q : Tail(q)[j] = q[k] BY TailIs
  <2>3. QED BY <2>1, <2>2 DEF HasData
<1>4. QED BY <1>1, <1>2, <1>3

\* Dispatching takes the first of what travels, sending leaves it.
LEMMA TravelsDispatched ==
  ASSUME NEW q \in Seq(Messages), NEW m \in Seq(Messages), q # <<>>
  PROVE  q \o m # <<>> /\ Head(q \o m) = Head(q) /\ Tail(q \o m) = Tail(q) \o m
<1>1. /\ q \o m \in Seq(Messages) /\ Len(q \o m) = Len(q) + Len(m)
      /\ (q \o m)[1] = q[1] /\ Len(q) > 0 /\ 1 \in DOMAIN q
  BY ConcatIs, TailIs
<1>2. q \o m # <<>> /\ Head(q \o m) = Head(q) BY <1>1, ConcatIs, TailIs
<1>3. Tail(q) \in Seq(Messages) /\ Tail(q) \o m \in Seq(Messages)
  BY TailIs, ConcatIs
<1>4. Len(Tail(q \o m)) = Len(Tail(q) \o m)
  BY <1>1, <1>2, TailIs, ConcatIs
<1>5. ASSUME NEW i \in 1 .. Len(Tail(q) \o m)
      PROVE  Tail(q \o m)[i] = (Tail(q) \o m)[i]
  <2>1. Tail(q \o m)[i] = (q \o m)[i + 1] /\ i + 1 \in DOMAIN (q \o m)
    BY <1>1, <1>2, <1>4, TailIs
  <2>2. CASE i \in DOMAIN Tail(q)
    <3>1. i + 1 \in DOMAIN q /\ Tail(q)[i] = q[i + 1] BY <2>2, TailIs
    <3>2. (Tail(q) \o m)[i] = Tail(q)[i] BY <1>3, <2>2, ConcatIs
    <3>3. QED BY <2>1, <3>1, <3>2, ConcatIs
  <2>3. CASE \E j \in DOMAIN m : i = Len(Tail(q)) + j
    <3>1. PICK j \in DOMAIN m : i = Len(Tail(q)) + j BY <2>3
    <3>2. i + 1 = Len(q) + j BY <3>1, TailIs, ConcatIs
    <3>3. (Tail(q) \o m)[i] = m[j] BY <1>3, <3>1, ConcatIs
    <3>4. QED BY <2>1, <3>2, <3>3, ConcatIs
  <2>4. QED BY <1>3, <2>2, <2>3, ConcatIs
<1>6. Tail(q \o m) = Tail(q) \o m
  <2>1. Tail(q \o m) \in Seq(Messages) BY <1>1, <1>2, TailIs
  <2>2. QED BY <1>3, <1>4, <1>5, <2>1, SeqEqual
<1>7. QED BY <1>2, <1>6

LEMMA TravelsSent ==
  ASSUME NEW q \in Seq(Messages), NEW m \in Seq(Messages), m # <<>>
  PROVE  Append(q, Head(m)) \o Tail(m) = q \o m
<1>1. /\ Head(m) \in Messages /\ Tail(m) \in Seq(Messages) /\ Head(m) = m[1]
      /\ Len(Tail(m)) = Len(m) - 1 /\ 1 \in DOMAIN m
  BY TailIs
<1> DEFINE a == Append(q, Head(m))
<1>2. /\ a \in Seq(Messages) /\ Len(a) = Len(q) + 1
      /\ \A i \in 1 .. Len(q) : a[i] = q[i]
      /\ a[Len(q) + 1] = m[1]
  BY <1>1, AppendProperties
<1> HIDE DEF a
<1>3. /\ a \o Tail(m) \in Seq(Messages) /\ q \o m \in Seq(Messages)
      /\ Len(a \o Tail(m)) = Len(q \o m)
  <2>1. Len(q) \in Nat /\ Len(m) \in Nat BY ConcatIs
  <2>2. /\ a \o Tail(m) \in Seq(Messages)
        /\ Len(a \o Tail(m)) = Len(a) + Len(Tail(m))
    BY <1>1, <1>2, ConcatIs
  <2>3. q \o m \in Seq(Messages) /\ Len(q \o m) = Len(q) + Len(m) BY ConcatIs
  <2>4. QED BY <1>1, <1>2, <2>1, <2>2, <2>3
<1>4. ASSUME NEW i \in 1 .. Len(q \o m)
      PROVE  (a \o Tail(m))[i] = (q \o m)[i]
  <2>1. CASE i \in DOMAIN q
    <3>1. i \in DOMAIN a /\ a[i] = q[i]
      <4>1. DOMAIN q = 1 .. Len(q) /\ Len(q) \in Nat BY ConcatIs
      <4>2. DOMAIN a = 1 .. Len(a) BY <1>2
      <4>3. QED BY <1>2, <2>1, <4>1, <4>2
    <3>2. QED BY <1>1, <1>2, <2>1, <3>1, ConcatIs
  <2>2. CASE i = Len(q) + 1
    <3>1. i \in DOMAIN a /\ a[i] = m[1] BY <1>2, <2>2, ConcatIs
    <3>2. (a \o Tail(m))[i] = a[i] BY <1>1, <1>2, <3>1, ConcatIs
    <3>3. (q \o m)[i] = m[1] BY <1>1, <2>2, ConcatIs
    <3>4. QED BY <3>1, <3>2, <3>3
  <2>3. CASE \E j \in DOMAIN m : i = Len(q) + j /\ j # 1
    <3>1. PICK j \in DOMAIN m : i = Len(q) + j /\ j # 1 BY <2>3
    <3>2. j \in Nat /\ j - 1 \in DOMAIN Tail(m) /\ m[j] = Tail(m)[j - 1]
      BY <3>1, TailIs
    <3>3. i = Len(a) + (j - 1) BY <1>2, <3>1, <3>2, ConcatIs
    <3>4. (a \o Tail(m))[i] = Tail(m)[j - 1] BY <1>1, <1>2, <3>2, <3>3, ConcatIs
    <3>5. (q \o m)[i] = m[j] BY <3>1, ConcatIs
    <3>6. QED BY <3>2, <3>4, <3>5
  <2>4. QED BY <1>3, <2>1, <2>2, <2>3, ConcatIs
<1>5. QED BY <1>3, <1>4, SeqEqual DEF a

\* What tells of a code last in q and then m.
LEMMA CodeSplit ==
  ASSUME NEW q \in Seq(Messages), NEW m \in Seq(Messages)
  PROVE  /\ NoCode(q \o m) => NoCode(q) /\ NoCode(m)
         /\ \A c : CodeIs(q \o m, c) => CodeIs(m, c) \/ (NoCode(m) /\ CodeIs(q, c))
<1>1. ASSUME NoCode(q \o m) PROVE NoCode(q) /\ NoCode(m)
  <2>1. NoCode(q) BY <1>1, ConcatIs DEF NoCode
  <2>2. ASSUME NEW j \in DOMAIN m PROVE m[j].is \notin CodeKinds
    <3>1. Len(q) + j \in DOMAIN (q \o m) /\ (q \o m)[Len(q) + j] = m[j]
      BY ConcatIs
    <3>2. QED BY <1>1, <3>1 DEF NoCode
  <2>3. QED BY <2>1, <2>2 DEF NoCode
<1>2. ASSUME NEW c, CodeIs(q \o m, c)
      PROVE  CodeIs(m, c) \/ (NoCode(m) /\ CodeIs(q, c))
  <2>1. PICK i \in DOMAIN (q \o m) :
          /\ (q \o m)[i].is \in CodeKinds /\ (q \o m)[i].code = c
          /\ \A j \in DOMAIN (q \o m) : j > i => (q \o m)[j].is \notin CodeKinds
    BY <1>2 DEF CodeIs
  <2>2. CASE i \in DOMAIN q
    <3>1. (q \o m)[i] = q[i] BY <2>2, ConcatIs
    <3>2. \A j \in DOMAIN q : j > i => q[j].is \notin CodeKinds
      BY <2>1, ConcatIs
    <3>3. ASSUME NEW j \in DOMAIN m PROVE m[j].is \notin CodeKinds
      <4>1. /\ Len(q) + j \in DOMAIN (q \o m) /\ (q \o m)[Len(q) + j] = m[j]
            /\ Len(q) + j > i
        BY <2>2, ConcatIs
      <4>2. QED BY <2>1, <4>1
    <3>4. QED BY <2>1, <2>2, <3>1, <3>2, <3>3 DEF CodeIs, NoCode
  <2>3. CASE \E k \in DOMAIN m : i = Len(q) + k
    <3>1. PICK k \in DOMAIN m : i = Len(q) + k BY <2>3
    <3>2. (q \o m)[i] = m[k] BY <3>1, ConcatIs
    <3>3. ASSUME NEW j \in DOMAIN m, j > k PROVE m[j].is \notin CodeKinds
      <4>1. /\ Len(q) + j \in DOMAIN (q \o m) /\ (q \o m)[Len(q) + j] = m[j]
            /\ Len(q) + j > i
        BY <3>1, <3>3, ConcatIs
      <4>2. QED BY <2>1, <4>1
    <3>4. QED BY <2>1, <3>2, <3>3 DEF CodeIs
  <2>4. QED BY <2>1, <2>2, <2>3, ConcatIs
<1>3. QED BY <1>1, <1>2

\* A refused message leaves what travels without the first of out.
LEMMA CodeRefused ==
  ASSUME NEW q \in Seq(Messages), NEW m \in Seq(Messages), m # <<>>,
         Head(m).is \notin CodeKinds
  PROVE  /\ NoCode(q \o m) => NoCode(q \o Tail(m))
         /\ \A c : CodeIs(q \o m, c) => CodeIs(q \o Tail(m), c)
<1>1. Tail(m) \in Seq(Messages) BY TailIs
<1>2. NoCode(m) => NoCode(Tail(m)) BY CodeTail
<1>3. \A c : CodeIs(m, c) => CodeIs(Tail(m), c) BY CodeTail
<1>4. QED BY <1>1, <1>2, <1>3, CodeSplit, CodeConcat, NoCodeConcat

LEMMA DataRefused ==
  ASSUME NEW q \in Seq(Messages), NEW m \in Seq(Messages), m # <<>>,
         Head(m).is # "ReceivingData"
  PROVE  HasData(q \o m) => HasData(q \o Tail(m))
<1>1. Tail(m) \in Seq(Messages) BY TailIs
<1>2. HasData(m) => HasData(Tail(m)) BY DataTail
<1>3. QED BY <1>1, <1>2, DataConcat

\* The last of them stays the last, unless it is the one.
LEMMA LastRefused ==
  ASSUME NEW q \in Seq(Messages), NEW m \in Seq(Messages), m # <<>>,
         Head(m) # (q \o m)[Len(q \o m)]
  PROVE  LET t == q \o Tail(m)
         IN  t # <<>> /\ t[Len(t)] = (q \o m)[Len(q \o m)]
<1>1. /\ Tail(m) \in Seq(Messages) /\ Len(Tail(m)) = Len(m) - 1
      /\ Head(m) = m[1] /\ 1 \in DOMAIN m
  BY TailIs
<1>2. /\ Len(m) \in DOMAIN m /\ Len(q) \in Nat /\ Len(m) \in Nat
      /\ Len(q \o m) = Len(q) + Len(m)
  BY <1>1, ConcatIs
<1>3. (q \o m)[Len(q) + Len(m)] = m[Len(m)] BY <1>2, ConcatIs
<1>4. Len(m) # 1 BY <1>1, <1>2, <1>3
<1>5. /\ Len(m) - 1 \in DOMAIN Tail(m) /\ m[Len(m)] = Tail(m)[Len(m) - 1]
  BY <1>2, <1>4, TailIs
<1>6. /\ Len(q \o Tail(m)) = Len(q) + (Len(m) - 1)
      /\ (q \o Tail(m))[Len(q) + (Len(m) - 1)] = Tail(m)[Len(m) - 1]
      /\ q \o Tail(m) \in Seq(Messages)
  BY <1>1, <1>5, ConcatIs
<1> DEFINE t == q \o Tail(m)
<1>7. Len(t) > 0 BY <1>1, <1>2, <1>4, <1>6
<1>8. t # <<>>
  <2>1. \A s \in Seq(Messages) : Len(s) > 0 => s # <<>> OBVIOUS
  <2>2. t \in Seq(Messages) BY <1>6
  <2> HIDE DEF t
  <2>3. QED BY <1>7, <2>1, <2>2
<1>9. t[Len(t)] = (q \o m)[Len(q \o m)] BY <1>2, <1>3, <1>5, <1>6
<1>10. QED BY <1>8, <1>9

(***************************************************************************)
(* The invariant of the outcome, step by step.                             *)
(***************************************************************************)

\* A state change tells of the new state, or that the transfer started.
LEMMA StateMessagesKinds ==
  ASSUME ZeroCode, code \in Codes, NEW s \in Kinds
  PROVE  /\ StateMessages(s) \in Seq(Messages)
         /\ s \notin CodeKinds => NoCode(StateMessages(s))
         /\ s # "ReceivingData" => ~HasData(StateMessages(s))
<1>1. \A k \in Kinds, d \in Codes :
        Message(k, d) \in Messages /\ Message(k, d).is = k
  BY DEF Message, Messages
<1>2. \A j \in DOMAIN StateMessages(s) : StateMessages(s)[j].is \in {"Started", s}
  <2>1. CASE state = "none" /\ StateMessages(s) = <<Message("Started", 0)>>
    BY <1>1, <2>1 DEF Kinds, ZeroCode
  <2>2. CASE StateMessages(s) = <<>> BY <2>2
  <2>3. CASE \E c \in Codes : StateMessages(s) = <<Message(s, c)>>
    <3>1. PICK c \in Codes : StateMessages(s) = <<Message(s, c)>> BY <2>3
    <3>2. QED BY <1>1, <3>1
  <2>4. QED BY <2>1, <2>2, <2>3, StateMessagesIs
<1>3. QED BY <1>2, StateMessagesType DEF NoCode, HasData, CodeKinds

\* What travels when the runnable has nothing left to send.
LEMMA TravelsQueue ==
  ASSUME IInv, out = <<>>
  PROVE  Travels = queue
<1>1. queue \in Seq(Messages) BY DEF IInv
<1>2. QED BY <1>1, ConcatEmptySeq DEF Travels

LEMMA InitTold == ASSUME ZeroCode PROVE Init => TInv
<1>1. SUFFICES ASSUME Init PROVE TInv OBVIOUS
<1>2. queue = <<>> /\ out = <<>> /\ <<>> \in Seq(Messages) BY <1>1 DEF Init
<1>3. Travels = <<>> BY <1>2, ConcatEmptySeq DEF Travels
<1>4. NoCode(Travels) /\ ~HasData(Travels) BY <1>3 DEF NoCode, HasData
<1>5. ToldOK
  BY <1>1, <1>4 DEF Init, ToldOK, CodeTold, OutcomeTold, Ended, RewindTold
<1>6. FileOK BY <1>1, <1>4 DEF Init, FileOK
<1>7. FutureOK BY <1>1 DEF Init, FutureOK, Ended, Final
<1>8. CallsOK BY <1>1 DEF Init, CallsOK
<1>9. QED BY <1>5, <1>6, <1>7, <1>8 DEF TInv

\* A callback that tells of the code and of the first data it stores.
LEMMA CallbackTold ==
  ASSUME IInv, TInv, NEW ms \in Seq(Messages), CallsBack(ms),
         state' \in Kinds \ Final,
         CodeIs(ms, code') \/ (NoCode(ms) /\ code' = code),
         data' => (data /\ (position' = position \/ trailed')) \/ HasData(ms),
         lines' \in Nat, trailed => trailed', trailed' => data', ~trailed' => ~over',
         ~data' => /\ ~data /\ position' = lines'
                   /\ state' # "ReceivingData" /\ ~HasData(ms)
  PROVE  TInv'
<1>1. /\ pc = "transfer" /\ out = <<>> /\ out' = ms
      /\ UNCHANGED <<pc, good, future, queue, status, lost>>
  BY DEF CallsBack, requestVars
<1>2. Travels = queue /\ queue \in Seq(Messages) BY <1>1, TravelsQueue DEF IInv
<1>3. Travels' = queue \o ms BY <1>1 DEF Travels
<1>4. future = "unset" /\ state \notin Final BY <1>1 DEF TInv, FutureOK
<1>5. CodeTold => CodeTold'
  <2>1. CASE CodeIs(ms, code') BY <1>2, <1>3, <2>1, CodeConcat DEF CodeTold
  <2>2. CASE NoCode(ms) /\ code' = code
    BY <1>1, <1>2, <1>3, <2>2, NoCodeConcat DEF CodeTold
  <2>3. QED BY <2>1, <2>2
<1>6. ~Ended' BY <1>1, <1>4 DEF Ended
<1>7. RewindTold /\ ~trailed' => RewindTold'
  BY <1>2, <1>3, DataConcat DEF RewindTold
<1>8. ToldOK'
  BY <1>1, <1>5, <1>6, <1>7 DEF TInv, ToldOK, OutcomeTold
<1>9. FileOK'
  <2>1. ~data' => ~HasData(Travels')
    BY <1>2, <1>3, DataConcat DEF TInv, FileOK
  <2>2. state' # "none" BY DEF Kinds
  <2>3. QED BY <2>1, <2>2 DEF FileOK
<1>10. FutureOK' BY <1>1, <1>4, <1>6 DEF FutureOK
<1>11. CallsOK' BY DEF TInv, CallsOK, CallsBack, Kinds
<1>12. QED BY <1>8, <1>9, <1>10, <1>11 DEF TInv

LEMMA ReadPostDataTold ==
  ASSUME ZeroCode, IInv, TInv, ReadPostData
  PROVE  TInv'
<1>1. code \in Codes BY DEF IInv
<1> DEFINE ms == StateMessages("Sending")
<1>2. ms \in Seq(Messages) /\ NoCode(ms) /\ ~HasData(ms)
  BY <1>1, StateMessagesKinds DEF Kinds, CodeKinds
<1>3. CallsBack(ms) /\ UNCHANGED <<code, data, lines, position, over, trailed>>
  BY DEF ReadPostData, fileVars
<1>4. state' \in Kinds \ Final /\ state' # "ReceivingData"
  BY DEF ReadPostData, UpdateState, Kinds, Final
<1>5. /\ lines \in Nat /\ (trailed => data) /\ (~trailed => ~over)
      /\ ~data => position = lines
  BY DEF TInv, FileOK
<1> HIDE DEF ms
<1>6. QED BY <1>2, <1>3, <1>4, <1>5, CallbackTold

LEMMA WriteRecvDataTold ==
  ASSUME ZeroCode, IInv, TInv, WriteRecvData
  PROVE  TInv'
<1>1. code \in Codes BY DEF IInv
<1> DEFINE ms == StateMessages("ReceivingData")
<1>2. ms \in Seq(Messages) /\ NoCode(ms)
  BY <1>1, StateMessagesKinds DEF Kinds, CodeKinds
<1>3. /\ CallsBack(ms) /\ UNCHANGED <<code, lines, position, over, trailed>>
      /\ data' = TRUE /\ lines > 0
  BY DEF WriteRecvData, fileVars
<1>4. state' \in Kinds \ Final BY DEF WriteRecvData, UpdateState, Kinds, Final
<1>5. lines \in Nat /\ (~trailed => ~over) BY DEF TInv, FileOK
<1>6. ~data => HasData(ms)
  <2>1. SUFFICES ASSUME ~data PROVE HasData(ms) OBVIOUS
  <2>2. state # "none" /\ state # "ReceivingData" BY <1>3, <2>1 DEF TInv, FileOK
  <2>3. ms = <<Message("ReceivingData", 0)>> BY <2>2 DEF StateMessages
  <2>4. Message("ReceivingData", 0).is = "ReceivingData" BY DEF Message
  <2> HIDE DEF ms
  <2>5. QED BY <2>3, <2>4 DEF HasData
<1> HIDE DEF ms
<1>7. QED BY <1>2, <1>3, <1>4, <1>5, <1>6, CallbackTold

LEMMA WriteRecvHeaderTold ==
  ASSUME ZeroCode, IInv, TInv, NEW c \in Codes, WriteRecvHeader(c)
  PROVE  TInv'
<1>1. code \in Codes BY DEF IInv
<1> DEFINE first == Message("ResponseCode", c)
           sm == StateMessages("ReceivingHeader")
           ms == CodeMessages(c) \o sm
<1>2. sm \in Seq(Messages) /\ NoCode(sm) /\ ~HasData(sm)
  BY <1>1, StateMessagesKinds DEF Kinds, CodeKinds
<1>3. /\ CallsBack(ms) /\ data' = data /\ code' = c
      /\ position' = position + 1
      /\ lines' = IF position = lines THEN lines + 1 ELSE lines
  BY DEF WriteRecvHeader
<1>4. state' \in Kinds \ Final /\ state' # "ReceivingData"
  BY DEF WriteRecvHeader, UpdateState, Kinds, Final
<1>5. /\ lines \in Nat /\ (trailed => data) /\ (~trailed => ~over)
      /\ ~data => position = lines
  BY DEF TInv, FileOK
<1>6. /\ lines' \in Nat /\ (trailed => trailed') /\ (trailed' => data')
      /\ ~data' => position' = lines'
      /\ data' => data /\ trailed'
      /\ ~trailed' => ~over'
  <2>1. lines' \in Nat BY <1>3, <1>5
  <2>2. ~data => position' = lines' BY <1>3, <1>5
  <2>3. /\ trailed' <=> (trailed \/ data)
        /\ over' <=> (over \/ position < lines)
    BY Zenon DEF WriteRecvHeader
  <2>4. ~data => ~(position < lines)
    BY <1>5
  <2>5. QED BY <1>3, <1>5, <2>1, <2>2, <2>3, <2>4
<1>7. first \in Messages /\ first.is = "ResponseCode" /\ first.code = c
  BY DEF Message, Messages, Kinds
<1>8. CodeMessages(c) = IF c = code THEN <<>> ELSE <<first>> BY DEF CodeMessages
<1> HIDE DEF first, sm
<1>9. /\ ms \in Seq(Messages) /\ ~HasData(ms)
      /\ CodeIs(ms, c) \/ (NoCode(ms) /\ c = code)
  <2>1. CASE c = code
    <3>1. ms = sm BY <1>2, <1>8, <2>1, ConcatEmptySeq
    <3>2. QED BY <1>2, <2>1, <3>1
  <2>2. CASE c # code
    <3>1. <<first>> \in Seq(Messages) /\ ~HasData(<<first>>)
      BY <1>7 DEF HasData
    <3>2. CodeIs(<<first>>, c) BY <1>7 DEF CodeIs, CodeKinds
    <3>3. ms = <<first>> \o sm BY <1>8, <2>2
    <3> HIDE DEF ms
    <3>4. ms \in Seq(Messages) BY <1>2, <3>1, <3>3, ConcatIs
    <3>5. ~HasData(ms) BY <1>2, <3>1, <3>3, DataConcat
    <3>6. CodeIs(ms, c) BY <1>2, <3>1, <3>2, <3>3, NoCodeConcat
    <3>7. QED BY <3>4, <3>5, <3>6
  <2>3. QED BY <2>1, <2>2
<1> HIDE DEF ms
<1>10. QED BY <1>3, <1>4, <1>6, <1>9, CallbackTold

LEMMA ProgressTold ==
  ASSUME ZeroCode, IInv, TInv, NEW moved \in BOOLEAN, Progress(moved)
  PROVE  TInv'
<1>1. code \in Codes /\ state \in Kinds \cup {"none"} BY DEF IInv
<1> DEFINE b == Message("Progress", 0)
           first == IF state = "none" THEN StateMessages("Started") ELSE <<>>
           second == IF moved THEN <<b>> ELSE <<>>
           ms == first \o second
<1>2. first \in Seq(Messages) /\ NoCode(first) /\ ~HasData(first)
  <2>1. /\ StateMessages("Started") \in Seq(Messages)
        /\ NoCode(StateMessages("Started")) /\ ~HasData(StateMessages("Started"))
    BY <1>1, StateMessagesKinds DEF Kinds, CodeKinds
  <2>2. <<>> \in Seq(Messages) /\ NoCode(<<>>) /\ ~HasData(<<>>)
    BY DEF NoCode, HasData
  <2>3. QED BY <2>1, <2>2
<1>3. second \in Seq(Messages) /\ NoCode(second) /\ ~HasData(second)
  <2>1. b \in Messages /\ b.is = "Progress"
    BY DEF Message, Messages, Kinds, ZeroCode
  <2> HIDE DEF b
  <2>2. <<b>> \in Seq(Messages) /\ NoCode(<<b>>) /\ ~HasData(<<b>>)
    BY <2>1 DEF NoCode, HasData, CodeKinds
  <2>3. <<>> \in Seq(Messages) /\ NoCode(<<>>) /\ ~HasData(<<>>)
    BY DEF NoCode, HasData
  <2>4. QED BY <2>2, <2>3
<1>4. CallsBack(ms) /\ UNCHANGED <<code, data, lines, position, over, trailed>>
  BY DEF Progress, fileVars
<1>5. pc = "transfer" BY DEF Progress, CallsBack
<1>6. state' \in Kinds \ Final /\ (state # "ReceivingData" => state' # "ReceivingData")
  BY <1>1, <1>5 DEF Progress, UpdateState, Kinds, Final, TInv, FutureOK
<1>7. /\ lines \in Nat /\ (trailed => data) /\ (~trailed => ~over)
      /\ ~data => position = lines /\ state # "ReceivingData"
  BY DEF TInv, FileOK
<1> HIDE DEF first, second
<1>8. ms \in Seq(Messages) /\ NoCode(ms) /\ ~HasData(ms)
  BY <1>2, <1>3, ConcatIs, NoCodeConcat, DataConcat
<1> HIDE DEF ms
<1>9. QED BY <1>4, <1>6, <1>7, <1>8, CallbackTold

\* The transfer ends: the one message it sends is the verdict, and the last, or if
\* there was no callback it is Started.
LEMMA EndTransferTold ==
  ASSUME ZeroCode, IInv, TInv, NEW ok \in BOOLEAN, EndTransfer(ok)
  PROVE  TInv'
<1> DEFINE s == IF ok /\ data THEN "Completed" ELSE "Failed"
           m == IF state = "none" THEN Message("Started", 0)
                ELSE Message(s, IF s = "Completed" THEN code ELSE 0)
<1>1. /\ pc = "transfer" /\ out = <<>> /\ out' = StateMessages(s)
      /\ UpdateState(s) /\ pc' = "set"
      /\ UNCHANGED <<code, data, calls, future, queue, status, outcome, lines,
                     position, over, trailed, lost>>
  BY DEF EndTransfer, requestVars, fileVars
<1>2. good' = (ok /\ data) BY DEF EndTransfer
<1>3. /\ s = IF good' THEN "Completed" ELSE "Failed"
      /\ good' => data
  BY <1>2
<1>4. s \in Final /\ s \in Kinds BY DEF Final, Kinds
<1>5. /\ m \in Messages /\ m.is \in {s, "Started"}
      /\ state # "none" => m.is = s
      /\ m.is = "Completed" => m.code = code
  BY <1>4 DEF Message, Messages, IInv, ZeroCode, Kinds
<1>6. state \notin Final /\ future = "unset" BY <1>1 DEF TInv, FutureOK
<1>7. out' = <<m>> BY <1>1, <1>4, <1>6 DEF StateMessages
<1>8. state' = IF state = "none" THEN "Started" ELSE s BY <1>1 DEF UpdateState
<1> HIDE DEF m, s
<1>9. Travels = queue /\ queue \in Seq(Messages) BY <1>1, TravelsQueue DEF IInv
<1>10. Travels' = queue \o <<m>> BY <1>1, <1>7 DEF Travels
<1>11. /\ <<m>> \in Seq(Messages) /\ Len(<<m>>) = 1 /\ 1 \in DOMAIN <<m>>
       /\ <<m>>[1] = m /\ ~HasData(<<m>>)
  BY <1>4, <1>5 DEF HasData, Final
<1>12. CodeTold => CodeTold'
  <2>1. CASE m.is = "Completed"
    <3>1. CodeIs(<<m>>, code) BY <1>5, <2>1 DEF CodeIs, CodeKinds
    <3>2. QED BY <1>1, <1>9, <1>10, <1>11, <3>1, CodeConcat DEF CodeTold
  <2>2. CASE m.is # "Completed"
    <3>1. NoCode(<<m>>) BY <1>4, <1>5, <2>2 DEF NoCode, CodeKinds, Final
    <3>2. QED BY <1>1, <1>9, <1>10, <1>11, <3>1, NoCodeConcat DEF CodeTold
  <2>3. QED BY <2>1, <2>2
<1>13. calls > 0 => OutcomeTold'
  <2>1. Len(queue \o <<m>>) = Len(queue) + 1 BY <1>9, <1>11, ConcatIs
  <2>2. (queue \o <<m>>)[Len(queue) + 1] = m BY <1>9, <1>11, ConcatIs
  <2>3. queue \o <<m>> # <<>> BY <1>9, <2>1, ConcatIs, <1>11
  <2>4. s = Verdict' BY <1>3 DEF Verdict
  <2>5. calls > 0 => m.is = s BY <1>5 DEF TInv, CallsOK
  <2>6. QED BY <1>10, <2>1, <2>2, <2>3, <2>4, <2>5 DEF OutcomeTold
<1>14. RewindTold => RewindTold'
  BY <1>1, <1>9, <1>10, <1>11, DataConcat DEF RewindTold
<1>15. ToldOK' BY <1>1, <1>12, <1>13, <1>14 DEF TInv, ToldOK
<1>16. FileOK'
  <2>1. HasData(Travels') => HasData(Travels)
    BY <1>9, <1>10, <1>11, DataConcat
  <2>2. state' # "ReceivingData" /\ state' # "none" BY <1>4, <1>8 DEF Final
  <2>3. QED BY <1>1, <2>1, <2>2 DEF TInv, FileOK
<1>17. FutureOK' BY <1>1, <1>3, <1>6 DEF FutureOK
<1>18. CallsOK' BY <1>1, <1>4, <1>8 DEF TInv, CallsOK, Final
<1>19. QED BY <1>15, <1>16, <1>17, <1>18 DEF TInv

\* Sending leaves what travels alone, or takes one message out of it that is lost.
LEMMA SendTold ==
  ASSUME IInv, TInv, Send
  PROVE  TInv'
<1>1. /\ out # <<>> /\ out' = Tail(out)
      /\ \/ queue' = Append(queue, Head(out)) /\ lost' = lost
         \/ queue' = queue /\ lost' = lost \cup {Head(out).is}
      /\ UNCHANGED <<pc, state, code, data, calls, good, future, status, outcome,
                     lines, position, over, trailed>>
  BY DEF Send, requestVars, fileVars
<1>2. queue \in Seq(Messages) /\ out \in Seq(Messages) BY DEF IInv
<1>3. Tail(out) \in Seq(Messages) BY <1>1, <1>2, TailIs
<1>4. FutureOK'
  BY <1>1 DEF TInv, FutureOK, Ended
<1>5. CallsOK' BY <1>1 DEF TInv, CallsOK
<1>6. CASE queue' = Append(queue, Head(out)) /\ lost' = lost
  <2>1. Travels' = Travels BY <1>1, <1>2, <1>6, TravelsSent DEF Travels
  <2>2. ToldOK'
    BY <1>1, <1>6, <2>1
    DEF TInv, ToldOK, CodeTold, OutcomeTold, Ended, Verdict, RewindTold
  <2>3. FileOK' BY <1>1, <2>1 DEF TInv, FileOK
  <2>4. QED BY <1>4, <1>5, <2>2, <2>3 DEF TInv
<1>7. CASE queue' = queue /\ lost' = lost \cup {Head(out).is}
  <2>1. Travels' = queue \o Tail(out) /\ Travels = queue \o out
    BY <1>1, <1>7 DEF Travels
  <2> DEFINE k == Head(out).is
  <2>2. k \notin CodeKinds /\ CodeTold => CodeTold'
    BY <1>1, <1>2, <2>1, CodeRefused DEF CodeTold
  <2>3. k \notin Final /\ OutcomeTold => OutcomeTold'
    <3>1. SUFFICES ASSUME k \notin Final, OutcomeTold, Ended PROVE OutcomeTold'
      BY <1>1 DEF OutcomeTold, Ended
    <3>2. Travels # <<>>
      <4>1. Len(out) > 0 /\ Len(queue) \in Nat BY <1>1, <1>2
      <4>2. Len(Travels) = Len(queue) + Len(out) BY <1>2, <2>1, ConcatIs
      <4>3. QED BY <4>1, <4>2
    <3>3. Travels[Len(Travels)].is = Verdict /\ Verdict \in Final
      BY <3>1, <3>2 DEF OutcomeTold, Verdict, Final
    <3>4. Head(out) # Travels[Len(Travels)] BY <3>1, <3>3
    <3>5. Travels' # <<>> /\ Travels'[Len(Travels')] = Travels[Len(Travels)]
      BY <1>1, <1>2, <2>1, <3>4, LastRefused
    <3>6. QED BY <1>1, <3>3, <3>5 DEF OutcomeTold, Verdict
  <2>4. k # "ReceivingData" /\ RewindTold => RewindTold'
    BY <1>1, <1>2, <2>1, DataRefused DEF RewindTold
  <2>5. ToldOK' BY <1>1, <1>7, <2>2, <2>3, <2>4 DEF TInv, ToldOK
  <2>6. HasData(Travels') => HasData(Travels)
    BY <1>1, <1>2, <1>3, <2>1, DataConcat, DataTail
  <2>7. FileOK' BY <1>1, <2>6 DEF TInv, FileOK
  <2>8. QED BY <1>4, <1>5, <2>5, <2>7 DEF TInv
<1>8. QED BY <1>1, <1>6, <1>7

LEMMA SetValueTold ==
  ASSUME IInv, TInv, SetValue
  PROVE  TInv'
<1>1. /\ pc = "set" /\ out = <<>> /\ pc' = "gone"
      /\ future' = IF good THEN "true" ELSE "false"
      /\ UNCHANGED <<state, code, data, calls, good, out, queue, status, outcome,
                     lines, position, over, trailed, lost>>
  BY DEF SetValue, requestVars, fileVars
<1>2. Travels' = Travels BY <1>1 DEF Travels
<1>3. ToldOK'
  BY <1>1, <1>2
  DEF TInv, ToldOK, CodeTold, OutcomeTold, Ended, Verdict, RewindTold
<1>4. FileOK' BY <1>1, <1>2 DEF TInv, FileOK
<1>5. FutureOK' BY <1>1 DEF TInv, FutureOK, Ended
<1>6. CallsOK' BY <1>1 DEF TInv, CallsOK
<1>7. QED BY <1>3, <1>4, <1>5, <1>6 DEF TInv

\* Dispatching takes the first of what travels, and does what it says.
LEMMA DispatchTold ==
  ASSUME IInv, TInv, Dispatch
  PROVE  TInv'
<1> DEFINE m == Head(queue)
<1>1. /\ queue # <<>> /\ queue' = Tail(queue) /\ Handle(m.is, m.code)
      /\ UNCHANGED <<pc, state, code, data, calls, good, out, future, lines, over,
                     trailed, lost>>
  BY DEF Dispatch, workerVars
<1>2. queue \in Seq(Messages) /\ out \in Seq(Messages) BY DEF IInv
<1>3. /\ Travels \in Seq(Messages) /\ Travels # <<>> /\ m = Head(Travels)
      /\ Travels' = Tail(Travels)
  BY <1>1, <1>2, ConcatIs, TravelsDispatched DEF Travels
<1> HIDE DEF m
<1>4. CodeTold => CodeTold'
  <2>1. /\ NoCode(Travels) => NoCode(Travels') /\ m.is \notin CodeKinds
        /\ CodeIs(Travels, code) =>
             \/ CodeIs(Travels', code)
             \/ m.is \in CodeKinds /\ m.code = code /\ NoCode(Travels')
    BY <1>3, CodeTail
  <2>2. status' = IF m.is \in CodeKinds THEN m.code ELSE status
    BY <1>1 DEF Handle, CodeKinds
  <2>3. QED BY <1>1, <2>1, <2>2 DEF CodeTold
<1>5. OutcomeTold => OutcomeTold'
  <2>1. SUFFICES ASSUME Ended, Travels[Len(Travels)].is = Verdict
        PROVE  IF Travels' = <<>> THEN outcome' = OutcomeAfter[Verdict]
               ELSE Travels'[Len(Travels')].is = Verdict
    BY <1>1, <1>3 DEF OutcomeTold, Ended, Verdict
  <2>2. /\ Len(Travels) \in Nat /\ DOMAIN Travels = 1 .. Len(Travels)
        /\ Len(Travels) > 0 /\ m = Travels[1]
        /\ Travels' \in Seq(Messages) /\ Len(Travels') = Len(Travels) - 1
        /\ \A j \in DOMAIN Travels' : Travels'[j] = Travels[j + 1]
    BY <1>3, TailIs
  <2>3. CASE Travels' = <<>>
    <3>1. Len(Travels) = 1
      <4>1. Len(Travels') = 0 BY <2>3
      <4>2. Len(Travels) \in Nat /\ Len(Travels') = Len(Travels) - 1 BY <2>2
      <4>3. \A a, b \in Int : b = a - 1 /\ b = 0 => a = 1 OBVIOUS
      <4>4. QED BY <4>1, <4>2, <4>3
    <3>2. m.is = Verdict BY <2>1, <2>2, <3>1
    <3>3. QED BY <1>1, <2>3, <3>2 DEF Handle, OutcomeAfter, Verdict
  <2>4. CASE Travels' # <<>>
    <3>1. /\ Len(Travels') \in DOMAIN Travels'
          /\ Len(Travels') + 1 = Len(Travels)
      BY <2>2, <2>4
    <3>2. Travels'[Len(Travels')] = Travels[Len(Travels)] BY <2>2, <3>1
    <3>3. QED BY <2>1, <2>4, <3>2
  <2>5. QED BY <2>3, <2>4
<1>6. HasData(Travels) <=> (m.is = "ReceivingData" \/ HasData(Travels'))
  BY <1>3, DataTail
<1>7. position' = IF m.is = "ReceivingData" THEN 0 ELSE position
  BY <1>1 DEF Handle
<1>8. RewindTold => RewindTold' BY <1>1, <1>6, <1>7 DEF RewindTold
<1>9. ToldOK' BY <1>1, <1>4, <1>5, <1>8 DEF TInv, ToldOK
<1>10. FileOK' BY <1>1, <1>6, <1>7 DEF TInv, FileOK
<1>11. FutureOK' BY <1>1 DEF TInv, FutureOK, Ended
<1>12. CallsOK' BY <1>1 DEF TInv, CallsOK
<1>13. QED BY <1>9, <1>10, <1>11, <1>12 DEF TInv

\* The runnable starts, is thrown away before it does, or nothing happens.
LEMMA OthersTold ==
  ASSUME IInv, TInv, Run \/ ThrownAway \/ UNCHANGED vars
  PROVE  TInv'
<1>1. /\ UNCHANGED <<state, code, data, calls, good, out, future, queue, status,
                     outcome, lines, position, over, trailed, lost>>
      /\ \/ pc = "queued" /\ pc' \in {"transfer", "gone"}
         \/ pc' = pc
  BY DEF Run, ThrownAway, vars, workerVars, requestVars, fileVars
<1>2. Travels' = Travels BY <1>1 DEF Travels
<1>3. pc = "queued" => ~Ended BY DEF TInv, FutureOK, Ended
<1>4. Ended' <=> Ended BY <1>1, <1>3 DEF Ended, TInv, FutureOK
<1>5. ToldOK'
  BY <1>1, <1>2, <1>4 DEF TInv, ToldOK, CodeTold, OutcomeTold, Verdict, RewindTold
<1>6. FileOK' BY <1>1, <1>2 DEF TInv, FileOK
<1>7. FutureOK' BY <1>1, <1>3, <1>4 DEF TInv, FutureOK
<1>8. CallsOK' BY <1>1 DEF TInv, CallsOK
<1>9. QED BY <1>5, <1>6, <1>7, <1>8 DEF TInv

LEMMA NextTold ==
  ASSUME ZeroCode, IInv, TInv, [Next]_vars
  PROVE  TInv'
<1>1. CASE Worker
  BY <1>1, OthersTold, ReadPostDataTold, WriteRecvDataTold, SendTold, SetValueTold,
     WriteRecvHeaderTold, ProgressTold, EndTransferTold DEF Worker
<1>2. CASE ThrownAway BY <1>2, OthersTold
<1>3. CASE Dispatch BY <1>3, DispatchTold
<1>4. CASE UNCHANGED vars BY <1>4, OthersTold
<1>5. QED BY <1>1, <1>2, <1>3, <1>4 DEF Next

\* What the future says was told (CURL.cpp, _RunSingle and the handler of _Fetch):
\* when the future of a request has a value and its messages are dispatched, the sink
\* was told of the outcome the value stands for, if there was a callback and that
\* message was not refused; the status is the last code libcurl gave, if none of the
\* messages with a code was refused; and the headers of a success were written each
\* after the other and stand rewound, if none came after data and the message of data
\* was not refused: for every number of callbacks and every length of the queue.
THEOREM DoneIsTold ==
  ASSUME ZeroCode
  PROVE  Spec => []DoneMeansTold
<1>1. Init => IInv /\ TInv BY InitInv, InitTold
<1>2. IInv /\ TInv /\ [Next]_vars => (IInv /\ TInv)' BY NextInv, NextTold
<1>3. IInv /\ TInv => DoneMeansTold
  <2>1. SUFFICES ASSUME IInv, TInv, future # "unset", queue = <<>>
        PROVE  /\ calls > 0 /\ lost \cap {"Completed", "Failed"} = {} =>
                    outcome = IF future = "true" THEN "success" ELSE "error"
               /\ lost \cap {"ResponseCode", "Completed"} = {} => status = code
               /\ future = "true" /\ "ReceivingData" \notin lost /\ ~trailed =>
                    ~over /\ position = 0
    BY DEF DoneMeansTold
  <2>2. /\ out = <<>> /\ future = IF good THEN "true" ELSE "false"
        /\ good => data
        /\ Ended
    BY <2>1 DEF TInv, FutureOK, Ended
  <2>3. Travels = <<>> BY <2>1, <2>2, TravelsQueue
  <2>4. ~HasData(Travels) /\ (\A c : ~CodeIs(Travels, c))
    BY <2>3 DEF HasData, CodeIs
  <2>5. calls > 0 /\ lost \cap Final = {} => outcome = OutcomeAfter[Verdict]
    BY <2>1, <2>2, <2>3 DEF TInv, ToldOK, OutcomeTold
  <2>6. OutcomeAfter[Verdict] = IF future = "true" THEN "success" ELSE "error"
    BY <2>2 DEF OutcomeAfter, Verdict
  <2>7. lost \cap CodeKinds = {} => status = code
    BY <2>1, <2>4 DEF TInv, ToldOK, CodeTold
  <2>8. future = "true" => data BY <2>2
  <2>9. data /\ "ReceivingData" \notin lost /\ ~trailed => position = 0
    BY <2>1, <2>4 DEF TInv, ToldOK, RewindTold
  <2>10. ~trailed => ~over BY <2>1 DEF TInv, FileOK
  <2>11. QED BY <2>5, <2>6, <2>7, <2>8, <2>9, <2>10 DEF Final, CodeKinds
<1>4. QED BY <1>1, <1>2, <1>3, PTL DEF Spec

(***************************************************************************)
(* Types.                                                                  *)
(***************************************************************************)

Bounds == MaxItems \in Nat /\ MaxCalls \in Nat

\* The types that IInv leaves to say.
FlagsTyped ==
  /\ method \in {"get", "post"} /\ pc \in {"queued", "transfer", "set", "gone"}
  /\ future \in {"unset", "true", "false"}
  /\ data \in BOOLEAN /\ good \in BOOLEAN
  /\ over \in BOOLEAN /\ trailed \in BOOLEAN
  /\ calls \in 0 .. MaxCalls
  /\ Len(queue) <= MaxItems
  /\ lost \subseteq Kinds
RequestTyped ==
  /\ ready \in {"Unsent", "Opened", "HeadersReceived", "Loading", "Done"}
  /\ status \in Codes
  /\ outcome \in {"none", "success", "error"}
  /\ lines \in Nat /\ position \in 0 .. lines

LEMMA FlagsStep ==
  ASSUME Bounds, ZeroCode, IInv, FlagsTyped, [Next]_vars
  PROVE  FlagsTyped'
<1> USE DEF FlagsTyped, Bounds
<1>1. queue \in Seq(Messages) /\ out \in Seq(Messages) BY DEF IInv
<1>2. CASE Run \/ ThrownAway BY <1>2 DEF Run, ThrownAway, fileVars
<1>3. CASE ReadPostData \/ WriteRecvData \/ \E b \in BOOLEAN : Progress(b)
  <2>1. /\ UNCHANGED <<method, pc, good, future, queue, over, trailed, lost>>
        /\ calls < MaxCalls /\ calls' = calls + 1
    BY <1>3 DEF ReadPostData, WriteRecvData, Progress, CallsBack, fileVars
  <2>2. data' = data \/ data' = TRUE
    BY <1>3 DEF ReadPostData, WriteRecvData, Progress
  <2>3. data' \in BOOLEAN BY <2>2
  <2>4. QED BY <2>1, <2>3
<1>4. CASE \E c \in Codes : WriteRecvHeader(c)
  BY <1>4 DEF WriteRecvHeader, CallsBack
<1>5. CASE \E b \in BOOLEAN : EndTransfer(b)
  BY <1>5 DEF EndTransfer, fileVars
<1>6. CASE Send
  <2>1. Head(out) \in Messages BY <1>1, <1>6 DEF Send
  <2>2. lost' \subseteq Kinds BY <1>6, <2>1 DEF Send, Messages
  <2>3. Len(queue') <= MaxItems BY <1>1, <1>6, <2>1 DEF Send
  <2>4. UNCHANGED <<method, pc, data, calls, good, future, over, trailed>>
    BY <1>6 DEF Send, fileVars
  <2>5. QED BY <2>2, <2>3, <2>4
<1>7. CASE SetValue BY <1>7 DEF SetValue, fileVars
<1>8. CASE Dispatch
  <2>1. Len(queue') <= MaxItems BY <1>1, <1>8 DEF Dispatch
  <2>2. UNCHANGED <<method, pc, data, calls, good, future, lost, over, trailed>>
    BY <1>8 DEF Dispatch, workerVars
  <2>3. QED BY <2>1, <2>2
<1>9. CASE UNCHANGED vars BY <1>9 DEF vars, workerVars, fileVars
<1>10. QED
  BY <1>2, <1>3, <1>4, <1>5, <1>6, <1>7, <1>8, <1>9 DEF Next, Worker

LEMMA RequestStep ==
  ASSUME ZeroCode, IInv, RequestTyped, [Next]_vars
  PROVE  RequestTyped'
<1> USE DEF RequestTyped
<1>1. CASE \E c \in Codes : WriteRecvHeader(c)
  BY <1>1 DEF WriteRecvHeader, CallsBack, requestVars
<1>2. CASE Dispatch
  <2>1. Head(queue).code \in Codes /\ Head(queue).is \in Kinds
    <3>1. Head(queue) \in Messages BY <1>2 DEF Dispatch, IInv
    <3>2. QED BY <3>1 DEF Messages
  <2>2. Handle(Head(queue).is, Head(queue).code) /\ lines' = lines
    BY <1>2 DEF Dispatch
  <2>3. PICK k \in Kinds, c \in Codes : Handle(k, c) BY <2>1, <2>2
  <2>4. status' \in Codes /\ position' \in 0 .. lines BY <2>3 DEF Handle
  <2>5. ready' \in {"Unsent", "Opened", "HeadersReceived", "Loading", "Done"}
    BY <2>3 DEF Handle, ReadyAfter
  <2>6. outcome' \in {"none", "success", "error"} BY <2>3 DEF Handle, OutcomeAfter
  <2>7. QED BY <2>2, <2>4, <2>5, <2>6
<1>3. CASE UNCHANGED <<requestVars, lines, position>>
  BY <1>3 DEF requestVars
<1>4. QED
  BY <1>1, <1>2, <1>3
  DEF Next, Worker, Run, ThrownAway, ReadPostData, WriteRecvData, Progress,
      CallsBack, EndTransfer, Send, SetValue, fileVars, vars

\* Type correctness: what the requester's queue holds never exceeds its bound, and
\* the position of the header file stays within it.
THEOREM FetchIsTyped ==
  ASSUME ZeroCode, Bounds
  PROVE  Spec => []TypeOK
<1>1. Init => IInv /\ FlagsTyped /\ RequestTyped
  <2>1. Init => IInv BY InitInv
  <2>2. Init => FlagsTyped
    <3>1. Len(<<>>) = 0 OBVIOUS
    <3>2. 0 <= MaxItems /\ 0 \in 0 .. MaxCalls BY DEF Bounds
    <3>3. QED BY <3>1, <3>2 DEF Init, FlagsTyped
  <2>3. Init => RequestTyped BY DEF Init, RequestTyped, ZeroCode
  <2>4. QED BY <2>1, <2>2, <2>3
<1>2. IInv /\ FlagsTyped /\ RequestTyped /\ [Next]_vars
        => (IInv /\ FlagsTyped /\ RequestTyped)'
  BY NextInv, FlagsStep, RequestStep
<1>3. IInv /\ FlagsTyped /\ RequestTyped => TypeOK
  BY DEF IInv, FlagsTyped, RequestTyped, TypeOK, Messages
<1>4. QED BY <1>1, <1>2, <1>3, PTL DEF Spec
==============================================================================
