-------------------------------- MODULE Fetch --------------------------------
(***************************************************************************)
(* One HTTP request made with iCURL::FetchGet or FetchPost                 *)
(* (niCURL/src/CURL.cpp): the runnable that performs the transfer on a     *)
(* thread of the IO executor, the messages it sends to the thread that     *)
(* made the request, and the handler that turns them into the state of the *)
(* sFetchRequest.                                                          *)
(*                                                                         *)
(* libcurl is external: within curl_easy_perform it calls the four         *)
(* callbacks, on the runnable's thread, no data before the first header    *)
(* line.  Each callback decides which messages to send; sending one is a   *)
(* step of its own, the handling of one another.                           *)
(***************************************************************************)
EXTENDS Naturals, Sequences

CONSTANTS
  Codes,     \* the HTTP status codes; 0 is "none yet"
  MaxItems,  \* what the requester's message queue holds
  MaxCalls   \* bound: the callbacks in one transfer

VARIABLES
  method,   \* eFetchMethod
  pc,       \* where the runnable is: "queued", "transfer", "set", "gone"
  state,    \* CURLRunnable::_state
  code,     \* CURLRunnable::_responseCode
  data,     \* _recvDataSize is not 0
  calls,    \* the callbacks made
  out,      \* the messages the runnable is about to send
  good,     \* bRet of _RunSingle
  future,   \* CURLRunnable::_future: "unset", "true", "false"
  queue,    \* the messages in the requester's queue
  ready,    \* sFetchRequest::_readyState
  status,   \* sFetchRequest::_status
  lines,    \* the header lines in _fpHeaders
  position, \* the file position of _fpHeaders, in lines
  outcome,  \* which of the sink's two final methods was called
  \* history
  lost,     \* the kinds of the messages a full queue refused
  over,     \* a header line was written over another
  trailed   \* a header line came after data

workerVars  == <<method, pc, state, code, data, calls, out, good>>
requestVars == <<ready, status, outcome>>
fileVars    == <<lines, position, over, trailed>>
vars == <<workerVars, future, queue, requestVars, fileVars, lost>>

Kinds == {"Started", "ResponseCode", "Sending", "ReceivingHeader",
          "ReceivingData", "Progress", "Completed", "Failed"}

TypeOK ==
  /\ method \in {"get", "post"}
  /\ pc \in {"queued", "transfer", "set", "gone"}
  /\ state \in Kinds \cup {"none"}
  /\ code \in Codes
  /\ data \in BOOLEAN
  /\ calls \in 0..MaxCalls
  /\ out \in Seq([is : Kinds, code : Codes])
  /\ good \in BOOLEAN
  /\ future \in {"unset", "true", "false"}
  /\ queue \in Seq([is : Kinds, code : Codes]) /\ Len(queue) <= MaxItems
  /\ ready \in {"Unsent", "Opened", "HeadersReceived", "Loading", "Done"}
  /\ status \in Codes
  /\ lines \in Nat
  /\ position \in 0..lines
  /\ outcome \in {"none", "success", "error"}
  /\ lost \subseteq Kinds
  /\ over \in BOOLEAN /\ trailed \in BOOLEAN

Init ==
  /\ method \in {"get", "post"}
  /\ pc = "queued" /\ state = "none" /\ code = 0 /\ data = FALSE
  /\ calls = 0 /\ out = <<>> /\ good = TRUE
  /\ future = "unset" /\ queue = <<>>
  /\ ready = "Unsent" /\ status = 0 /\ outcome = "none"
  /\ lines = 0 /\ position = 0 /\ over = FALSE /\ trailed = FALSE
  /\ lost = {}

Message(is, c) == [is |-> is, code |-> c]

\* _UpdateResponseCode, libcurl's code being c.
CodeMessages(c) == IF c = code THEN <<>> ELSE <<Message("ResponseCode", c)>>

\* _UpdateState(s): the first call tells of Started whatever s is.
StateMessages(s) ==
  IF state = "none" THEN <<Message("Started", 0)>>
  ELSE IF state = s THEN <<>>
       ELSE <<Message(s, IF s = "Completed" THEN code ELSE 0)>>
UpdateState(s) == state' = IF state = "none" THEN "Started" ELSE s

(***************************************************************************)
(* The runnable, in curl_easy_perform.                                     *)
(***************************************************************************)

Run ==
  /\ pc = "queued"
  /\ pc' = "transfer"
  /\ UNCHANGED <<method, state, code, data, calls, out, good, future, queue,
                 requestVars, fileVars, lost>>

\* ShutdownNow of the IO executor throws the runnable away.
ThrownAway ==
  /\ pc = "queued"
  /\ pc' = "gone"
  /\ UNCHANGED <<method, state, code, data, calls, out, good, future, queue,
                 requestVars, fileVars, lost>>

\* A callback, whose messages are ms.
CallsBack(ms) ==
  /\ pc = "transfer" /\ out = <<>>
  /\ calls < MaxCalls
  /\ calls' = calls + 1
  /\ out' = ms
  /\ UNCHANGED <<method, pc, good, future, queue, requestVars, lost>>

ReadPostData ==
  /\ method = "post"
  /\ CallsBack(StateMessages("Sending"))
  /\ UpdateState("Sending")
  /\ UNCHANGED <<code, data, fileVars>>

\* The status line of a response is a header line: c may be new.
WriteRecvHeader(c) ==
  /\ CallsBack(CodeMessages(c) \o StateMessages("ReceivingHeader"))
  /\ UpdateState("ReceivingHeader")
  /\ code' = c
  /\ over' = (over \/ position < lines)
  /\ position' = position + 1
  /\ lines' = IF position = lines THEN lines + 1 ELSE lines
  /\ trailed' = (trailed \/ data)
  /\ UNCHANGED data

WriteRecvData ==
  /\ lines > 0
  /\ CallsBack(StateMessages("ReceivingData"))
  /\ UpdateState("ReceivingData")
  /\ data' = TRUE
  /\ UNCHANGED <<code, fileVars>>

\* moved: the numbers differ from those of the last call.
Progress(moved) ==
  /\ CallsBack((IF state = "none" THEN StateMessages("Started") ELSE <<>>)
               \o (IF moved THEN <<Message("Progress", 0)>> ELSE <<>>))
  /\ IF state = "none" THEN UpdateState("Started") ELSE UNCHANGED state
  /\ UNCHANGED <<code, data, fileVars>>

\* Mutant: the error is reported and the run goes on to report completion.
EndTransferTwice(ok) ==
  /\ pc = "transfer" /\ out = <<>>
  /\ out' = (IF ok THEN <<>> ELSE <<Message("Failed", code)>>)
            \o <<Message("Completed", code)>>
  /\ state' = "Completed"
  /\ good' = (ok /\ data)
  /\ pc' = "set"
  /\ UNCHANGED <<method, code, data, calls, future, queue, requestVars,
                 fileVars, lost>>

\* Mutant: a transfer without data ends without a message.
EndTransferQuietly(ok) ==
  /\ pc = "transfer" /\ out = <<>>
  /\ LET s == IF ok THEN "Completed" ELSE "Failed" IN
       /\ out' = IF data THEN StateMessages(s) ELSE <<>>
       /\ UpdateState(s)
  /\ good' = (ok /\ data)
  /\ pc' = "set"
  /\ UNCHANGED <<method, code, data, calls, future, queue, requestVars,
                 fileVars, lost>>

\* curl_easy_perform returns; no transfer without data is a success.  Without any
\* callback the one message is Started.
EndTransfer(ok) ==
  /\ pc = "transfer" /\ out = <<>>
  /\ LET s == IF ok /\ data THEN "Completed" ELSE "Failed" IN
       out' = StateMessages(s) /\ UpdateState(s)
  /\ good' = (ok /\ data)
  /\ pc' = "set"
  /\ UNCHANGED <<method, code, data, calls, future, queue, requestVars,
                 fileVars, lost>>

\* SendMessage to another thread queues the message, unless the queue is full.
Send ==
  /\ out # <<>>
  /\ out' = Tail(out)
  /\ IF Len(queue) < MaxItems
     THEN queue' = Append(queue, Head(out)) /\ UNCHANGED lost
     ELSE lost' = lost \cup {Head(out).is} /\ UNCHANGED queue
  /\ UNCHANGED <<method, pc, state, code, data, calls, good, future,
                 requestVars, fileVars>>

\* Mutant: the future is set before the requester is told.
SetValueFirst ==
  /\ pc = "set"
  /\ future' = IF good THEN "true" ELSE "false"
  /\ pc' = "gone"
  /\ UNCHANGED <<method, state, code, data, calls, out, good, queue,
                 requestVars, fileVars, lost>>

\* The future is set last, and the runnable lets go of everything.
SetValue ==
  /\ pc = "set" /\ out = <<>>
  /\ future' = IF good THEN "true" ELSE "false"
  /\ pc' = "gone"
  /\ UNCHANGED <<method, state, code, data, calls, out, good, queue,
                 requestVars, fileVars, lost>>

(***************************************************************************)
(* The requester dispatches its queue: the message handler of _Fetch.      *)
(***************************************************************************)

\* _UpdateReadyState, for the messages that change it.
ReadyAfter == [Started |-> "Opened", ReceivingData |-> "HeadersReceived",
               Progress |-> "Loading", Completed |-> "Done", Failed |-> "Done"]

\* The sink's final methods.
OutcomeAfter == [Completed |-> "success", Failed |-> "error"]

Handle(is, c) ==
  /\ ready' = IF is \in DOMAIN ReadyAfter THEN ReadyAfter[is] ELSE ready
  /\ status' = IF is \in {"Completed", "ResponseCode"} THEN c ELSE status
  /\ outcome' = IF is \in DOMAIN OutcomeAfter THEN OutcomeAfter[is] ELSE outcome
  /\ position' = IF is = "ReceivingData" THEN 0 ELSE position

Dispatch ==
  /\ queue # <<>>
  /\ queue' = Tail(queue)
  /\ Handle(Head(queue).is, Head(queue).code)
  /\ UNCHANGED <<workerVars, future, lines, over, trailed, lost>>

Worker ==
  \/ Run \/ ReadPostData \/ WriteRecvData \/ Send \/ SetValue
  \/ (\E c \in Codes : WriteRecvHeader(c))
  \/ \E b \in BOOLEAN : Progress(b) \/ EndTransfer(b)

Next == Worker \/ ThrownAway \/ Dispatch

Spec == Init /\ [][Next]_vars

(***************************************************************************)
(* What a request is owed.                                                 *)
(***************************************************************************)

\* The detailed request implements the promise of IFetch.h: it is opened once,
\* and Done once, and nothing comes after, although a transfer goes through three
\* tests that may each report its failure.
Request == INSTANCE FetchRequest
ImplementsRequest == Request!Spec

\* Whoever sees the future's value and has dispatched its messages knows the
\* outcome, the same as the value, and the last status code, and can read the headers
\* of a success whole from where the file stands, although the requester rewinds the
\* file the worker writes to.  Each needs only the messages that tell of it not to
\* have been refused; the outcome is told if there was a callback before the end, and
\* the headers stay whole if none came after data.
DoneMeansTold ==
  future # "unset" /\ queue = <<>> =>
    /\ calls > 0 /\ lost \cap {"Completed", "Failed"} = {} =>
         outcome = IF future = "true" THEN "success" ELSE "error"
    /\ lost \cap {"ResponseCode", "Completed"} = {} => status = code
    /\ future = "true" /\ "ReceivingData" \notin lost /\ ~trailed =>
         ~over /\ position = 0

\* libcurl has time limits and returns, threads run, the requester dispatches: a
\* transfer that began gets its outcome, unless the queue refused the message or the
\* transfer ended before its first callback.
Told == outcome # "none" \/ lost \cap {"Completed", "Failed"} # {}
Silent == pc # "transfer" /\ calls = 0
FetchEnds == pc = "transfer" ~> Told \/ Silent

(***************************************************************************)
(* What IFetch.h says of a request, and the code does not keep.            *)
(***************************************************************************)

\* GetHasFailed: the requester hears of every failure.
ErrorIsTold ==
  future = "false" /\ queue = <<>> /\ lost = {} => outcome = "error"

\* GetReceivedHeaders: the file has all the header lines.
HeadersWhole == future = "true" /\ queue = <<>> /\ lost = {} => ~over

\* The ready states: the download is in progress when there are headers.
LoadingHasHeaders == ready = "Loading" => lines > 0
=============================================================================
