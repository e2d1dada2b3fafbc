----------------------------- MODULE FetchRequest -----------------------------
(***************************************************************************)
(* What a fetch promises its sink (niCURL's IFetch.h): the request is      *)
(* opened once, its progress is reported, it is Done once, with one call   *)
(* of OnFetchSink_Success or OnFetchSink_Error, and nothing is reported    *)
(* after that.  The order of the ready states HeadersReceived and Loading  *)
(* is not promised: the code does not keep it.                             *)
(***************************************************************************)
VARIABLES
  ready,   \* iFetchRequest::GetReadyState
  outcome  \* "none", or which of the two was called

vars == <<ready, outcome>>

Init == ready = "Unsent" /\ outcome = "none"

Open ==
  /\ ready = "Unsent"
  /\ ready' = "Opened"
  /\ UNCHANGED outcome

Report ==
  /\ outcome = "none"
  /\ ready' \in {"HeadersReceived", "Loading"}
  /\ UNCHANGED outcome

Finish ==
  /\ outcome = "none"
  /\ ready' = "Done"
  /\ outcome' \in {"success", "error"}

Next == Open \/ Report \/ Finish

Spec == Init /\ [][Next]_vars
===============================================================================
