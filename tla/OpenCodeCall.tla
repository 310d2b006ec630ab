---------------------------- MODULE OpenCodeCall ----------------------------
(***************************************************************************)
(* invoke_opencode_server: a server on a loopback port that is started for *)
(* one turn, asked over HTTP and stopped.  Every HTTP request ends, with   *)
(* an answer or a failure, because each has a timeout.  An answer that is  *)
(* no text, or not HTTP, raises what no handler here expects.              *)
(***************************************************************************)
EXTENDS ChildProcess

VARIABLES
  session,      \* session_id is set
  garbled       \* such an answer came where only a RuntimeError is caught

server == <<session, garbled>>

OpenCodeInvoke ==
  /\ Step("invoke", "ready")
  /\ Terminate
  /\ UNCHANGED <<signal, clock, server>>

\* The callback in the cancelling thread: a session it knows of is aborted first.
OpenCodeCallback ==
  /\ canceller = "callback"
  /\ canceller' = IF session /\ child = "live" THEN "abort" ELSE "signal"
  /\ Reap
  /\ UNCHANGED <<asked, token, registered, call, clock, server>>

\* Answered or not.
OpenCodeAbort ==
  /\ canceller = "abort"
  /\ canceller' = "signal"
  /\ UNCHANGED <<process, token, registered, call, clock, server>>

\* The exception leaves the callback, and the request with it.
OpenCodeAbortRaises ==
  /\ canceller = "abort"
  /\ child = "live"
  /\ canceller' = "done"
  /\ garbled' = TRUE
  /\ UNCHANGED <<process, token, registered, call, clock, session>>

\* _wait_until_ready: the deadline, the token and the process, then the request.
OpenCodeReady ==
  /\ IF late THEN Leave("ready", "finally", "error")
     ELSE IF token THEN Leave("ready", "finally", "cancelled")
     ELSE IF child # "live" THEN Leave("ready", "finally", "error")
     ELSE Step("ready", "ready") \/ Step("ready", "configure")
          \/ Leave("ready", "finally", "error")
  /\ IF late \/ token THEN UNCHANGED child ELSE Reap
  /\ UNCHANGED <<asked, signal, clock, server>>

\* Version, health, permission policy and tool inventory, in four requests.
OpenCodeConfigure ==
  /\ \/ child = "live" /\ Step("configure", "session")
     \/ Leave("configure", "finally", "error")
  /\ UNCHANGED <<process, signal, clock, server>>

OpenCodeSession ==
  /\ child = "live"
  /\ Step("session", "entered")
  /\ session' = TRUE
  /\ UNCHANGED <<process, signal, clock, garbled>>

\* The request failed; the server may have made the session all the same.
OpenCodeSessionFails ==
  /\ Leave("session", "finally", "error")
  /\ UNCHANGED <<process, signal, clock, server>>

OpenCodeEntered ==
  /\ IF token THEN Leave("entered", "finally", "cancelled") ELSE Step("entered", "message")
  /\ UNCHANGED <<process, signal, clock, server>>

OpenCodeMessage ==
  /\ \/ child = "live" /\ Step("message", "answered")
     \/ Leave("message", "finally", "error")
  /\ UNCHANGED <<process, signal, clock, server>>

\* A cancelled call has no answer; the answer may not be well-formed.
OpenCodeAnswered ==
  /\ IF token THEN Leave("answered", "finally", "cancelled")
     ELSE \E v \in {"result", "error"} : Leave("answered", "finally", v)
  /\ UNCHANGED <<process, signal, clock, server>>

OpenCodeFinally ==
  /\ Step("finally", "delete")
  /\ Unregister
  /\ UNCHANGED <<process, clock, server>>

\* The session is deleted if the server still runs, answered or not.
OpenCodeDelete ==
  /\ Step("delete", "stop")
  /\ IF session THEN Reap ELSE UNCHANGED child
  /\ UNCHANGED <<asked, signal, clock, server>>

\* The exception leaves finally, and with it the call, before the server is stopped.
OpenCodeDeleteRaises ==
  /\ session /\ child = "live"
  /\ Return("delete", "error")
  /\ garbled' = TRUE
  /\ UNCHANGED <<process, signal, clock, session>>

OpenCodeStop ==
  /\ Step("stop", IF child = "live" THEN "wait" ELSE "leave")
  /\ Terminate
  /\ UNCHANGED <<signal, clock, server>>

\* A second after SIGTERM it is killed, and waited for again.
OpenCodeWait ==
  IF child = "live"
  THEN /\ Step("wait", "wait")
       /\ Kill
       /\ UNCHANGED <<signal, clock, server>>
  ELSE /\ Step("wait", "leave")
       /\ Reap
       /\ UNCHANGED <<asked, signal, clock, server>>

\* The last statement of finally replaces whatever the call was about to return.
OpenCodeLeave ==
  /\ Return("leave", IF token THEN "cancelled" ELSE verdict)
  /\ UNCHANGED <<process, signal, clock, server>>

OpenCodeThread ==
  \/ OpenCodeInvoke \/ OpenCodeReady \/ OpenCodeConfigure \/ OpenCodeSession
  \/ OpenCodeSessionFails \/ OpenCodeEntered \/ OpenCodeMessage \/ OpenCodeAnswered
  \/ OpenCodeFinally \/ OpenCodeDelete \/ OpenCodeDeleteRaises
  \/ OpenCodeStop \/ OpenCodeWait \/ OpenCodeLeave

OpenCodeWatching == {"ready", "configure", "session", "entered", "message", "answered"}
=============================================================================
