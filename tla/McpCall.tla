------------------------------ MODULE McpCall ------------------------------
(***************************************************************************)
(* McpStdioCapabilityExecutor._session: a server on two pipes, asked to    *)
(* initialize and then to answer one call.  A thread of its own reads its  *)
(* lines into a bounded queue.                                             *)
(***************************************************************************)
EXTENDS ChildProcess, Naturals, Sequences

CONSTANT QueueSize      \* the lines that wait for the call, 16

VARIABLES
  shut,         \* the server no longer reads its standard input
  unsent,       \* a write has failed and its data is still in the buffer
  reader,       \* what the reading thread does next
  line,         \* the line it has read
  lines,        \* _lines
  stopped       \* _stopped

pipes == <<shut, unsent, reader, line, lines, stopped>>

\* What a line is to the call: an answer to one of its two requests, something
\* to skip, something it refuses, and the end of the stream.
Lines == {"initialized", "answer", "notification", "refused", "eof"}

McpTypeOK ==
  /\ shut \in BOOLEAN
  /\ unsent \in BOOLEAN
  /\ reader \in {"none", "read", "offer", "gone"}
  /\ line \in Lines
  /\ lines \in Seq(Lines) /\ Len(lines) <= QueueSize
  /\ stopped \in BOOLEAN

McpInit ==
  /\ shut = FALSE
  /\ unsent = FALSE
  /\ reader = "none"
  /\ line = "eof"
  /\ lines = <<>>
  /\ stopped = FALSE

-----------------------------------------------------------------------------
(* The reading thread.                                                     *)

\* The server writes a line, or the stream ends: at the latest with the server.
ReadLine(l) ==
  /\ reader = "read"
  /\ child = "live" \/ l = "eof"
  /\ reader' = "offer"
  /\ line' = l
  /\ UNCHANGED <<shared, shut, unsent, lines, stopped>>

\* Mutant: a full queue is waited for, whether the call is over or not.
OfferForEver ==
  /\ reader = "offer"
  /\ Len(lines) < QueueSize
  /\ lines' = Append(lines, line)
  /\ reader' = IF line = "eof" \/ stopped THEN "gone" ELSE "read"
  /\ UNCHANGED <<shared, shut, unsent, line, stopped>>

\* Mutant: a queue without maxsize.
OfferUnbounded ==
  /\ reader = "offer"
  /\ lines' = IF stopped THEN lines ELSE Append(lines, line)
  /\ reader' = IF line = "eof" \/ stopped THEN "gone" ELSE "read"
  /\ UNCHANGED <<shared, shut, unsent, line, stopped>>

\* _offer gives up when it is stopped; a line that is put is followed by the
\* next one, except the last.
Offer ==
  /\ reader = "offer"
  /\ stopped \/ Len(lines) < QueueSize
  /\ lines' = IF stopped THEN lines ELSE Append(lines, line)
  /\ reader' = IF line = "eof" \/ stopped THEN "gone" ELSE "read"
  /\ UNCHANGED <<shared, shut, unsent, line, stopped>>

\* A server may close its standard input and go on.
ServerShuts ==
  /\ child = "live"
  /\ ~shut
  /\ shut' = TRUE
  /\ UNCHANGED <<shared, unsent, reader, line, lines, stopped>>

-----------------------------------------------------------------------------
(* The call.                                                               *)

\* The reader starts before the callback is registered.
McpRegister ==
  /\ Register("initialize")
  /\ reader' = "read"
  /\ UNCHANGED <<shut, unsent, line, lines, stopped>>

McpInvoke ==
  /\ Step("invoke", "initialize")
  /\ Terminate
  /\ UNCHANGED <<signal, clock, pipes>>

\* The callback has nothing to do but its signal.
McpCallback ==
  /\ canceller = "callback"
  /\ canceller' = "signal"
  /\ UNCHANGED <<process, token, registered, call, clock, pipes>>

\* _mcp_send and the deadline of the answer.  The write waits for a server that
\* does not read: nothing bounds it.
Sent(from, to) ==
  /\ child = "live" /\ ~shut
  /\ Step(from, to)
  /\ late' = FALSE
  /\ UNCHANGED <<process, signal, started, pipes>>

McpSends ==
  \/ Sent("initialize", "await_initialize")
  \/ Sent("notify", "call")
  \/ Sent("call", "await_call")

\* A broken pipe: the data stays in the buffer of the stream.
SendFails ==
  /\ child # "live" \/ shut
  /\ \E from \in {"initialize", "notify", "call"} : Leave(from, "finally", "error")
  /\ unsent' = TRUE
  /\ UNCHANGED <<process, signal, clock, shut, reader, line, lines, stopped>>

\* One turn of _mcp_request: the token, the deadline, then a line.
AwaitGivesUp(from) ==
  /\ token \/ late
  /\ Leave(from, "finally", IF token THEN "cancelled" ELSE "error")
  /\ UNCHANGED <<process, signal, clock, pipes>>

\* The answer with the id of the request is accepted or found malformed; other
\* answers are skipped like notifications.
AwaitLine(from, wanted, to) ==
  /\ ~token /\ ~late
  /\ lines # <<>>
  /\ \/ Head(lines) = wanted /\ (Step(from, to) \/ Leave(from, "finally", "error"))
     \/ Head(lines) \notin {wanted, "refused", "eof"} /\ Step(from, from)
     \/ Head(lines) \in {"refused", "eof"} /\ Leave(from, "finally", "error")
  /\ lines' = Tail(lines)
  /\ UNCHANGED <<process, signal, clock, shut, unsent, reader, line, stopped>>

McpAwaits ==
  \/ AwaitGivesUp("await_initialize") \/ AwaitLine("await_initialize", "initialized", "notify")
  \/ AwaitGivesUp("await_call") \/ AwaitLine("await_call", "answer", "answered")

McpAnswered ==
  /\ Leave("answered", "finally", "result")
  /\ UNCHANGED <<process, signal, clock, pipes>>

-----------------------------------------------------------------------------
(* finally, and _close_process.                                            *)

McpFinally ==
  /\ Step("finally", "close")
  /\ Unregister
  /\ stopped' = TRUE
  /\ UNCHANGED <<process, clock, shut, unsent, reader, line, lines>>

\* Closing the standard input flushes it: data that could not be written raises
\* again, before the process is waited for.
CloseStdin ==
  /\ IF unsent THEN Return("close", "error") ELSE Step("close", "wait")
  /\ UNCHANGED <<process, signal, clock, pipes>>

\* A second to end with its input, one after SIGTERM, and then SIGKILL.
CloseWait ==
  \/ /\ child = "live"
     /\ \/ Step("wait", "terminated") /\ Terminate
        \/ Step("terminated", "terminated") /\ Kill
     /\ UNCHANGED <<signal, clock, pipes>>
  \/ /\ child # "live"
     /\ Step("wait", "close_stdout") \/ Step("terminated", "close_stdout")
     /\ Reap
     /\ UNCHANGED <<asked, signal, clock, pipes>>

\* A stream that is being read is not closed before the reader has its line.
CloseStdout ==
  /\ reader # "read"
  /\ Return("close_stdout", verdict)
  /\ UNCHANGED <<process, signal, clock, pipes>>

McpThread ==
  \/ McpRegister \/ McpInvoke \/ SendFails \/ McpAwaits \/ McpAnswered
  \/ McpFinally \/ CloseStdin \/ CloseWait \/ CloseStdout

McpWatching == {"initialize", "await_initialize", "notify", "call", "await_call", "answered"}
=============================================================================
