---------------------------- MODULE NodeProcess ----------------------------
(***************************************************************************)
(* One Node executed by a child process, by whichever adapter: what the    *)
(* Runtime relies on when it waits for an executor or cancels one.         *)
(***************************************************************************)
EXTENDS CommandCall, OpenCodeCall, McpCall

CONSTANT Adapters       \* those the Node may use

ASSUME NodeProcessAssumption ==
  /\ Adapters \subseteq {"command", "opencode", "mcp"}
  /\ QueueSize \in Nat \ {0}

VARIABLE adapter

vars == <<adapter, shared, server, pipes>>

Workers ==
  {"check", "spawn", "register", "invoke", "finally", "ended"}
    \cup CommandWatching \cup {"kill"}
    \cup OpenCodeWatching \cup {"delete", "stop", "wait", "leave"}
    \cup McpWatching \cup {"close", "wait", "terminated", "close_stdout"}

TypeOK ==
  /\ adapter \in Adapters
  /\ ProcessTypeOK
  /\ worker \in Workers
  /\ session \in BOOLEAN /\ garbled \in BOOLEAN
  /\ McpTypeOK

Init ==
  /\ adapter \in Adapters
  /\ ProcessInit
  /\ session = FALSE /\ garbled = FALSE
  /\ McpInit

-----------------------------------------------------------------------------

\* The steps of the thread in execute that nothing outside can hold up for ever.
Thread ==
  \/ (Check \/ Spawn \/ SpawnRaises) /\ UNCHANGED <<server, pipes>>
  \/ adapter = "command" /\ CommandThread /\ UNCHANGED <<server, pipes>>
  \/ /\ adapter = "opencode"
     /\ OpenCodeThread \/ (Register("ready") /\ UNCHANGED server)
     /\ UNCHANGED pipes
  \/ adapter = "mcp" /\ McpThread /\ UNCHANGED server

Callback ==
  \/ adapter = "command" /\ CommandCallback /\ UNCHANGED <<server, pipes>>
  \/ adapter = "opencode" /\ (OpenCodeCallback \/ OpenCodeAbort \/ OpenCodeAbortRaises) /\ UNCHANGED pipes
  \/ adapter = "mcp" /\ McpCallback /\ UNCHANGED server
  \/ CallbackSignals /\ UNCHANGED <<server, pipes>>

Time == (SecondPasses \/ DeadlinePasses) /\ UNCHANGED <<server, pipes>>

Reader ==
  /\ adapter = "mcp"
  /\ Offer \/ \E l \in Lines : ReadLine(l)
  /\ UNCHANGED server

Server ==
  \/ Exit /\ UNCHANGED <<server, pipes>>
  \/ adapter = "mcp" /\ (ServerShuts \/ McpSends) /\ UNCHANGED server

Next ==
  /\ \/ Thread \/ Callback \/ Time \/ Reader \/ Server
     \/ Request /\ UNCHANGED <<server, pipes>>
  /\ UNCHANGED adapter

Spec == Init /\ [][Next]_vars

\* Threads run, time passes and a stream whose writer is gone ends.  A server
\* need not read, write, exit or listen to a signal.
FairSpec ==
  /\ Spec
  /\ WF_vars(Thread /\ UNCHANGED adapter)
  /\ WF_vars(Callback /\ UNCHANGED adapter)
  /\ WF_vars(Time /\ UNCHANGED adapter)
  /\ WF_vars(adapter = "mcp" /\ (Offer \/ (ReadLine("eof") /\ child # "live"))
             /\ UNCHANGED <<server, adapter>>)

-----------------------------------------------------------------------------

\* A call leaves no process behind, however it ends: unless it could not write
\* to the process, or the process answered with something unreadable.
ReapedWhenReturned ==
  returned # "no" => child \in {"none", "reaped"} \/ unsent \/ garbled

Watching ==
  CASE adapter = "command"  -> CommandWatching
    [] adapter = "opencode" -> OpenCodeWatching
    [] adapter = "mcp"      -> McpWatching

\* A request and a registration never miss each other: once the request is
\* through, a process that still runs has been asked to end.
CancellationNotLost ==
  /\ token /\ canceller = "done"
  /\ worker \in Watching /\ child = "live"
  /\ ~garbled
  => asked

\* The write to a server that does not read is the only wait without a bound.
Sending == adapter = "mcp" /\ worker \in {"initialize", "notify", "call"}

\* A call returns, cancelled or overdue, even if its process ignores SIGTERM.
EveryCallReturns == <>[](returned # "no" \/ Sending)

\* The reading thread ends with the call and its process, also behind a full
\* queue that nobody empties any more.
ReaderEnds == (returned # "no" /\ child # "live") ~> reader \in {"none", "gone"}

\* A process-backed executor is terminated and reaped before its Run becomes
\* cancelled.
ReapedBeforeCancelled ==
  [][returned = "no" /\ returned' # "no" /\ token => child' \in {"none", "reaped"}]_vars
=============================================================================
